----------------------- MODULE ComponentOperations_proofs -----------------------
(***************************************************************************)
(* What holds of ComponentOperations for every set of environments,        *)
(* components and requests: type correctness, the range of the overrides,  *)
(* the currency of an undisturbed copy, what a patch leaves alone, and     *)
(* that a request nobody disturbs does all of its work.                    *)
(***************************************************************************)
EXTENDS ComponentOperations, TLAPS

USE ConstantsAssumption DEF Deployments, Names
-----------------------------------------------------------------------------
(* The pieces of state the actions are made of keep their types.           *)
LEMMA UpdateType ==
  ASSUME NEW A, NEW B, NEW T, NEW f \in [A -> [B -> T]], NEW a \in A, NEW b \in B, NEW v \in T
  PROVE  [f EXCEPT ![a][b] = v] \in [A -> [B -> T]]
  OBVIOUS

(* The RadixDeployment that is not there is typed like the others.         *)
LEMMA NoDeploymentType == NoDeployment \in RadixDeployment
  BY DEF NoDeployment, RadixDeployment, RDStates

(* The latest is one of those there can be.                                *)
LEMMA LatestType ==
  ASSUME NEW e \in Environments
  PROVE  LatestRadixDeployment(e) \subseteq Deployments
  BY DEF LatestRadixDeployment, Existing, Dated

(* The fields of a request have their types.                               *)
LEMMA RequestFields ==
  ASSUME NEW q \in Request
  PROVE  /\ q.op \in Operations /\ q.op \in OperationType
         /\ q.env \in Environments /\ q.envs \subseteq Environments
         /\ q.target \in Names /\ q.todo \subseteq Components
         /\ q.id \in {0} \union Deployments /\ q.snap \in RadixDeployment
  BY DEF Request

(* What an operation sets the override to is a number or nothing           *)
(* (ScaleComponent, ResetScaledComponent, StopComponent;                   *)
(* component_handler.go:31-89).                                            *)
LEMMA NewOverrideType ==
  ASSUME NEW op \in OperationType
  PROVE  NewOverride(op) \in {NoOverride} \union Int
  BY DEF NewOverride, OperationType

(* What an operation makes of a RadixDeployment is one.                    *)
LEMMA ChangedType ==
  ASSUME NEW rd \in RadixDeployment, NEW op \in OperationType, NEW n \in Names,
         NEW now \in Nat
  PROVE  Changed(rd, op, n, now) \in RadixDeployment
  BY NewOverrideType DEF Changed, RadixDeployment

(* What a merge patch makes of a RadixDeployment is one.                   *)
LEMMA MergedType ==
  ASSUME NEW now \in RadixDeployment, NEW old \in RadixDeployment,
         NEW new \in RadixDeployment
  PROVE  Merged(now, old, new) \in RadixDeployment
  <1> DEFINE comps == IF SameComponents(old, new) THEN now ELSE new
             jobs == IF old.jobRestart = new.jobRestart THEN now ELSE new
             same == SameComponents(comps, now) /\ jobs.jobRestart = now.jobRestart
             gen == IF same THEN now.gen ELSE now.gen + 1
  <1>1. comps \in RadixDeployment /\ jobs \in RadixDeployment
    OBVIOUS
  <1>2. /\ comps.override \in [Components -> {NoOverride} \union Int]
        /\ comps.restart \in [Components -> Nat]
        /\ jobs.jobRestart \in [JobComponents -> Nat]
    BY <1>1 DEF RadixDeployment
  <1>3. gen \in Nat /\ now.mutation + 1 \in Nat
    BY DEF RadixDeployment
  <1>4. Merged(now, old, new) =
          [now EXCEPT !.override = comps.override, !.restart = comps.restart,
                      !.jobRestart = jobs.jobRestart, !.gen = gen,
                      !.mutation = now.mutation + 1]
    BY DEF Merged
  <1> HIDE DEF comps, jobs, gen
  <1>5. QED
    BY <1>2, <1>3, <1>4 DEF RadixDeployment

(* A request record stays one when its fields are set to values of theirs. *)
Pcs == {"idle", "list", "find", "judge", "patch", "ok", "error"}

(* The ways in which steps change a request.                               *)
LEMMA RequestUpdates ==
  ASSUME NEW q \in Request
  PROVE  /\ Released(q) \in Request
         /\ \A pc \in Pcs : [q EXCEPT !.pc = pc] \in Request
         /\ \A pc \in Pcs, n \in Components, t \in SUBSET Components :
              [q EXCEPT !.pc = pc, !.target = n, !.todo = t] \in Request
         /\ \A e \in Environments, es \in SUBSET Environments :
              /\ [q EXCEPT !.env = e, !.envs = es] \in Request
              /\ \A pc \in Pcs : [q EXCEPT !.pc = pc, !.env = e, !.envs = es] \in Request
         /\ \A d \in Deployments, rd \in RadixDeployment :
              [q EXCEPT !.pc = "judge", !.id = d, !.snap = rd] \in Request
  <1>1. Released(q) \in Request
    BY NoDeploymentType DEF Request, Released
  <1>2. ASSUME NEW pc \in Pcs PROVE [q EXCEPT !.pc = pc] \in Request
    BY DEF Request, Pcs
  <1>3. ASSUME NEW pc \in Pcs, NEW n \in Components, NEW t \in SUBSET Components
        PROVE  [q EXCEPT !.pc = pc, !.target = n, !.todo = t] \in Request
    BY DEF Request, Pcs
  <1>4. ASSUME NEW e \in Environments, NEW es \in SUBSET Environments
        PROVE  [q EXCEPT !.env = e, !.envs = es] \in Request
    BY DEF Request
  <1>5. ASSUME NEW pc \in Pcs, NEW e \in Environments, NEW es \in SUBSET Environments
        PROVE  [q EXCEPT !.pc = pc, !.env = e, !.envs = es] \in Request
    BY DEF Request, Pcs
  <1>6. ASSUME NEW d \in Deployments, NEW rd \in RadixDeployment
        PROVE  [q EXCEPT !.pc = "judge", !.id = d, !.snap = rd] \in Request
    BY DEF Request
  <1>7. QED
    BY <1>1, <1>2, <1>3, <1>4, <1>5, <1>6

(* One request changes.                                                    *)
LEMMA BecomeType ==
  ASSUME TypeOK, NEW r \in Requests, NEW q \in Request, Become(r, q)
  PROVE  req' \in [Requests -> Request]
  BY DEF TypeOK, Become

(* Answering keeps the types.                                              *)
LEMMA FinishType ==
  ASSUME TypeOK, NEW r \in Requests, NEW pc \in {"ok", "error"}, Finish(r, pc)
  PROVE  TypeOK'
  <1>1. req[r] \in Request
    BY DEF TypeOK
  <1>2. [Released(req[r]) EXCEPT !.pc = pc] \in Request
    BY <1>1, RequestUpdates DEF Pcs
  <1>3. req' \in [Requests -> Request]
    BY <1>2, BecomeType DEF Finish
  <1>4. QED
    BY <1>3 DEF TypeOK, Finish

(* Going on with the loops keeps the types.                                *)
LEMMA AdvanceType ==
  ASSUME TypeOK, NEW r \in Requests, Advance(r)
  PROVE  req' \in [Requests -> Request]
  <1> DEFINE q == req[r]
  <1>1. q \in Request /\ Released(q) \in Request
    BY RequestUpdates DEF TypeOK
  <1>2. q.todo \subseteq Components /\ q.envs \subseteq Environments
    BY <1>1, RequestFields
  <1>3. CASE \E n \in q.todo :
               Become(r, [Released(q) EXCEPT !.pc = "find", !.target = n,
                                             !.todo = q.todo \ {n}])
    <2>1. PICK n \in q.todo : Become(r, [Released(q) EXCEPT !.pc = "find", !.target = n,
                                                            !.todo = q.todo \ {n}])
      BY <1>3
    <2>2. [Released(q) EXCEPT !.pc = "find", !.target = n, !.todo = q.todo \ {n}] \in Request
      BY <1>1, <1>2, RequestUpdates DEF Pcs
    <2>3. QED
      BY <2>1, <2>2, BecomeType
  <1>4. CASE \E e \in q.envs :
               Become(r, [Released(q) EXCEPT !.pc = "list", !.env = e, !.envs = q.envs \ {e}])
    <2>1. PICK e \in q.envs : Become(r, [Released(q) EXCEPT !.pc = "list", !.env = e,
                                                            !.envs = q.envs \ {e}])
      BY <1>4
    <2>2. [Released(q) EXCEPT !.pc = "list", !.env = e, !.envs = q.envs \ {e}] \in Request
      BY <1>1, <1>2, RequestUpdates DEF Pcs
    <2>3. QED
      BY <2>1, <2>2, BecomeType
  <1>5. CASE Become(r, [Released(q) EXCEPT !.pc = "ok"])
    <2>1. [Released(q) EXCEPT !.pc = "ok"] \in Request
      BY <1>1, RequestUpdates DEF Pcs
    <2>2. QED
      BY <1>5, <2>1, BecomeType
  <1>6. QED
    BY <1>3, <1>4, <1>5 DEF Advance

(* Marking who has been interfered with keeps the types.                   *)
LEMMA DisturbType ==
  ASSUME TypeOK, NEW writer, Disturb(writer)
  PROVE  history' \in [Requests -> History]
  BY DEF TypeOK, Disturb, History

(* What commit stores is a RadixDeployment.                                *)
LEMMA PatchedType ==
  ASSUME TypeOK, NEW r \in Requests, req[r].id \in Deployments
  PROVE  PatchedDeployment(r) \in RadixDeployment
  <1>1. req[r] \in Request /\ rds[req[r].env][req[r].id] \in RadixDeployment
    BY RequestFields DEF TypeOK
  <1>2. rds[req[r].env][req[r].id].gen + 1 \in Nat
    BY <1>1 DEF RadixDeployment
  <1>3. QED
    BY <1>1, <1>2, RequestFields, ChangedType, MergedType DEF PatchedDeployment
(* The generation of the latest RadixDeployment is a number.               *)
LEMMA GenerationType ==
  ASSUME TypeOK, NEW e \in Environments
  PROVE  GenerationOf(e) \in Nat
  BY LatestType DEF GenerationOf, TypeOK, RadixDeployment

(* The operator activates, deactivates and reconciles RadixDeployments.    *)
LEMMA StateType ==
  ASSUME NEW rd \in RadixDeployment
  PROVE  /\ [rd EXCEPT !.state = "active"] \in RadixDeployment
         /\ [rd EXCEPT !.state = "inactive"] \in RadixDeployment
         /\ [rd EXCEPT !.reconciled = rd.gen] \in RadixDeployment
  BY DEF RadixDeployment, RDStates

(* The types hold initially.                                               *)
LEMMA InitType == Init => TypeOK
  <1> SUFFICES ASSUME Init PROVE TypeOK
    OBVIOUS
  <1>1. ASSUME NEW op \in Operations
        PROVE  [pc |-> "idle", op |-> op, envs |-> {}, env |-> op.env, todo |-> {},
                target |-> op.target, id |-> 0, snap |-> NoDeployment] \in Request
    <2>1. op.env \in Environments /\ op.target \in Names
      BY DEF OperationType
    <2>2. QED
      BY <2>1, NoDeploymentType DEF Request
  <1>2. req \in [Requests -> Request]
    BY <1>1 DEF Init
  <1>3. rds \in [Environments -> [Deployments -> RadixDeployment]]
    BY NoDeploymentType DEF Init
  <1>4. kds \in [Environments -> [Names -> KubeDeployment]]
    BY DEF Init, KubeDeployment, NoKubeDeployment
  <1>5. history \in [Requests -> History]
    BY DEF Init, History
  <1>6. QED
    BY <1>2, <1>3, <1>4, <1>5 DEF TypeOK, Init

(* The types are kept when a request comes.                                *)
LEMMA SubmitType ==
  ASSUME TypeOK, NEW r \in Requests, Submit(r)
  PROVE  TypeOK'
  <1> DEFINE q == req[r]
             live == Environments \ orphaned
  <1>1. q \in Request
    BY DEF TypeOK
  <1>2. \/ \E pc \in Pcs : Become(r, [q EXCEPT !.pc = pc])
        \/ \E e \in live : Become(r, [q EXCEPT !.pc = "list", !.env = e, !.envs = live \ {e}])
    BY DEF Submit, SubmitComponent, SubmitEnvironment, SubmitApplication, Pcs
  <1>3. ASSUME NEW pc \in Pcs, Become(r, [q EXCEPT !.pc = pc])
        PROVE  req' \in [Requests -> Request]
    <2>1. [q EXCEPT !.pc = pc] \in Request
      BY <1>1, RequestUpdates
    <2>2. QED
      BY <2>1, <1>3, BecomeType
  <1>4. ASSUME NEW e \in live,
               Become(r, [q EXCEPT !.pc = "list", !.env = e, !.envs = live \ {e}])
        PROVE  req' \in [Requests -> Request]
    <2>1. [q EXCEPT !.pc = "list", !.env = e, !.envs = live \ {e}] \in Request
      BY <1>1, RequestUpdates DEF Pcs
    <2>2. QED
      BY <2>1, <1>4, BecomeType
  <1>5. req' \in [Requests -> Request]
    BY <1>2, <1>3, <1>4
  <1>6. history' \in [Requests -> History]
    <2>1. [e \in Environments |-> GenerationOf(e)] \in [Environments -> Nat]
      BY GenerationType
    <2>2. history' = [history EXCEPT ![r].gen = [e \in Environments |-> GenerationOf(e)]]
      BY DEF Submit
    <2>3. QED
      BY <2>1, <2>2 DEF TypeOK, History
  <1>7. QED
    BY <1>5, <1>6 DEF Submit, TypeOK

(* The types are kept when the components of an environment are listed.    *)
LEMMA ListType ==
  ASSUME TypeOK, NEW r \in Requests, ListComponents(r)
  PROVE  TypeOK'
  <1> DEFINE q == req[r]
  <1>1. q \in Request
    BY DEF TypeOK
  <1>2. ASSUME NEW d \in LatestRadixDeployment(q.env), NEW todo,
               todo = ComponentsToDo(q.op.verb, rds[q.env][d]),
               \/ \E n \in todo :
                    Become(r, [q EXCEPT !.pc = "find", !.target = n, !.todo = todo \ {n}])
               \/ \E e \in q.envs : Become(r, [q EXCEPT !.env = e, !.envs = q.envs \ {e}])
               \/ Become(r, [q EXCEPT !.pc = "ok"])
        PROVE  req' \in [Requests -> Request]
    <2>1. rds[q.env][d] \in RadixDeployment /\ q.envs \subseteq Environments
      BY <1>1, RequestFields, LatestType DEF TypeOK
    <2>2. todo \subseteq Components
      BY <1>2, <2>1 DEF ComponentsToDo, RadixDeployment
    <2>3. ASSUME NEW n \in todo
          PROVE  [q EXCEPT !.pc = "find", !.target = n, !.todo = todo \ {n}] \in Request
      BY <1>1, <2>2, RequestUpdates DEF Pcs
    <2>4. ASSUME NEW e \in q.envs
          PROVE  [q EXCEPT !.env = e, !.envs = q.envs \ {e}] \in Request
      BY <1>1, <2>1, RequestUpdates
    <2>5. [q EXCEPT !.pc = "ok"] \in Request
      BY <1>1, RequestUpdates DEF Pcs
    <2>6. \E x \in Request : Become(r, x)
      BY <1>2, <2>3, <2>4, <2>5
    <2>7. QED
      BY <2>6, BecomeType
  <1>3. CASE Finish(r, "error")
    BY <1>3, FinishType
  <1>4. CASE ~Finish(r, "error")
    <2>1. PICK d \in LatestRadixDeployment(q.env) :
            LET todo == ComponentsToDo(q.op.verb, rds[q.env][d]) IN
            /\ \/ \E n \in todo :
                    Become(r, [q EXCEPT !.pc = "find", !.target = n, !.todo = todo \ {n}])
               \/ \E e \in q.envs : Become(r, [q EXCEPT !.env = e, !.envs = q.envs \ {e}])
               \/ Become(r, [q EXCEPT !.pc = "ok"])
            /\ UNCHANGED <<rds, kds, orphaned, history>>
      BY <1>4 DEF ListComponents
    <2>2. req' \in [Requests -> Request]
      BY <1>2, <2>1
    <2>3. QED
      BY <2>1, <2>2 DEF TypeOK
  <1>5. QED
    BY <1>3, <1>4

(* The types are kept when a component is found.                           *)
LEMMA FindType ==
  ASSUME TypeOK, NEW r \in Requests, FindComponent(r)
  PROVE  TypeOK'
  <1> DEFINE q == req[r]
  <1>1. q \in Request
    BY DEF TypeOK
  <1>2. CASE Finish(r, "error")
    BY <1>2, FinishType
  <1>3. CASE \E d \in LatestRadixDeployment(q.env) :
               /\ Become(r, [q EXCEPT !.pc = "judge", !.id = d, !.snap = rds[q.env][d]])
               /\ UNCHANGED <<rds, kds, orphaned, history>>
    <2>1. PICK d \in LatestRadixDeployment(q.env) :
            Become(r, [q EXCEPT !.pc = "judge", !.id = d, !.snap = rds[q.env][d]])
      BY <1>3
    <2>2. d \in Deployments /\ rds[q.env][d] \in RadixDeployment
      BY <1>1, RequestFields, LatestType DEF TypeOK
    <2>3. [q EXCEPT !.pc = "judge", !.id = d, !.snap = rds[q.env][d]] \in Request
      BY <1>1, <2>2, RequestUpdates
    <2>4. req' \in [Requests -> Request]
      BY <2>1, <2>3, BecomeType
    <2>5. QED
      BY <1>3, <2>4 DEF TypeOK
  <1>4. QED
    BY <1>2, <1>3 DEF FindComponent

(* The types are kept when its status is judged.                           *)
LEMMA JudgeType ==
  ASSUME TypeOK, NEW r \in Requests, JudgeComponent(r)
  PROVE  TypeOK'
  <1>1. req[r] \in Request
    BY DEF TypeOK
  <1>2. CASE Finish(r, "error")
    BY <1>2, FinishType
  <1>3. CASE Become(r, [req[r] EXCEPT !.pc = "patch"]) /\ UNCHANGED <<rds, kds, orphaned, history>>
    <2>1. [req[r] EXCEPT !.pc = "patch"] \in Request
      BY <1>1, RequestUpdates DEF Pcs
    <2>2. req' \in [Requests -> Request]
      BY <1>3, <2>1, BecomeType
    <2>3. QED
      BY <1>3, <2>2 DEF TypeOK
  <1>4. CASE Advance(r) /\ UNCHANGED <<rds, kds, orphaned, history>>
    BY <1>4, AdvanceType DEF TypeOK
  <1>5. QED
    BY <1>2, <1>3, <1>4 DEF JudgeComponent

(* The types are kept when it is patched.                                  *)
LEMMA PatchType ==
  ASSUME TypeOK, NEW r \in Requests, PatchDeployment(r)
  PROVE  TypeOK'
  <1> DEFINE q == req[r]
  <1>1. q \in Request /\ Released(q) \in Request
    BY RequestUpdates DEF TypeOK
  <1>2. rds' \in [Environments -> [Deployments -> RadixDeployment]]
    <2> DEFINE row == [rds[q.env] EXCEPT ![q.id] = PatchedDeployment(r)]
    <2>1. rds' = [rds EXCEPT ![q.env] = row]
      BY DEF PatchDeployment
    <2>2. rds[q.env] \in [Deployments -> RadixDeployment]
      BY <1>1, RequestFields DEF TypeOK
    <2>3. row \in [Deployments -> RadixDeployment]
      <3>1. CASE q.id \in Deployments
        BY <3>1, <2>2, PatchedType
      <3>2. CASE q.id \notin Deployments
        BY <3>2, <2>2
      <3>3. QED
        BY <3>1, <3>2
    <2> HIDE DEF row
    <2>4. QED
      BY <2>1, <2>3 DEF TypeOK
  <1>3. [Released(q) EXCEPT !.pc = "error"] \in Request
    BY <1>1, RequestUpdates DEF Pcs
  <1>4. req' \in [Requests -> Request]
    BY <1>3, AdvanceType, BecomeType DEF PatchDeployment
  <1>5. history' \in [Requests -> History]
    BY DisturbType DEF PatchDeployment
  <1>6. QED
    BY <1>2, <1>4, <1>5 DEF PatchDeployment, TypeOK

(* Operator and pipeline keep the types: Deployments have as many replicas *)
(* as the overrides, which are in range, say.                              *)
LEMMA ClusterType ==
  ASSUME TypeOK, OverrideInRange, NEW e \in Environments, ClusterStep(e)
  PROVE  TypeOK'
  <1>1. CASE CreateDeployment(e)
    <2>1. PICK d \in Deployments, comps \in DeployedSets, from \in Active(e) \union {0} :
            rds' = [rds EXCEPT ![e][d] =
              [NoDeployment EXCEPT !.state = "created", !.gen = 1, !.comps = comps,
                 !.override = IF from = 0 THEN @ ELSE rds[e][from].override]]
      BY <1>1 DEF CreateDeployment
    <2> DEFINE over == IF from = 0 THEN NoDeployment.override ELSE rds[e][from].override
    <2>2. over \in [Components -> {NoOverride} \union Int]
      BY NoDeploymentType DEF Active, TypeOK, RadixDeployment
    <2>3. [NoDeployment EXCEPT !.state = "created", !.gen = 1, !.comps = comps,
             !.override = over] \in RadixDeployment
      BY <2>2, NoDeploymentType DEF RadixDeployment, RDStates
    <2>4. rds' = [rds EXCEPT ![e][d] =
            [NoDeployment EXCEPT !.state = "created", !.gen = 1, !.comps = comps,
               !.override = over]]
      BY <2>1
    <2> HIDE DEF over
    <2>5. rds' \in [Environments -> [Deployments -> RadixDeployment]]
      BY <2>3, <2>4 DEF TypeOK
    <2>6. history' \in [Requests -> History]
      BY <1>1, DisturbType DEF CreateDeployment
    <2>7. QED
      BY <1>1, <2>5, <2>6 DEF CreateDeployment, TypeOK
  <1>2. ASSUME NEW d \in Deployments, ActivateDeployment(e, d)
        PROVE  TypeOK'
    <2> DEFINE row == [x \in Deployments |->
                  IF x = d THEN [rds[e][x] EXCEPT !.state = "active"]
                  ELSE IF rds[e][x].state = "active" THEN [rds[e][x] EXCEPT !.state = "inactive"]
                  ELSE rds[e][x]]
    <2>1. rds' \in [Environments -> [Deployments -> RadixDeployment]]
      <3>1. row \in [Deployments -> RadixDeployment]
        <4>1. ASSUME NEW x \in Deployments
              PROVE  row[x] \in RadixDeployment
          <5>1. rds[e][x] \in RadixDeployment
            BY DEF TypeOK
          <5>2. QED
            BY <5>1, StateType
        <4>2. QED
          BY <4>1
      <3>2. rds' = [rds EXCEPT ![e] = row]
        BY <1>2 DEF ActivateDeployment
      <3> HIDE DEF row
      <3>3. QED
        BY <3>1, <3>2 DEF TypeOK
    <2>2. history' \in [Requests -> History]
      BY <1>2, DisturbType DEF ActivateDeployment
    <2>3. QED
      BY <1>2, <2>1, <2>2 DEF ActivateDeployment, TypeOK
  <1>3. ASSUME NEW n \in Components, SyncComponent(e, n)
        PROVE  TypeOK'
    <2>1. ASSUME NEW d \in Active(e), n \in rds[e][d].comps,
                 NEW k \in DesiredReplicas(rds[e][d], n)
          PROVE  [owner |-> d, gen |-> rds[e][d].gen, replicas |-> k] \in KubeDeployment
      <3>1. d \in Deployments /\ rds[e][d] \in RadixDeployment
        BY DEF Active, TypeOK
      <3>2. rds[e][d].gen \in Nat /\ rds[e][d].comps \subseteq Components
        BY <3>1 DEF RadixDeployment
      <3>3. k \in Nat
        BY <2>1, <3>1, <3>2 DEF DesiredReplicas, OverrideInRange, maxScaleReplicas
      <3>4. QED
        BY <3>1, <3>2, <3>3 DEF KubeDeployment
    <2>2. NoKubeDeployment \in KubeDeployment
      BY DEF NoKubeDeployment, KubeDeployment
    <2>3. \E kd \in KubeDeployment : kds' = [kds EXCEPT ![e][n] = kd]
      BY <1>3, <2>1, <2>2 DEF SyncComponent
    <2>4. kds' \in [Environments -> [Names -> KubeDeployment]]
      <3>1. PICK kd \in KubeDeployment : kds' = [kds EXCEPT ![e][n] = kd]
        BY <2>3
      <3>2. kds \in [Environments -> [Names -> KubeDeployment]]
        BY DEF TypeOK
      <3>3. [kds EXCEPT ![e][n] = kd] \in [Environments -> [Names -> KubeDeployment]]
        BY <3>2, UpdateType
      <3>4. QED
        BY <3>1, <3>3
    <2>5. QED
      BY <1>3, <2>4 DEF SyncComponent, TypeOK
  <1>4. ASSUME NEW d \in Deployments, MarkReconciled(e, d)
        PROVE  TypeOK'
    <2>1. rds' \in [Environments -> [Deployments -> RadixDeployment]]
      BY <1>4, StateType DEF MarkReconciled, TypeOK
    <2>2. QED
      BY <1>4, <2>1 DEF MarkReconciled, TypeOK
  <1>5. QED
    BY <1>1, <1>2, <1>3, <1>4 DEF ClusterStep

-----------------------------------------------------------------------------
(***************************************************************************)
(* The range of the overrides.  It is not inductive: an override reaches a *)
(* RadixDeployment from the copy a request has read and from the number it *)
(* was asked for, so both have to be in range as well.  ScaleAllowed is    *)
(* only tested when a request arrives, so what is kept is that it holds of *)
(* every request being served.                                             *)
(***************************************************************************)
InRange(f) ==
  \A c \in Components : f[c] # NoOverride => f[c] \in 0..maxScaleReplicas

Tame(q) ==
  /\ InRange(q.snap.override)
  /\ q.pc \notin {"idle", "ok", "error"} => ScaleAllowed(q.op)

RequestsTame == \A r \in Requests : Tame(req[r])

RangeInv == TypeOK /\ OverrideInRange /\ RequestsTame

(* No RadixDeployment, no override.                                        *)
LEMMA NoDeploymentInRange == InRange(NoDeployment.override)
  BY DEF InRange, NoDeployment

(* One request changes, and stays within bounds.                           *)
LEMMA BecomeTame ==
  ASSUME TypeOK, RequestsTame, NEW r \in Requests, NEW q, Tame(q), Become(r, q)
  PROVE  RequestsTame'
  <1>1. ASSUME NEW x \in Requests PROVE Tame(req'[x])
    BY DEF RequestsTame, Become, TypeOK
  <1>2. QED
    BY <1>1 DEF RequestsTame, Tame, InRange

(* Where a request that gives its copy up goes: to the next component, the *)
(* next environment or the answer.                                         *)
Dropped(q, p) ==
  /\ p.op = q.op /\ p.snap = NoDeployment
  /\ p.pc \in {"find", "list", "ok", "error"}

(* Answering gives the copy up.                                            *)
LEMMA FinishDrops ==
  ASSUME TypeOK, NEW r \in Requests, NEW pc \in {"ok", "error"}, Finish(r, pc)
  PROVE  \E p \in Request : Become(r, p) /\ Dropped(req[r], p)
  <1>1. req[r] \in Request
    BY DEF TypeOK
  <1>2. [Released(req[r]) EXCEPT !.pc = pc] \in Request
    BY <1>1, RequestUpdates DEF Pcs
  <1>3. Dropped(req[r], [Released(req[r]) EXCEPT !.pc = pc])
    BY <1>1 DEF Dropped, Released, Request
  <1>4. QED
    BY <1>2, <1>3 DEF Finish

(* Going on with the loops gives the copy up.                              *)
LEMMA AdvanceDrops ==
  ASSUME TypeOK, NEW r \in Requests, Advance(r)
  PROVE  \E p \in Request : Become(r, p) /\ Dropped(req[r], p)
  <1> DEFINE q == req[r]
  <1>1. q \in Request /\ Released(q) \in Request
    BY RequestUpdates DEF TypeOK
  <1>2. q.todo \subseteq Components /\ q.envs \subseteq Environments
    BY <1>1, RequestFields
  <1>3. Released(q).op = q.op /\ Released(q).snap = NoDeployment
    BY <1>1 DEF Released, Request
  <1>4. ASSUME NEW n \in q.todo,
               Become(r, [Released(q) EXCEPT !.pc = "find", !.target = n, !.todo = q.todo \ {n}])
        PROVE  \E p \in Request : Become(r, p) /\ Dropped(q, p)
    <2> DEFINE p == [Released(q) EXCEPT !.pc = "find", !.target = n, !.todo = q.todo \ {n}]
    <2>1. p \in Request
      BY <1>1, <1>2, RequestUpdates DEF Pcs
    <2>2. Dropped(q, p)
      BY <1>1, <1>3 DEF Dropped, Request
    <2>3. QED
      BY <2>1, <2>2, <1>4
  <1>5. ASSUME NEW e \in q.envs,
               Become(r, [Released(q) EXCEPT !.pc = "list", !.env = e, !.envs = q.envs \ {e}])
        PROVE  \E p \in Request : Become(r, p) /\ Dropped(q, p)
    <2> DEFINE p == [Released(q) EXCEPT !.pc = "list", !.env = e, !.envs = q.envs \ {e}]
    <2>1. p \in Request
      BY <1>1, <1>2, RequestUpdates DEF Pcs
    <2>2. Dropped(q, p)
      BY <1>1, <1>3 DEF Dropped, Request
    <2>3. QED
      BY <2>1, <2>2, <1>5
  <1>6. ASSUME Become(r, [Released(q) EXCEPT !.pc = "ok"])
        PROVE  \E p \in Request : Become(r, p) /\ Dropped(q, p)
    <2> DEFINE p == [Released(q) EXCEPT !.pc = "ok"]
    <2>1. p \in Request
      BY <1>1, RequestUpdates DEF Pcs
    <2>2. Dropped(q, p)
      BY <1>1, <1>3 DEF Dropped, Request
    <2>3. QED
      BY <2>1, <2>2, <1>6
  <1>7. QED
    BY <1>4, <1>5, <1>6 DEF Advance

(* A request that goes on asks for what it asked for before.               *)
LEMMA DroppedTame ==
  ASSUME NEW q, NEW p, Dropped(q, p), p.pc \in {"ok", "error"} \/ ScaleAllowed(q.op)
  PROVE  Tame(p)
  BY NoDeploymentInRange DEF Dropped, Tame

(* What a single step of a request does to its record, seen from outside. *)
LEMMA RequestStepTame ==
  ASSUME RangeInv, NEW r \in Requests,
         Submit(r) \/ RequestStep(r) \/ CallFails(r)
  PROVE  RequestsTame'
  <1> USE DEF RangeInv
  <1>1. req[r] \in Request /\ Tame(req[r])
    BY DEF TypeOK, RequestsTame
  <1>2. ASSUME Serving(r), NEW p, Dropped(req[r], p), Become(r, p)
        PROVE  RequestsTame'
    <2>1. Tame(p)
      BY <1>1, <1>2, DroppedTame DEF Tame, Serving
    <2>2. QED
      BY <1>2, <2>1, BecomeTame
  <1>3. CASE Submit(r)
    <2>1. \/ Become(r, [req[r] EXCEPT !.pc = "ok"])
          \/ Become(r, [req[r] EXCEPT !.pc = "error"])
          \/ Become(r, [req[r] EXCEPT !.pc = "find"]) /\ ScaleAllowed(req[r].op)
          \/ Become(r, [req[r] EXCEPT !.pc = "list"]) /\ req[r].op.scope # "component"
          \/ \E e, es :
               /\ Become(r, [req[r] EXCEPT !.pc = "list", !.env = e, !.envs = es])
               /\ req[r].op.scope # "component"
      BY <1>3 DEF Submit, SubmitComponent, SubmitEnvironment, SubmitApplication
    <2>2. req[r].op.scope # "component" => ScaleAllowed(req[r].op)
      BY <1>1, RequestFields DEF ScaleAllowed
    <2>3. /\ Tame([req[r] EXCEPT !.pc = "ok"])
          /\ Tame([req[r] EXCEPT !.pc = "error"])
          /\ ScaleAllowed(req[r].op) => /\ Tame([req[r] EXCEPT !.pc = "find"])
                                        /\ Tame([req[r] EXCEPT !.pc = "list"])
      BY <1>1 DEF Tame, Request
    <2>4. ASSUME NEW e, NEW es, ScaleAllowed(req[r].op)
          PROVE  Tame([req[r] EXCEPT !.pc = "list", !.env = e, !.envs = es])
      BY <1>1, <2>4 DEF Tame, Request
    <2>5. \E q : Become(r, q) /\ Tame(q)
      BY <2>1, <2>2, <2>3, <2>4
    <2>6. QED
      BY <2>5, BecomeTame
  <1>4. CASE ListComponents(r)
    <2>1. Serving(r)
      BY <1>4 DEF ListComponents, Serving
    <2>2. \/ Finish(r, "error")
          \/ \E n, t : Become(r, [req[r] EXCEPT !.pc = "find", !.target = n, !.todo = t])
          \/ \E e, es : Become(r, [req[r] EXCEPT !.env = e, !.envs = es])
          \/ Become(r, [req[r] EXCEPT !.pc = "ok"])
      BY <1>4 DEF ListComponents
    <2>3. ASSUME NEW n, NEW t
          PROVE  Tame([req[r] EXCEPT !.pc = "find", !.target = n, !.todo = t])
      BY <1>1, <2>1 DEF Tame, Request, Serving
    <2>4. ASSUME NEW e, NEW es
          PROVE  Tame([req[r] EXCEPT !.env = e, !.envs = es])
      BY <1>1, <2>1 DEF Tame, Request, Serving
    <2>5. Tame([req[r] EXCEPT !.pc = "ok"])
      BY <1>1 DEF Tame, Request
    <2>6. CASE Finish(r, "error")
      BY <2>6, <2>1, <1>2, FinishDrops
    <2>7. CASE ~Finish(r, "error")
      <3>1. \E q : Become(r, q) /\ Tame(q)
        BY <2>7, <2>2, <2>3, <2>4, <2>5
      <3>2. QED
        BY <3>1, BecomeTame
    <2>8. QED
      BY <2>6, <2>7
  <1>5. CASE FindComponent(r)
    <2>1. Serving(r)
      BY <1>5 DEF FindComponent, Serving
    <2>2. CASE Finish(r, "error")
      BY <2>2, <2>1, <1>2, FinishDrops
    <2>3. ASSUME NEW d \in LatestRadixDeployment(req[r].env),
                 Become(r, [req[r] EXCEPT !.pc = "judge", !.id = d, !.snap = rds[req[r].env][d]])
          PROVE  RequestsTame'
      <3>1. req[r].env \in Environments /\ d \in Deployments
        BY <1>1, RequestFields, LatestType
      <3>2. InRange(rds[req[r].env][d].override)
        BY <3>1 DEF InRange, OverrideInRange
      <3>3. Tame([req[r] EXCEPT !.pc = "judge", !.id = d, !.snap = rds[req[r].env][d]])
        BY <1>1, <2>1, <3>2 DEF Tame, Request, Serving
      <3>4. QED
        BY <2>3, <3>3, BecomeTame
    <2>4. QED
      BY <1>5, <2>2, <2>3 DEF FindComponent
  <1>6. CASE JudgeComponent(r)
    <2>1. Serving(r)
      BY <1>6 DEF JudgeComponent, Serving
    <2>2. CASE Finish(r, "error")
      BY <2>2, <2>1, <1>2, FinishDrops
    <2>3. CASE Advance(r)
      BY <2>3, <2>1, <1>2, AdvanceDrops
    <2>4. CASE Become(r, [req[r] EXCEPT !.pc = "patch"])
      <3>1. Tame([req[r] EXCEPT !.pc = "patch"])
        BY <1>1, <2>1 DEF Tame, Request, Serving
      <3>2. QED
        BY <2>4, <3>1, BecomeTame
    <2>5. QED
      BY <1>6, <2>2, <2>3, <2>4 DEF JudgeComponent
  <1>7. CASE PatchDeployment(r)
    <2>1. Serving(r)
      BY <1>7 DEF PatchDeployment, Serving
    <2>2. CASE Advance(r)
      BY <2>2, <2>1, <1>2, AdvanceDrops
    <2>3. CASE Become(r, [Released(req[r]) EXCEPT !.pc = "error"])
      <3>1. Dropped(req[r], [Released(req[r]) EXCEPT !.pc = "error"])
        BY <1>1 DEF Dropped, Released, Request
      <3>2. QED
        BY <2>3, <2>1, <3>1, <1>2
    <2>4. QED
      BY <1>7, <2>2, <2>3 DEF PatchDeployment
  <1>8. CASE CallFails(r)
    BY <1>8, <1>2, FinishDrops DEF CallFails
  <1>9. QED
    BY <1>3, <1>4, <1>5, <1>6, <1>7, <1>8 DEF RequestStep

(* A patch of tame parts is in range: the override of the component is the *)
(* number that was asked for, none or zero, the others are those of the RD *)
(* or of the copy.                                                         *)
LEMMA ChangedInRange ==
  ASSUME NEW rd \in RadixDeployment, NEW op \in OperationType, NEW n, NEW now,
         InRange(rd.override), ScaleAllowed(op)
  PROVE  InRange(Changed(rd, op, n, now).override)
  <1>1. NewOverride(op) # NoOverride => NewOverride(op) \in 0..maxScaleReplicas
    BY DEF NewOverride, ScaleAllowed, maxScaleReplicas
  <1>2. CASE op.verb = "restart"
    BY <1>2 DEF Changed, InRange, RadixDeployment
  <1>3. CASE op.verb # "restart"
    <2>1. Changed(rd, op, n, now).override = [rd.override EXCEPT ![n] = NewOverride(op)]
      BY <1>3 DEF Changed, RadixDeployment
    <2>2. QED
      BY <1>1, <2>1 DEF InRange, RadixDeployment
  <1>4. QED
    BY <1>2, <1>3

(* The overrides are those there are or those of the copy: never a mixture *)
(* (the array is replaced as a whole).                                     *)
LEMMA MergedOverride ==
  ASSUME NEW now \in RadixDeployment, NEW old, NEW new
  PROVE  Merged(now, old, new).override =
           IF SameComponents(old, new) THEN now.override ELSE new.override
  BY DEF Merged, RadixDeployment

(* A patch brings no override that is out of range.                        *)
LEMMA PatchInRange ==
  ASSUME RangeInv, NEW r \in Requests, PatchDeployment(r)
  PROVE  OverrideInRange'
  <1> DEFINE q == req[r]
             now == rds[q.env][q.id]
  <1>1. q \in Request /\ Tame(q) /\ ScaleAllowed(q.op)
    BY DEF RangeInv, TypeOK, RequestsTame, Tame, PatchDeployment
  <1>2. q.env \in Environments /\ q.snap \in RadixDeployment /\ q.op \in OperationType
    BY <1>1, RequestFields
  <1>3. rds' = [rds EXCEPT ![q.env][q.id] = PatchedDeployment(r)]
    BY DEF PatchDeployment
  <1>4. ASSUME q.id \in Deployments
        PROVE  InRange(PatchedDeployment(r).override)
    <2>1. now \in RadixDeployment /\ InRange(now.override)
      BY <1>2, <1>4 DEF RangeInv, TypeOK, OverrideInRange, InRange
    <2>2. InRange(Changed(q.snap, q.op, q.target, now.gen + 1).override)
      BY <1>1, <1>2, ChangedInRange DEF Tame
    <2> DEFINE new == Changed(q.snap, q.op, q.target, now.gen + 1)
    <2>3. PatchedDeployment(r) = Merged(now, q.snap, new)
      BY DEF PatchedDeployment
    <2>4. InRange(new.override)
      BY <2>2
    <2> HIDE DEF now, new
    <2>5. PatchedDeployment(r).override =
            IF SameComponents(q.snap, new) THEN now.override ELSE new.override
      BY <2>1, <2>3, MergedOverride
    <2>6. QED
      BY <2>1, <2>4, <2>5
  <1>5. ASSUME NEW e \in Environments, NEW d \in Deployments
        PROVE  InRange(rds'[e][d].override)
    <2>1. CASE e = q.env /\ d = q.id
      <3>1. rds'[e][d] = PatchedDeployment(r)
        BY <1>3, <2>1 DEF RangeInv, TypeOK
      <3>2. QED
        BY <3>1, <2>1, <1>4
    <2>2. CASE ~(e = q.env /\ d = q.id)
      <3>1. rds'[e][d] = rds[e][d]
        BY <1>3, <2>2 DEF RangeInv, TypeOK
      <3>2. QED
        BY <3>1 DEF RangeInv, OverrideInRange, InRange
    <2>3. QED
      BY <2>1, <2>2
  <1>6. QED
    BY <1>5 DEF OverrideInRange, InRange

(* The pipeline brings none out of range: it copies those there are.       *)
LEMMA ClusterInRange ==
  ASSUME RangeInv, NEW e \in Environments, ClusterStep(e)
  PROVE  OverrideInRange'
  <1> USE DEF RangeInv
  <1>1. CASE CreateDeployment(e)
    <2>1. PICK d \in Deployments, comps \in DeployedSets, from \in Active(e) \union {0} :
            rds' = [rds EXCEPT ![e][d] =
              [NoDeployment EXCEPT !.state = "created", !.gen = 1, !.comps = comps,
                 !.override = IF from = 0 THEN @ ELSE rds[e][from].override]]
      BY <1>1 DEF CreateDeployment
    <2> DEFINE over == IF from = 0 THEN NoDeployment.override ELSE rds[e][from].override
    <2>2. InRange(over)
      BY NoDeploymentInRange DEF Active, OverrideInRange, InRange
    <2>3. [NoDeployment EXCEPT !.state = "created", !.gen = 1, !.comps = comps,
             !.override = IF from = 0 THEN @ ELSE rds[e][from].override].override = over
      BY NoDeploymentType DEF RadixDeployment
    <2> HIDE DEF over
    <2>4. ASSUME NEW x \in Environments, NEW y \in Deployments
          PROVE  rds'[x][y].override = over \/ rds'[x][y] = rds[x][y]
      BY <2>1, <2>3 DEF TypeOK
    <2>5. QED
      BY <2>2, <2>4 DEF OverrideInRange, InRange
  <1>2. ASSUME NEW d \in Deployments, ActivateDeployment(e, d)
        PROVE  OverrideInRange'
    <2>1. ASSUME NEW x \in Environments, NEW y \in Deployments
          PROVE  rds'[x][y].override = rds[x][y].override
      <3>1. rds[x][y] \in RadixDeployment
        BY DEF TypeOK
      <3>2. /\ [rds[x][y] EXCEPT !.state = "active"].override = rds[x][y].override
            /\ [rds[x][y] EXCEPT !.state = "inactive"].override = rds[x][y].override
        BY <3>1 DEF RadixDeployment
      <3>3. QED
        BY <1>2, <3>2 DEF ActivateDeployment, TypeOK
    <2>2. QED
      BY <2>1 DEF OverrideInRange
  <1>3. ASSUME NEW n \in Components, SyncComponent(e, n)
        PROVE  OverrideInRange'
    BY <1>3 DEF SyncComponent, OverrideInRange
  <1>4. ASSUME NEW d \in Deployments, MarkReconciled(e, d)
        PROVE  OverrideInRange'
    <2>1. ASSUME NEW x \in Environments, NEW y \in Deployments
          PROVE  rds'[x][y].override = rds[x][y].override
      BY <1>4 DEF MarkReconciled, TypeOK, RadixDeployment
    <2>2. QED
      BY <2>1 DEF OverrideInRange
  <1>5. QED
    BY <1>1, <1>2, <1>3, <1>4 DEF ClusterStep

(* Operator and pipeline do not touch the requests.                        *)
LEMMA ClusterKeepsRequests ==
  ASSUME NEW e \in Environments, ClusterStep(e)
  PROVE  req' = req
  BY DEF ClusterStep, CreateDeployment, ActivateDeployment, SyncComponent, MarkReconciled

(* Steps of requests keep the types.                                       *)
LEMMA RequestTypes ==
  ASSUME TypeOK, NEW r \in Requests, Submit(r) \/ RequestStep(r) \/ CallFails(r)
  PROVE  TypeOK'
  BY SubmitType, ListType, FindType, JudgeType, PatchType, FinishType
  DEF RequestStep, CallFails

(* Of the steps of requests only the patch writes a RadixDeployment.       *)
LEMMA OnlyPatchWrites ==
  ASSUME NEW r \in Requests, Submit(r) \/ RequestStep(r) \/ CallFails(r)
  PROVE  PatchDeployment(r) \/ rds' = rds
  BY DEF Submit, RequestStep, CallFails, ListComponents, FindComponent, JudgeComponent, Finish

(* RangeInv is inductive; with it every state is well typed.               *)
THEOREM RangeInvariant == Spec => []RangeInv
  <1>1. Init => RangeInv
    <2> SUFFICES ASSUME Init PROVE RangeInv
      OBVIOUS
    <2>1. OverrideInRange
      BY NoDeploymentInRange DEF Init, OverrideInRange, InRange
    <2>2. ASSUME NEW r \in Requests PROVE Tame(req[r])
      <3>1. req[r].pc = "idle" /\ req[r].snap = NoDeployment
        BY DEF Init
      <3>2. QED
        BY <3>1, NoDeploymentInRange DEF Tame
    <2>3. QED
      BY <2>1, <2>2, InitType DEF RangeInv, RequestsTame
  <1>2. RangeInv /\ [Next]_vars => RangeInv'
    <2> SUFFICES ASSUME RangeInv, [Next]_vars PROVE RangeInv'
      OBVIOUS
    <2>1. ASSUME NEW r \in Requests, Submit(r) \/ RequestStep(r) \/ CallFails(r)
          PROVE  RangeInv'
      <3>1. TypeOK' /\ RequestsTame'
        BY <2>1, RequestTypes, RequestStepTame DEF RangeInv
      <3>2. OverrideInRange'
        BY <2>1, OnlyPatchWrites, PatchInRange DEF RangeInv, OverrideInRange
      <3>3. QED
        BY <3>1, <3>2 DEF RangeInv
    <2>2. ASSUME NEW e \in Environments, ClusterStep(e)
          PROVE  RangeInv'
      <3>1. TypeOK' /\ OverrideInRange'
        BY <2>2, ClusterType, ClusterInRange DEF RangeInv
      <3>2. RequestsTame'
        BY <2>2, ClusterKeepsRequests DEF RangeInv, RequestsTame, Tame, InRange
      <3>3. QED
        BY <3>1, <3>2 DEF RangeInv
    <2>3. CASE UNCHANGED vars
      BY <2>3 DEF vars, RangeInv, TypeOK, OverrideInRange, RequestsTame, Tame, InRange
    <2>4. QED
      BY <2>1, <2>2, <2>3 DEF Next
  <1>3. QED
    BY <1>1, <1>2, PTL DEF Spec

(* Every variable has its type in every reachable state; that the replicas *)
(* of a Kubernetes Deployment are a natural number rests on the range of   *)
(* the overrides (component_handler.go:33).                                *)
THEOREM TypeCorrect == Spec => []TypeOK
  <1>1. RangeInv => TypeOK
    BY DEF RangeInv
  <1>2. QED
    BY <1>1, RangeInvariant, PTL

(* No override outside 0..20 is ever stored, whatever is asked for and     *)
(* however stale the copies that are written back.                         *)
THEOREM OverridesInRange == Spec => []OverrideInRange
  <1>1. RangeInv => OverrideInRange
    BY DEF RangeInv
  <1>2. QED
    BY <1>1, RangeInvariant, PTL

-----------------------------------------------------------------------------
(***************************************************************************)
(* The copy of an undisturbed request is current: every step that writes a *)
(* RadixDeployment marks the requests it may have overtaken, and a request *)
(* that has written gives its own copy up.                                 *)
(***************************************************************************)
LEMMA BecomeOther ==
  ASSUME TypeOK, NEW r \in Requests, NEW q, Become(r, q), NEW x \in Requests
  PROVE  req'[x] = IF x = r THEN q ELSE req[x]
  BY DEF TypeOK, Become

(* A RadixDeployment agrees with itself.                                   *)
LEMMA SameSpecReflexive ==
  ASSUME NEW rd
  PROVE  SameSpec(rd, rd)
  BY DEF SameSpec, SameComponents

(* A write by writer disturbs every other request that holds a copy.       *)
LEMMA DisturbMarks ==
  ASSUME TypeOK, NEW writer, Disturb(writer), NEW x \in Requests, x \notin writer, Serving(x)
  PROVE  history'[x].disturbed
  BY DEF TypeOK, Disturb, History

(* Steps that write nothing leave the copies current: the one that reads   *)
(* takes a current one.                                                    *)
LEMMA RequestStepCurrent ==
  ASSUME TypeOK, CopyIsCurrent, NEW r \in Requests,
         Submit(r) \/ RequestStep(r) \/ CallFails(r), ~PatchDeployment(r)
  PROVE  CopyIsCurrent'
  <1>1. rds' = rds /\ \A x \in Requests : history'[x].disturbed = history[x].disturbed
    <2>1. rds' = rds
      BY OnlyPatchWrites
    <2>2. Submit(r) \/ history' = history
      BY DEF RequestStep, CallFails, ListComponents, FindComponent, JudgeComponent, Finish
    <2>3. ASSUME Submit(r), NEW x \in Requests
          PROVE  history'[x].disturbed = history[x].disturbed
      <3>1. history' = [history EXCEPT ![r].gen = [e \in Environments |-> GenerationOf(e)]]
        BY <2>3 DEF Submit
      <3>2. QED
        BY <3>1 DEF TypeOK, History
    <2>4. QED
      BY <2>1, <2>2, <2>3
  <1>2. req[r] \in Request
    BY DEF TypeOK
  <1>3. ASSUME NEW q, Become(r, q),
               \/ q.pc \notin {"judge", "patch"}
               \/ /\ q.env \in Environments /\ q.id \in Deployments
                  /\ q.snap = rds[q.env][q.id]
               \/ /\ req[r].pc = "judge" /\ q.env = req[r].env
                  /\ q.id = req[r].id /\ q.snap = req[r].snap
        PROVE  CopyIsCurrent'
    <2>1. ASSUME NEW x \in Requests,
                 req'[x].pc \in {"judge", "patch"}, ~history[x].disturbed
          PROVE  SameSpec(req'[x].snap, rds[req'[x].env][req'[x].id])
      <3>1. CASE x # r
        BY <3>1, <2>1, <1>3, BecomeOther DEF CopyIsCurrent
      <3>2. CASE x = r
        <4>1. req'[x] = q
          BY <3>2, <1>3, BecomeOther
        <4>2. CASE q.snap = rds[q.env][q.id]
          BY <4>1, <4>2, SameSpecReflexive
        <4>3. CASE /\ req[r].pc = "judge" /\ q.env = req[r].env
                   /\ q.id = req[r].id /\ q.snap = req[r].snap
          BY <4>1, <4>3, <3>2, <2>1 DEF CopyIsCurrent
        <4>4. QED
          BY <4>1, <4>2, <4>3, <2>1, <1>3
      <3>3. QED
        BY <3>1, <3>2
    <2>2. QED
      BY <2>1, <1>1 DEF CopyIsCurrent, SameSpec, SameComponents
  <1>4. ASSUME NEW p, Become(r, p), Dropped(req[r], p)
        PROVE  CopyIsCurrent'
    BY <1>3, <1>4 DEF Dropped
  <1>5. CASE Submit(r)
    <2>1. \/ \E pc \in {"find", "error", "list", "ok"} : Become(r, [req[r] EXCEPT !.pc = pc])
          \/ \E e, es : Become(r, [req[r] EXCEPT !.pc = "list", !.env = e, !.envs = es])
      BY <1>5 DEF Submit, SubmitComponent, SubmitEnvironment, SubmitApplication
    <2>2. \A pc : [req[r] EXCEPT !.pc = pc].pc = pc
      BY <1>2 DEF Request
    <2>3. \A e, es : [req[r] EXCEPT !.pc = "list", !.env = e, !.envs = es].pc = "list"
      BY <1>2 DEF Request
    <2>4. QED
      BY <2>1, <2>2, <2>3, <1>3
  <1>6. CASE ListComponents(r)
    <2>1. \/ Finish(r, "error")
          \/ \E n, t : Become(r, [req[r] EXCEPT !.pc = "find", !.target = n, !.todo = t])
          \/ \E e, es : Become(r, [req[r] EXCEPT !.env = e, !.envs = es])
          \/ Become(r, [req[r] EXCEPT !.pc = "ok"])
      BY <1>6 DEF ListComponents
    <2>2. /\ \A n, t : [req[r] EXCEPT !.pc = "find", !.target = n, !.todo = t].pc = "find"
          /\ \A e, es : [req[r] EXCEPT !.env = e, !.envs = es].pc = "list"
          /\ [req[r] EXCEPT !.pc = "ok"].pc = "ok"
      BY <1>2, <1>6 DEF Request, ListComponents
    <2>3. CASE Finish(r, "error")
      BY <2>3, <1>4, FinishDrops
    <2>4. QED
      BY <2>1, <2>2, <2>3, <1>3
  <1>7. CASE FindComponent(r)
    <2>1. CASE Finish(r, "error")
      BY <2>1, <1>4, FinishDrops
    <2>2. ASSUME NEW d \in LatestRadixDeployment(req[r].env),
                 Become(r, [req[r] EXCEPT !.pc = "judge", !.id = d, !.snap = rds[req[r].env][d]])
          PROVE  CopyIsCurrent'
      <3> DEFINE q == [req[r] EXCEPT !.pc = "judge", !.id = d, !.snap = rds[req[r].env][d]]
      <3>1. req[r].env \in Environments /\ d \in Deployments
        BY <1>2, RequestFields, LatestType
      <3>2. q.env = req[r].env /\ q.id = d /\ q.snap = rds[req[r].env][d]
        BY <1>2 DEF Request
      <3>3. Become(r, q)
        BY <2>2
      <3> HIDE DEF q
      <3>4. QED
        BY <3>1, <3>2, <3>3, <1>3
    <2>3. QED
      BY <1>7, <2>1, <2>2 DEF FindComponent
  <1>8. CASE JudgeComponent(r)
    <2>1. CASE Finish(r, "error")
      BY <2>1, <1>4, FinishDrops
    <2>2. CASE Advance(r)
      BY <2>2, <1>4, AdvanceDrops
    <2>3. CASE Become(r, [req[r] EXCEPT !.pc = "patch"])
      <3> DEFINE q == [req[r] EXCEPT !.pc = "patch"]
      <3>1. q.env = req[r].env /\ q.id = req[r].id /\ q.snap = req[r].snap
        BY <1>2 DEF Request
      <3>2. Become(r, q) /\ req[r].pc = "judge"
        BY <2>3, <1>8 DEF JudgeComponent
      <3> HIDE DEF q
      <3>3. QED
        BY <3>1, <3>2, <1>3
    <2>4. QED
      BY <1>8, <2>1, <2>2, <2>3 DEF JudgeComponent
  <1>9. CASE CallFails(r)
    BY <1>9, <1>4, FinishDrops DEF CallFails
  <1>10. QED
    BY <1>5, <1>6, <1>7, <1>8, <1>9 DEF RequestStep

(* A patch gives the copy up, in the loops too.                            *)
LEMMA PatchDrops ==
  ASSUME TypeOK, NEW r \in Requests, PatchDeployment(r)
  PROVE  \E p \in Request : Become(r, p) /\ Dropped(req[r], p)
  <1>1. req[r] \in Request /\ Released(req[r]) \in Request
    BY RequestUpdates DEF TypeOK
  <1>2. CASE Advance(r)
    BY <1>2, AdvanceDrops
  <1>3. CASE Become(r, [Released(req[r]) EXCEPT !.pc = "error"])
    <2>1. [Released(req[r]) EXCEPT !.pc = "error"] \in Request
      BY <1>1, RequestUpdates DEF Pcs
    <2>2. Dropped(req[r], [Released(req[r]) EXCEPT !.pc = "error"])
      BY <1>1 DEF Dropped, Released, Request
    <2>3. QED
      BY <1>3, <2>1, <2>2
  <1>4. QED
    BY <1>2, <1>3 DEF PatchDeployment

(* A writer leaves no request behind that holds a copy and is undisturbed, *)
(* unless it is the request that wrote, which has given its copy up.       *)
LEMMA PatchCurrent ==
  ASSUME TypeOK, NEW r \in Requests, PatchDeployment(r)
  PROVE  CopyIsCurrent'
  <1>1. PICK p \in Request : Become(r, p) /\ Dropped(req[r], p)
    BY PatchDrops
  <1>2. ASSUME NEW x \in Requests, req'[x].pc \in {"judge", "patch"}
        PROVE  history'[x].disturbed
    <2>1. x # r
      BY <1>1, <1>2, BecomeOther DEF Dropped
    <2>2. Serving(x)
      BY <1>1, <1>2, <2>1, BecomeOther DEF Serving
    <2>3. QED
      BY <2>1, <2>2, DisturbMarks DEF PatchDeployment
  <1>3. QED
    BY <1>2 DEF CopyIsCurrent

(* Operator and pipeline either disturb everyone or leave the              *)
(* specifications alone.                                                   *)
LEMMA ClusterCurrent ==
  ASSUME TypeOK, CopyIsCurrent, NEW e \in Environments, ClusterStep(e)
  PROVE  CopyIsCurrent'
  <1>1. req' = req
    BY ClusterKeepsRequests
  <1>2. CASE Disturb({})
    <2>1. ASSUME NEW x \in Requests, req'[x].pc \in {"judge", "patch"}
          PROVE  history'[x].disturbed
      BY <1>1, <1>2, <2>1, DisturbMarks DEF Serving
    <2>2. QED
      BY <2>1 DEF CopyIsCurrent
  <1>3. ASSUME NEW n \in Components, SyncComponent(e, n)
        PROVE  CopyIsCurrent'
    BY <1>1, <1>3 DEF SyncComponent, CopyIsCurrent, SameSpec, SameComponents
  <1>4. ASSUME NEW d \in Deployments, MarkReconciled(e, d)
        PROVE  CopyIsCurrent'
    <2>1. ASSUME NEW x \in Environments, NEW y
          PROVE  /\ rds'[x][y].override = rds[x][y].override
                 /\ rds'[x][y].restart = rds[x][y].restart
                 /\ rds'[x][y].jobRestart = rds[x][y].jobRestart
                 /\ rds'[x][y].gen = rds[x][y].gen
                 /\ rds'[x][y].comps = rds[x][y].comps
                 /\ rds'[x][y].state = rds[x][y].state
      <3>1. rds' = [rds EXCEPT ![e][d] = [rds[e][d] EXCEPT !.reconciled = rds[e][d].gen]]
        BY <1>4 DEF MarkReconciled
      <3>2. rds[e][d] \in RadixDeployment
        BY DEF TypeOK
      <3> DEFINE rd == [rds[e][d] EXCEPT !.reconciled = rds[e][d].gen]
      <3>3. /\ rd.override = rds[e][d].override /\ rd.restart = rds[e][d].restart
            /\ rd.jobRestart = rds[e][d].jobRestart /\ rd.gen = rds[e][d].gen
            /\ rd.comps = rds[e][d].comps /\ rd.state = rds[e][d].state
        BY <3>2 DEF RadixDeployment
      <3> HIDE DEF rd
      <3>4. rds'[x][y] = IF x = e /\ y = d THEN rd ELSE rds[x][y]
        BY <3>1 DEF rd, TypeOK
      <3>5. QED
        BY <3>3, <3>4
    <2>2. \A x \in Requests : req[x].env \in Environments
      BY RequestFields DEF TypeOK
    <2>3. history' = history
      BY <1>4 DEF MarkReconciled
    <2>4. ASSUME NEW x \in Requests, req[x].pc \in {"judge", "patch"}, ~history[x].disturbed
          PROVE  SameSpec(req[x].snap, rds'[req[x].env][req[x].id])
      <3>1. SameSpec(req[x].snap, rds[req[x].env][req[x].id])
        BY <2>4 DEF CopyIsCurrent
      <3>2. QED
        BY <3>1, <2>1, <2>2 DEF SameSpec, SameComponents
    <2>5. CopyIsCurrent' = \A x \in Requests :
            req'[x].pc \in {"judge", "patch"} /\ ~history'[x].disturbed =>
              SameSpec(req'[x].snap, rds'[req'[x].env][req'[x].id])
      BY DEF CopyIsCurrent, SameSpec, SameComponents
    <2>6. QED
      BY <1>1, <2>3, <2>4, <2>5
  <1>5. QED
    BY <1>2, <1>3, <1>4 DEF ClusterStep, CreateDeployment, ActivateDeployment

(* Without interference the copy a request patches from is the RD as it is *)
(* at that moment (environment_handler.go:446).                            *)
THEOREM CopiesAreCurrent == Spec => []CopyIsCurrent
  <1>1. Init => CopyIsCurrent
    BY DEF Init, CopyIsCurrent
  <1>2. TypeOK /\ CopyIsCurrent /\ [Next]_vars => CopyIsCurrent'
    <2> SUFFICES ASSUME TypeOK, CopyIsCurrent, [Next]_vars PROVE CopyIsCurrent'
      OBVIOUS
    <2>1. ASSUME NEW r \in Requests, Submit(r) \/ RequestStep(r) \/ CallFails(r)
          PROVE  CopyIsCurrent'
      BY <2>1, PatchCurrent, RequestStepCurrent
    <2>2. ASSUME NEW e \in Environments, ClusterStep(e)
          PROVE  CopyIsCurrent'
      BY <2>2, ClusterCurrent
    <2>3. CASE UNCHANGED vars
      <3>1. rds' = rds /\ req' = req /\ history' = history
        BY <2>3 DEF vars
      <3>2. QED
        BY <3>1 DEF CopyIsCurrent, SameSpec, SameComponents
    <2>4. QED
      BY <2>1, <2>2, <2>3 DEF Next
  <1>3. QED
    BY <1>1, <1>2, TypeCorrect, PTL DEF Spec

-----------------------------------------------------------------------------
(***************************************************************************)
(* What a patch leaves alone.                                              *)
(***************************************************************************)
LEMMA PatchedByPatch ==
  ASSUME TypeOK, Next, NEW r \in Requests, PatchedBy(r)
  PROVE  PatchDeployment(r)
  <1>1. ASSUME NEW x \in Requests, Submit(x) \/ RequestStep(x) \/ CallFails(x)
        PROVE  PatchDeployment(r)
    <2>1. PatchDeployment(x)
      BY <1>1, OnlyPatchWrites DEF PatchedBy
    <2>2. PICK p \in Request : Become(x, p)
      BY <2>1, PatchDrops
    <2>3. x = r
      BY <2>2, BecomeOther DEF PatchedBy
    <2>4. QED
      BY <2>1, <2>3
  <1>2. ASSUME NEW e \in Environments, ClusterStep(e)
        PROVE  FALSE
    BY <1>2, ClusterKeepsRequests DEF PatchedBy
  <1>3. QED
    BY <1>1, <1>2 DEF Next

(* Each array of a RadixDeployment is replaced as a whole, or kept.        *)
LEMMA MergedFields ==
  ASSUME NEW now \in RadixDeployment, NEW old, NEW new
  PROVE  /\ Merged(now, old, new).override =
              IF SameComponents(old, new) THEN now.override ELSE new.override
         /\ Merged(now, old, new).restart =
              IF SameComponents(old, new) THEN now.restart ELSE new.restart
         /\ Merged(now, old, new).jobRestart =
              IF old.jobRestart = new.jobRestart THEN now.jobRestart ELSE new.jobRestart
  BY DEF Merged, RadixDeployment

(* A change is confined to one entry of one array.                         *)
LEMMA ChangedFields ==
  ASSUME NEW rd \in RadixDeployment, NEW op, NEW n \in Names, NEW now
  PROVE  /\ n \in Components => Changed(rd, op, n, now).jobRestart = rd.jobRestart
         /\ n \notin Components => SameComponents(rd, Changed(rd, op, n, now))
         /\ \A m \in Components \ {n} :
              /\ Changed(rd, op, n, now).override[m] = rd.override[m]
              /\ Changed(rd, op, n, now).restart[m] = rd.restart[m]
         /\ \A m \in JobComponents \ {n} :
              Changed(rd, op, n, now).jobRestart[m] = rd.jobRestart[m]
  <1>1. CASE op.verb = "restart" /\ n \in Components
    BY <1>1 DEF Changed, RadixDeployment, SameComponents
  <1>2. CASE op.verb = "restart" /\ n \notin Components
    BY <1>2 DEF Changed, RadixDeployment, SameComponents
  <1>3. CASE op.verb # "restart"
    <2>1. Changed(rd, op, n, now) = [rd EXCEPT !.override[n] = NewOverride(op)]
      BY <1>3 DEF Changed
    <2>2. n \notin Components => [rd.override EXCEPT ![n] = NewOverride(op)] = rd.override
      BY DEF RadixDeployment
    <2>3. QED
      BY <2>1, <2>2 DEF RadixDeployment, SameComponents
  <1>4. QED
    BY <1>1, <1>2, <1>3

(* A patch writes one RadixDeployment.                                     *)
LEMMA OtherDeployments ==
  ASSUME TypeOK, NEW r \in Requests, PatchDeployment(r),
         NEW e \in Environments, NEW d \in Deployments
  PROVE  rds'[e][d] = IF e = req[r].env /\ d = req[r].id THEN PatchedDeployment(r)
                      ELSE rds[e][d]
  BY DEF TypeOK, PatchDeployment

(* Restarting a job never alters a component and no operation on a         *)
(* component alters a job, even from a copy that is out of date.           *)
THEOREM ArraysStayApart == Spec => ArraysIndependent
  <1>1. TypeOK /\ [Next]_vars => [ArraysApart]_vars
    <2> SUFFICES ASSUME TypeOK, Next, NEW r \in Requests, NEW e \in Environments,
                        NEW d \in Deployments, PatchedBy(r)
                 PROVE  IF req[r].target \in Components
                        THEN rds'[e][d].jobRestart = rds[e][d].jobRestart
                        ELSE SameComponents(rds'[e][d], rds[e][d])
      BY DEF ArraysApart
    <2> DEFINE q == req[r]
               now == rds[q.env][q.id]
               new == Changed(q.snap, q.op, q.target, now.gen + 1)
    <2>1. PatchDeployment(r)
      BY PatchedByPatch
    <2>2. q.target \in Names /\ q.snap \in RadixDeployment
      BY RequestFields DEF TypeOK
    <2>3. CASE e = q.env /\ d = q.id
      <3>1. now \in RadixDeployment /\ now = rds[e][d]
        BY <2>3 DEF TypeOK
      <3>2. rds'[e][d] = Merged(now, q.snap, new)
        BY <2>1, <2>3, OtherDeployments DEF PatchedDeployment
      <3>3. /\ q.target \in Components => new.jobRestart = q.snap.jobRestart
            /\ q.target \notin Components => SameComponents(q.snap, new)
        BY <2>2, ChangedFields
      <3> HIDE DEF now, new
      <3>4. QED
        BY <3>1, <3>2, <3>3, MergedFields DEF SameComponents
    <2>4. CASE ~(e = q.env /\ d = q.id)
      BY <2>1, <2>4, OtherDeployments DEF SameComponents
    <2>5. QED
      BY <2>3, <2>4
  <1>2. QED
    BY <1>1, TypeCorrect, PTL DEF Spec, ArraysIndependent

(* A patch made without interference changes the component it is for and   *)
(* nothing else, although it carries whole arrays.                         *)
THEOREM BystandersAreKept == Spec => BystandersKept
  <1>1. TypeOK /\ CopyIsCurrent /\ [Next]_vars => [OnlyTargetChanges]_vars
    <2> SUFFICES ASSUME TypeOK, CopyIsCurrent, Next, NEW r \in Requests,
                        NEW e \in Environments, NEW d \in Deployments, NEW n \in Names,
                        PatchedBy(r), ~history[r].disturbed,
                        <<e, d, n>> # <<req[r].env, req[r].id, req[r].target>>
                 PROVE  /\ RestartStamp(rds'[e][d], n) = RestartStamp(rds[e][d], n)
                        /\ n \in Components => rds'[e][d].override[n] = rds[e][d].override[n]
      BY DEF OnlyTargetChanges
    <2> DEFINE q == req[r]
               now == rds[q.env][q.id]
               new == Changed(q.snap, q.op, q.target, now.gen + 1)
    <2>1. PatchDeployment(r)
      BY PatchedByPatch
    <2>2. q.target \in Names /\ q.snap \in RadixDeployment
      BY RequestFields DEF TypeOK
    <2>3. SameSpec(q.snap, now)
      BY <2>1 DEF CopyIsCurrent, PatchDeployment
    <2>4. CASE e = q.env /\ d = q.id
      <3>1. now \in RadixDeployment /\ now = rds[e][d] /\ n # q.target
        BY <2>4 DEF TypeOK
      <3>2. rds'[e][d] = Merged(now, q.snap, new)
        BY <2>1, <2>4, OtherDeployments DEF PatchedDeployment
      <3>3. /\ n \in Components => /\ new.override[n] = now.override[n]
                                   /\ new.restart[n] = now.restart[n]
            /\ n \in JobComponents => new.jobRestart[n] = now.jobRestart[n]
        <4>1. /\ q.snap.override = now.override /\ q.snap.restart = now.restart
              /\ q.snap.jobRestart = now.jobRestart
          BY <2>3 DEF SameSpec, SameComponents
        <4>2. PICK k : new = Changed(q.snap, q.op, q.target, k)
          OBVIOUS
        <4> HIDE DEF now, new
        <4>3. /\ \A m \in Components \ {q.target} :
                   /\ new.override[m] = q.snap.override[m]
                   /\ new.restart[m] = q.snap.restart[m]
              /\ \A m \in JobComponents \ {q.target} :
                   new.jobRestart[m] = q.snap.jobRestart[m]
          BY <2>2, <4>2, ChangedFields
        <4>4. QED
          BY <3>1, <4>1, <4>3
      <3> HIDE DEF now, new
      <3>4. QED
        BY <3>1, <3>2, <3>3, MergedFields DEF RestartStamp
    <2>5. CASE ~(e = q.env /\ d = q.id)
      BY <2>1, <2>5, OtherDeployments
    <2>6. QED
      BY <2>4, <2>5
  <1>2. QED
    BY <1>1, TypeCorrect, CopiesAreCurrent, PTL DEF Spec, BystandersKept

-----------------------------------------------------------------------------
(***************************************************************************)
(* What a request that nobody disturbs has achieved.                       *)
(***************************************************************************)

(* What a RadixDeployment keeps that is not written to: all but the time   *)
(* it was reconciled.                                                      *)
SameButReconciled(a, b) ==
  /\ a.override = b.override /\ a.restart = b.restart /\ a.jobRestart = b.jobRestart
  /\ a.state = b.state /\ a.comps = b.comps /\ a.gen = b.gen

(* Which RadixDeployment is the latest depends on their states alone.      *)
LEMMA LatestKept ==
  ASSUME \A e \in Environments, d \in Deployments : rds'[e][d].state = rds[e][d].state
  PROVE  \A e \in Environments : LatestRadixDeployment(e)' = LatestRadixDeployment(e)
  BY DEF LatestRadixDeployment, Existing, Dated

(* When the operator records that it has reconciled a RadixDeployment, it  *)
(* changes nothing else of any.                                            *)
LEMMA ReconciledOnly ==
  ASSUME TypeOK, NEW e \in Environments, NEW d \in Deployments, MarkReconciled(e, d),
         NEW x \in Environments, NEW y \in Deployments
  PROVE  SameButReconciled(rds'[x][y], rds[x][y])
  <1>1. rds[x][y] \in RadixDeployment
    BY DEF TypeOK
  <1>2. \/ rds'[x][y] = rds[x][y] \/ \E g : rds'[x][y] = [rds[x][y] EXCEPT !.reconciled = g]
    BY DEF MarkReconciled, TypeOK
  <1> QED
    BY <1>1, <1>2 DEF SameButReconciled, RadixDeployment

(* A strategic merge patch leaves the state and the names of the           *)
(* components, and the generation moves whenever the overrides do.         *)
LEMMA MergedRest ==
  ASSUME NEW now \in RadixDeployment, NEW old, NEW new
  PROVE  /\ Merged(now, old, new).state = now.state
         /\ Merged(now, old, new).comps = now.comps
         /\ Merged(now, old, new).gen \in {now.gen, now.gen + 1}
         /\ Merged(now, old, new).gen = now.gen =>
              Merged(now, old, new).override = now.override
  <1> DEFINE comps == IF SameComponents(old, new) THEN now ELSE new
             jobs == IF old.jobRestart = new.jobRestart THEN now ELSE new
             same == SameComponents(comps, now) /\ jobs.jobRestart = now.jobRestart
             gen == IF same THEN now.gen ELSE now.gen + 1
  <1>1. /\ Merged(now, old, new).state = now.state
        /\ Merged(now, old, new).comps = now.comps
        /\ Merged(now, old, new).gen = gen
        /\ Merged(now, old, new).override = comps.override
    BY DEF Merged, RadixDeployment
  <1>2. now.gen \in Nat
    BY DEF RadixDeployment
  <1>3. gen = now.gen => comps.override = now.override
    BY <1>2 DEF SameComponents
  <1> HIDE DEF comps, gen
  <1>4. gen \in {now.gen, now.gen + 1}
    BY DEF gen
  <1> QED
    BY <1>1, <1>3, <1>4

(* Whatever copy a patch is made from, it leaves the state and the names   *)
(* of the components, and moves the generation with the overrides.         *)
LEMMA PatchGrows ==
  ASSUME TypeOK, NEW r \in Requests, PatchDeployment(r),
         NEW e \in Environments, NEW d \in Deployments
  PROVE  /\ rds'[e][d].state = rds[e][d].state
         /\ rds'[e][d].comps = rds[e][d].comps
         /\ rds[e][d].gen <= rds'[e][d].gen
         /\ rds'[e][d].gen = rds[e][d].gen => rds'[e][d].override = rds[e][d].override
  <1>1. rds[e][d] \in RadixDeployment /\ rds[e][d].gen \in Nat
    BY DEF TypeOK, RadixDeployment
  <1>2. CASE e = req[r].env /\ d = req[r].id
    <2>1. PICK old, new : rds'[e][d] = Merged(rds[e][d], old, new)
      BY <1>2, OtherDeployments DEF PatchedDeployment
    <2> QED
      BY <1>1, <2>1, MergedRest
  <1>3. CASE ~(e = req[r].env /\ d = req[r].id)
    BY <1>1, <1>3, OtherDeployments
  <1> QED
    BY <1>2, <1>3

(* What a patch from a current copy does to the RadixDeployment: the       *)
(* change that was asked for, and no other.                                *)
LEMMA PatchEffect ==
  ASSUME TypeOK, CopyIsCurrent, NEW r \in Requests, PatchDeployment(r), ~history[r].disturbed,
         req[r].id \in Deployments
  PROVE  LET q == req[r]
             old == rds[q.env][q.id]
             new == rds'[q.env][q.id] IN
         /\ q.op.verb = "restart" =>
              RestartStamp(new, q.target) = old.gen + 1 /\ new.override = old.override
         /\ q.op.verb # "restart" =>
              /\ new.override = [old.override EXCEPT ![q.target] = NewOverride(q.op)]
         /\ \A n \in Names \ {q.target} : RestartStamp(new, n) = RestartStamp(old, n)
  <1> DEFINE q == req[r]
             old == rds[q.env][q.id]
             new == Changed(q.snap, q.op, q.target, old.gen + 1)
             merged == Merged(old, q.snap, new)
  <1>1. q.target \in Names /\ q.snap \in RadixDeployment /\ q.env \in Environments
    BY RequestFields DEF TypeOK
  <1>2. old \in RadixDeployment /\ rds'[q.env][q.id] = merged
    <2>1. old \in RadixDeployment
      BY <1>1 DEF TypeOK
    <2>2. rds'[q.env][q.id] = PatchedDeployment(r)
      BY <1>1, OtherDeployments
    <2> QED
      BY <2>1, <2>2 DEF PatchedDeployment
  <1>3. q.snap.override = old.override /\ q.snap.restart = old.restart /\ q.snap.jobRestart = old.jobRestart
    BY DEF CopyIsCurrent, PatchDeployment, SameSpec, SameComponents
  <1> DEFINE written == rds'[q.env][q.id]
  <1>4. /\ written.override = new.override /\ written.restart = new.restart
        /\ written.jobRestart = new.jobRestart
    <2> HIDE DEF new, old
    <2> QED
      BY <1>2, <1>3, MergedFields DEF SameComponents
  <1> DEFINE Effect ==
        /\ q.op.verb = "restart" =>
             RestartStamp(written, q.target) = old.gen + 1 /\ written.override = old.override
        /\ q.op.verb # "restart" =>
             written.override = [old.override EXCEPT ![q.target] = NewOverride(q.op)]
        /\ \A n \in Names \ {q.target} : RestartStamp(written, n) = RestartStamp(old, n)
  <1> HIDE DEF written
  <1>5. CASE q.op.verb = "restart"
    <2> SUFFICES Effect
      BY DEF written
    <2>1. \/ q.target \in Components /\ new = [q.snap EXCEPT !.restart[q.target] = old.gen + 1]
          \/ q.target \notin Components /\ new = [q.snap EXCEPT !.jobRestart[q.target] = old.gen + 1]
      BY <1>5 DEF Changed
    <2> HIDE DEF new, old
    <2>2. /\ q.snap.override \in [Components -> {NoOverride} \union Int]
          /\ q.snap.restart \in [Components -> Nat] /\ q.snap.jobRestart \in [JobComponents -> Nat]
      BY <1>1 DEF RadixDeployment
    <2>3. CASE q.target \in Components
      <3>1. new = [q.snap EXCEPT !.restart = [q.snap.restart EXCEPT ![q.target] = old.gen + 1]]
        BY <2>1, <2>3
      <3>2. /\ new.restart = [q.snap.restart EXCEPT ![q.target] = old.gen + 1]
            /\ new.override = q.snap.override /\ new.jobRestart = q.snap.jobRestart
        BY <1>1, <3>1 DEF RadixDeployment
      <3> QED
        BY <1>1, <1>3, <1>4, <1>5, <2>2, <2>3, <3>2 DEF RestartStamp
    <2>4. CASE q.target \notin Components
      <3>1. new = [q.snap EXCEPT !.jobRestart = [q.snap.jobRestart EXCEPT ![q.target] = old.gen + 1]]
        BY <2>1, <2>4
      <3>2. /\ new.jobRestart = [q.snap.jobRestart EXCEPT ![q.target] = old.gen + 1]
            /\ new.override = q.snap.override /\ new.restart = q.snap.restart
        BY <1>1, <3>1 DEF RadixDeployment
      <3>3. q.target \in JobComponents
        BY <1>1, <2>4
      <3> QED
        BY <1>1, <1>3, <1>4, <1>5, <2>2, <2>4, <3>2, <3>3 DEF RestartStamp
    <2> QED
      BY <2>3, <2>4
  <1>6. CASE q.op.verb # "restart"
    <2> SUFFICES Effect
      BY DEF written
    <2>1. new = [q.snap EXCEPT !.override = [q.snap.override EXCEPT ![q.target] = NewOverride(q.op)]]
      BY <1>6 DEF Changed
    <2> HIDE DEF new, old
    <2>2. /\ new.override = [q.snap.override EXCEPT ![q.target] = NewOverride(q.op)]
          /\ new.restart = q.snap.restart /\ new.jobRestart = q.snap.jobRestart
      BY <1>1, <2>1 DEF RadixDeployment
    <2> QED
      BY <1>1, <1>3, <1>4, <1>6, <2>2 DEF RestartStamp
  <1> QED
    BY <1>5, <1>6

-----------------------------------------------------------------------------
(* A Kubernetes Deployment was made of a RadixDeployment there is; one of  *)
(* its present generation has the replicas that wants.                     *)
MadeOf(kd, rd, n) ==
  /\ n \in Components /\ rd.state # "absent" /\ kd.gen <= rd.gen
  /\ kd.gen = rd.gen => kd.replicas \in DesiredReplicas(rd, n)

Synced ==
  \A e \in Environments, n \in Names :
    kds[e][n].owner # 0 => MadeOf(kds[e][n], rds[e][kds[e][n].owner], n)

(* The fields of a Deployment that is there have their types.              *)
LEMMA KubeFields ==
  ASSUME TypeOK, NEW e \in Environments, NEW n \in Names, kds[e][n].owner # 0
  PROVE  kds[e][n].owner \in Deployments /\ kds[e][n].gen \in Nat
  BY DEF TypeOK, KubeDeployment

(* Generations are numbers.                                                *)
LEMMA GenerationFacts ==
  ASSUME TypeOK, NEW e \in Environments, NEW d \in Deployments
  PROVE  rds[e][d].gen \in Nat /\ rds[e][d].gen <= rds[e][d].gen
  <1>1. rds[e][d] \in RadixDeployment
    BY DEF TypeOK
  <1>2. rds[e][d].gen \in Nat
    BY <1>1 DEF RadixDeployment
  <1> QED
    BY <1>2

(* It stays so when a RadixDeployment keeps its overrides or gets a new    *)
(* generation.                                                             *)
LEMMA GrowthKeepsSynced ==
  ASSUME TypeOK, TypeOK', Synced, kds' = kds,
         \A e \in Environments, d \in Deployments : rds[e][d].state # "absent" =>
           /\ rds'[e][d].state # "absent" /\ rds[e][d].gen <= rds'[e][d].gen
           /\ rds'[e][d].gen = rds[e][d].gen => rds'[e][d].override = rds[e][d].override
  PROVE  Synced'
  <1>1. SUFFICES ASSUME NEW e \in Environments, NEW n \in Names, kds[e][n].owner # 0
                 PROVE  MadeOf(kds[e][n], rds'[e][kds[e][n].owner], n)
    BY DEF Synced, MadeOf, DesiredReplicas
  <1> DEFINE d == kds[e][n].owner
  <1>2. d \in Deployments /\ kds[e][n].gen \in Nat
    BY <1>1, KubeFields
  <1>3. MadeOf(kds[e][n], rds[e][d], n)
    BY <1>1 DEF Synced
  <1>4. rds[e][d].gen \in Nat
    BY <1>2 DEF TypeOK, RadixDeployment
  <1>5. /\ rds'[e][d].state # "absent" /\ rds[e][d].gen <= rds'[e][d].gen
        /\ rds'[e][d].gen = rds[e][d].gen => rds'[e][d].override = rds[e][d].override
    BY <1>2, <1>3 DEF MadeOf
  <1>8. rds'[e][d].gen \in Nat
    BY <1>2 DEF TypeOK, RadixDeployment
  <1> HIDE DEF d
  <1>6. CASE rds'[e][d].gen = rds[e][d].gen
    BY <1>3, <1>5, <1>6 DEF MadeOf, DesiredReplicas, d
  <1>7. CASE rds'[e][d].gen # rds[e][d].gen
    <2> DEFINE g == rds'[e][d].gen
               h == rds[e][d].gen
               k == kds[e][n].gen
    <2>1. k \in Nat /\ h \in Nat /\ g \in Nat /\ k <= h /\ h <= g /\ g # h
      BY <1>2, <1>3, <1>4, <1>8, <1>5, <1>7 DEF MadeOf
    <2> HIDE DEF g, h, k
    <2>2. k <= g /\ k # g
      BY <2>1
    <2> QED
      BY <1>3, <1>5, <2>2 DEF MadeOf, d, g, k
  <1> QED
    BY <1>6, <1>7

(* Operator and pipeline keep the Deployments to what they are made of.    *)
LEMMA ClusterSynced ==
  ASSUME TypeOK, TypeOK', Synced, NEW e \in Environments, ClusterStep(e)
  PROVE  Synced'
  <1>1. CASE CreateDeployment(e)
    <2>1. /\ kds' = kds
          /\ \E d \in Deployments : d \notin Existing(e) /\ \E rd : rds' = [rds EXCEPT ![e][d] = rd]
      BY <1>1 DEF CreateDeployment
    <2>2. ASSUME NEW x \in Environments, NEW y \in Deployments, rds[x][y].state # "absent"
          PROVE  rds'[x][y] = rds[x][y]
      BY <2>1, <2>2 DEF Existing, TypeOK
    <2>3. \A x \in Environments, y \in Deployments : rds[x][y].gen <= rds[x][y].gen
      BY GenerationFacts
    <2> QED
      BY <2>1, <2>2, <2>3, GrowthKeepsSynced
  <1>2. ASSUME NEW d \in Deployments, ActivateDeployment(e, d) PROVE Synced'
    <2>1. ASSUME NEW x \in Environments, NEW y \in Deployments, rds[x][y].state # "absent"
          PROVE  /\ rds'[x][y].state # "absent" /\ rds'[x][y].gen = rds[x][y].gen
                 /\ rds'[x][y].override = rds[x][y].override
      <3>1. rds[x][y] \in RadixDeployment
        BY DEF TypeOK
      <3>2. \/ rds'[x][y] = rds[x][y] \/ \E s \in {"active", "inactive"} : rds'[x][y] = [rds[x][y] EXCEPT !.state = s]
        BY <1>2 DEF ActivateDeployment, TypeOK
      <3> QED
        BY <2>1, <3>1, <3>2 DEF RadixDeployment
    <2>2. \A x \in Environments, y \in Deployments : rds[x][y].gen <= rds[x][y].gen
      BY GenerationFacts
    <2> QED
      BY <1>2, <2>1, <2>2, GrowthKeepsSynced DEF ActivateDeployment
  <1>3. ASSUME NEW c \in Components, SyncComponent(e, c) PROVE Synced'
    <2>1. rds' = rds
      BY <1>3 DEF SyncComponent
    <2>9. PICK d \in Deployments :
            /\ rds[e][d].state = "active"
            /\ \E kd :
                 /\ kds' = [kds EXCEPT ![e][c] = kd]
                 /\ \/ \E k \in DesiredReplicas(rds[e][d], c) :
                         kd = [owner |-> d, gen |-> rds[e][d].gen, replicas |-> k]
                    \/ kd = NoKubeDeployment
      BY <1>3 DEF SyncComponent, Active
    <2>2. PICK kd :
            /\ kds' = [kds EXCEPT ![e][c] = kd]
            /\ \/ \E k \in DesiredReplicas(rds[e][d], c) :
                    kd = [owner |-> d, gen |-> rds[e][d].gen, replicas |-> k]
               \/ kd = NoKubeDeployment
      BY <2>9
    <2>3. ASSUME NEW x \in Environments, NEW n \in Names
          PROVE  kds'[x][n] = IF x = e /\ n = c THEN kd ELSE kds[x][n]
      BY <2>2 DEF TypeOK
    <2>4. rds[e][d].gen \in Nat
      BY GenerationFacts
    <2>5. kd.owner # 0 => kd.owner = d /\ MadeOf(kd, rds[e][d], c)
      BY <2>9, <2>2, <2>4 DEF MadeOf, NoKubeDeployment
    <2>6. ASSUME NEW x \in Environments, NEW n \in Names, kds'[x][n].owner # 0
          PROVE  MadeOf(kds'[x][n], rds[x][kds'[x][n].owner], n)
      BY <2>3, <2>5, <2>6 DEF Synced
    <2> QED
      BY <2>1, <2>6 DEF Synced, MadeOf, DesiredReplicas
  <1>4. ASSUME NEW d \in Deployments, MarkReconciled(e, d) PROVE Synced'
    <2>1. \A x \in Environments, y \in Deployments : SameButReconciled(rds'[x][y], rds[x][y])
      BY <1>4, ReconciledOnly
    <2>2. \A x \in Environments, y \in Deployments : rds[x][y].gen <= rds[x][y].gen
      BY GenerationFacts
    <2> QED
      BY <1>4, <2>1, <2>2, GrowthKeepsSynced DEF MarkReconciled, SameButReconciled
  <1> QED
    BY <1>1, <1>2, <1>3, <1>4 DEF ClusterStep

(* The operator's Deployments keep to the RadixDeployments they are made   *)
(* of: a status of Stopped at the present generation is one that was asked *)
(* for, or that autoscaling allows.                                        *)
THEOREM DeploymentsSynced == Spec => []Synced
  <1>1. Init => Synced
    BY DEF Init, Synced, NoKubeDeployment
  <1>2. TypeOK /\ TypeOK' /\ Synced /\ [Next]_vars => Synced'
    <2> SUFFICES ASSUME TypeOK, TypeOK', Synced, [Next]_vars PROVE Synced'
      OBVIOUS
    <2>1. \A e \in Environments, d \in Deployments : rds[e][d].gen <= rds[e][d].gen
      BY GenerationFacts
    <2>2. ASSUME rds' = rds, kds' = kds PROVE Synced'
      BY <2>1, <2>2, GrowthKeepsSynced
    <2>3. ASSUME NEW r \in Requests, Submit(r) \/ RequestStep(r) \/ CallFails(r)
          PROVE  Synced'
      <3>1. kds' = kds
        BY <2>3 DEF Submit, RequestStep, CallFails, ListComponents, FindComponent, JudgeComponent,
                    PatchDeployment, Finish
      <3>2. CASE PatchDeployment(r)
        BY <3>1, <3>2, PatchGrows, GrowthKeepsSynced
      <3>3. CASE rds' = rds
        BY <2>2, <3>1, <3>3
      <3> QED
        BY <2>3, <3>2, <3>3, OnlyPatchWrites
    <2>4. ASSUME NEW e \in Environments, ClusterStep(e) PROVE Synced'
      BY <2>4, ClusterSynced
    <2>5. CASE UNCHANGED vars
      BY <2>2, <2>5 DEF vars
    <2> QED
      BY <2>3, <2>4, <2>5 DEF Next
  <1> QED
    BY <1>1, <1>2, TypeCorrect, PTL DEF Spec

-----------------------------------------------------------------------------
(* What an operation on many promises of each component, and what of it is *)
(* achieved but for those left: R are the RadixDeployments, L the latest   *)
(* ones, S the environments.                                               *)
Fulfilled(op, rd, c, since) ==
  CASE op.verb = "stop" -> MayBeIdle(rd, c)
    [] op.verb = "restart" -> RestartedOrIdle(rd, c, since)
    [] OTHER -> rd.override[c] # 0

Achieved(R, L, S, op, left, since) ==
  \A e \in S, d \in Deployments :
    L[e] = {d} => \A c \in R[e][d].comps \ left[e] : Fulfilled(op, R[e][d], c, since[e])

(* What request q has left to do, when it is done with its target and has  *)
(* todo to do in this environment, and when it is not.                     *)
LeftThen(q, todo) ==
  [e \in Environments |->
    IF e \in q.envs THEN Components ELSE IF e = q.env THEN todo ELSE {}]

Left(q) ==
  [e \in Environments |->
    IF e \in q.envs \/ (e = q.env /\ q.pc = "list") THEN Components
    ELSE IF e = q.env /\ q.pc # "ok" THEN q.todo \union {q.target} ELSE {}]

Latest == [e \in Environments |-> LatestRadixDeployment(e)]

Alone(r) == Serving(r) /\ ~history[r].disturbed

(* What has been read is the latest, which has not got any older.          *)
LatestIsRead(r) ==
  /\ \A e \in Environments, d \in Deployments :
       LatestRadixDeployment(e) = {d} => history[r].gen[e] <= rds[e][d].gen
  /\ req[r].pc \in {"judge", "patch"} => req[r].id \in LatestRadixDeployment(req[r].env)

Progress(r) ==
  req[r].op.scope # "component" =>
    Achieved(rds, Latest, EnvironmentsOf(req[r].op), req[r].op, Left(req[r]), history[r].gen)

(* A request for one component has no loops to go through, and a job is    *)
(* only ever restarted.                                                    *)
Shaped(q) ==
  /\ q.op.scope = "component" /\ q.pc \notin {"ok", "error"} =>
       q.env = q.op.env /\ q.target = q.op.target /\ q.todo = {} /\ q.envs = {} /\ q.pc # "list"
  /\ q.pc = "idle" => q.env = q.op.env /\ q.envs = {}
  /\ q.pc = "patch" => q.target \in Components \/ q.op.verb = "restart"

SoloInv ==
  /\ \A r \in Requests : Shaped(req[r])
  /\ \A r \in Requests : Alone(r) => LatestIsRead(r) /\ Progress(r)

(* Where the loops go next.                                                *)
GoesOn(q, todo, p) ==
  /\ p.op = q.op
  /\ \/ /\ p.pc = "find" /\ p.env = q.env /\ p.envs = q.envs
        /\ p.target \in todo /\ p.todo = todo \ {p.target}
     \/ /\ todo = {} /\ p.pc = "list" /\ p.env \in q.envs /\ p.envs = q.envs \ {p.env}
     \/ /\ todo = {} /\ q.envs = {} /\ p.pc = "ok" /\ p.envs = {}

(* The loops over components and environments go on with the next          *)
(* component, the next environment, or the answer (StopApplication and the *)
(* like, environment_handler.go:347).                                      *)
LEMMA AdvanceGoesOn ==
  ASSUME TypeOK, NEW r \in Requests, Advance(r)
  PROVE  \E p \in Request : Become(r, p) /\ GoesOn(req[r], req[r].todo, p)
  <1> DEFINE q == req[r]
  <1>1. q \in Request /\ Released(q) \in Request
    BY RequestUpdates DEF TypeOK
  <1>2. q.todo \subseteq Components /\ q.envs \subseteq Environments
    BY <1>1, RequestFields
  <1>3. /\ Released(q).op = q.op /\ Released(q).env = q.env /\ Released(q).envs = q.envs
        /\ Released(q).todo = q.todo
    BY <1>1 DEF Released, Request
  <1>4. ASSUME NEW n \in q.todo,
               Become(r, [Released(q) EXCEPT !.pc = "find", !.target = n, !.todo = q.todo \ {n}])
        PROVE  \E p \in Request : Become(r, p) /\ GoesOn(q, q.todo, p)
    <2> DEFINE p == [Released(q) EXCEPT !.pc = "find", !.target = n, !.todo = q.todo \ {n}]
    <2>1. p \in Request
      BY <1>1, <1>2, RequestUpdates DEF Pcs
    <2>2. /\ p.op = q.op /\ p.pc = "find" /\ p.env = q.env /\ p.envs = q.envs
          /\ p.target = n /\ p.todo = q.todo \ {n}
      BY <1>1, <1>3 DEF Request
    <2> HIDE DEF p
    <2>3. GoesOn(q, q.todo, p)
      BY <2>2 DEF GoesOn
    <2> QED
      BY <1>4, <2>1, <2>3 DEF p
  <1>5. ASSUME q.todo = {}, NEW e \in q.envs,
               Become(r, [Released(q) EXCEPT !.pc = "list", !.env = e, !.envs = q.envs \ {e}])
        PROVE  \E p \in Request : Become(r, p) /\ GoesOn(q, q.todo, p)
    <2> DEFINE p == [Released(q) EXCEPT !.pc = "list", !.env = e, !.envs = q.envs \ {e}]
    <2>1. p \in Request
      BY <1>1, <1>2, RequestUpdates DEF Pcs
    <2>2. p.op = q.op /\ p.pc = "list" /\ p.env = e /\ p.envs = q.envs \ {e}
      BY <1>1, <1>3 DEF Request
    <2> HIDE DEF p
    <2>3. GoesOn(q, q.todo, p)
      BY <1>5, <2>2 DEF GoesOn
    <2> QED
      BY <1>5, <2>1, <2>3 DEF p
  <1>6. ASSUME q.todo = {}, q.envs = {}, Become(r, [Released(q) EXCEPT !.pc = "ok"])
        PROVE  \E p \in Request : Become(r, p) /\ GoesOn(q, q.todo, p)
    <2> DEFINE p == [Released(q) EXCEPT !.pc = "ok"]
    <2>1. p \in Request
      BY <1>1, RequestUpdates DEF Pcs
    <2>2. p.op = q.op /\ p.pc = "ok" /\ p.envs = {}
      BY <1>1, <1>3, <1>6 DEF Request
    <2> HIDE DEF p
    <2>3. GoesOn(q, q.todo, p)
      BY <1>6, <2>2 DEF GoesOn
    <2> QED
      BY <1>6, <2>1, <2>3 DEF p
  <1> QED
    BY <1>4, <1>5, <1>6 DEF Advance

(* Going on leaves what was left then.                                     *)
LEMMA LeftToDo ==
  ASSUME NEW q \in Request, NEW p \in Request, NEW todo \in SUBSET Components, GoesOn(q, todo, p),
         NEW e \in Environments
  PROVE  LeftThen(q, todo)[e] \subseteq Left(p)[e]
  BY RequestFields DEF GoesOn, LeftThen, Left

(* What is achieved but for some is achieved but for more.                 *)
LEMMA MoreLeft ==
  ASSUME NEW R, NEW L, NEW S \in SUBSET Environments, NEW op, NEW left, NEW more, NEW since,
         Achieved(R, L, S, op, left, since), \A e \in Environments : left[e] \subseteq more[e]
  PROVE  Achieved(R, L, S, op, more, since)
  BY DEF Achieved

(* Once a target is done, it is what is left then that is not achieved.    *)
LEMMA TargetDone ==
  ASSUME NEW q \in Request, q.pc \in {"judge", "patch"}, NEW R, NEW L, NEW S \in SUBSET Environments,
         NEW op, NEW since, Achieved(R, L, S, op, Left(q), since),
         \A e \in Environments, d \in Deployments : R[e][d].comps \subseteq Components,
         \A d \in Deployments : L[q.env] = {d} /\ q.target \in R[q.env][d].comps =>
           Fulfilled(op, R[q.env][d], q.target, since[q.env])
  PROVE  Achieved(R, L, S, op, LeftThen(q, q.todo), since)
  <1> SUFFICES ASSUME NEW e \in S, NEW d \in Deployments, L[e] = {d},
                      NEW c \in R[e][d].comps \ LeftThen(q, q.todo)[e]
               PROVE  Fulfilled(op, R[e][d], c, since[e])
    BY DEF Achieved
  <1>1. e \in Environments /\ c \in Components
    OBVIOUS
  <1>2. e \notin q.envs
    BY <1>1 DEF LeftThen
  <1>3. CASE e = q.env
    <2>1. c \notin q.todo
      BY <1>1, <1>2, <1>3 DEF LeftThen
    <2>2. CASE c = q.target
      BY <1>3, <2>2
    <2>3. CASE c # q.target
      <3>1. c \notin Left(q)[e]
        BY <1>1, <1>2, <1>3, <2>1, <2>3 DEF Left
      <3> QED
        BY <3>1 DEF Achieved
    <2> QED
      BY <2>2, <2>3
  <1>4. CASE e # q.env
    <2>1. c \notin Left(q)[e]
      BY <1>1, <1>2, <1>4 DEF Left
    <2> QED
      BY <2>1 DEF Achieved
  <1> QED
    BY <1>3, <1>4

(* A component that is skipped because its status is Stopped needs no      *)
(* stopping: at the generation the status is read for, the Deployment has  *)
(* the replicas that RadixDeployment asks for (component_status.go:57).    *)
LEMMA StoppedIsIdle ==
  ASSUME TypeOK, Synced, NEW e \in Environments, NEW d \in Deployments, NEW n \in Names, NEW rd,
         SameSpec(rd, rds[e][d]), ComponentStatus(rd, d, n, kds[e][n]) = "Stopped"
  PROVE  n \in Components /\ MayBeIdle(rds[e][d], n)
  <1>1. kds[e][n].owner = d /\ kds[e][n].gen = rd.gen /\ kds[e][n].replicas = 0
    BY DEF ComponentStatus, ComponentStatusFromDeployment, CorrectGeneration
  <1>2. rd.gen = rds[e][d].gen
    BY DEF SameSpec
  <1>3. MadeOf(kds[e][n], rds[e][d], n)
    BY <1>1 DEF Synced
  <1>4. n \in Components /\ 0 \in DesiredReplicas(rds[e][d], n)
    BY <1>1, <1>2, <1>3 DEF MadeOf
  <1> QED
    BY <1>4 DEF DesiredReplicas, MayBeIdle

(* What a step of a request alone comes to, with what it knows.            *)
Outcome(r) ==
  \/ req'[r].pc = "error"
  \/ /\ req'[r].op = req[r].op
     /\ req'[r].pc = "ok" => req'[r].envs = {}
     /\ req'[r].pc \in {"judge", "patch"} => req'[r].id \in LatestRadixDeployment(req'[r].env)
     /\ req[r].op.scope # "component" =>
          Achieved(rds', Latest, EnvironmentsOf(req[r].op), req[r].op, Left(req'[r]), history[r].gen)
     /\ req[r].op.scope = "component" /\ req'[r].pc = "ok" =>
          LET op == req[r].op IN
          \A d \in LatestRadixDeployment(op.env) :
            LatestRadixDeployment(op.env) = {d} => Promise(op, rds'[op.env][d], history[r].gen[op.env])

(* What is asked for has its type; no loop scales.                         *)
LEMMA OpFacts ==
  ASSUME NEW q \in Request
  PROVE  /\ EnvironmentsOf(q.op) \subseteq Environments
         /\ q.op.verb \in Verbs /\ q.op.scope \in Scopes /\ q.op.env \in Environments
         /\ q.op.scope # "component" => q.op.verb # "scale"
  BY RequestFields DEF EnvironmentsOf, OperationType

(* The components of a RadixDeployment are components.                     *)
LEMMA CompsType ==
  ASSUME TypeOK, NEW e \in Environments, NEW d \in Deployments
  PROVE  rds[e][d].comps \subseteq Components
  <1>1. rds[e][d] \in RadixDeployment
    BY DEF TypeOK
  <1> QED
    BY <1>1 DEF RadixDeployment

(* A request that ends in error has ended.                                 *)
LEMMA FinishFails ==
  ASSUME TypeOK, NEW r \in Requests, Finish(r, "error")
  PROVE  req'[r].pc = "error"
  <1>1. Released(req[r]) \in Request
    BY RequestUpdates DEF TypeOK
  <1>2. [Released(req[r]) EXCEPT !.pc = "error"].pc = "error"
    BY <1>1 DEF Request
  <1> QED
    BY <1>2, BecomeOther DEF Finish

(* The first read of an environment fails or goes on with its components.  *)
LEMMA ListGoesOn ==
  ASSUME TypeOK, NEW r \in Requests, ListComponents(r)
  PROVE  \/ Finish(r, "error")
         \/ /\ rds' = rds
            /\ \E d \in LatestRadixDeployment(req[r].env), p \in Request :
                 LET todo == ComponentsToDo(req[r].op.verb, rds[req[r].env][d]) IN
                 Become(r, p) /\ GoesOn(req[r], todo, p)
  <1> DEFINE q == req[r]
  <1>1. q \in Request /\ q.pc = "list"
    BY DEF TypeOK, ListComponents
  <1>2. ASSUME NEW d \in LatestRadixDeployment(q.env), NEW todo,
               todo = ComponentsToDo(q.op.verb, rds[q.env][d]), rds' = rds,
               \/ \E n \in todo :
                    Become(r, [q EXCEPT !.pc = "find", !.target = n, !.todo = todo \ {n}])
               \/ todo = {} /\ \E e \in q.envs : Become(r, [q EXCEPT !.env = e, !.envs = q.envs \ {e}])
               \/ todo = {} /\ q.envs = {} /\ Become(r, [q EXCEPT !.pc = "ok"])
        PROVE  \E p \in Request : Become(r, p) /\ GoesOn(q, todo, p)
    <2>1. d \in Deployments /\ q.env \in Environments /\ q.envs \subseteq Environments
      BY <1>1, LatestType, RequestFields
    <2>2. todo \subseteq Components
      BY <1>2, <2>1, CompsType DEF ComponentsToDo
    <2>3. ASSUME NEW n \in todo, Become(r, [q EXCEPT !.pc = "find", !.target = n, !.todo = todo \ {n}])
          PROVE  \E p \in Request : Become(r, p) /\ GoesOn(q, todo, p)
      <3> DEFINE p == [q EXCEPT !.pc = "find", !.target = n, !.todo = todo \ {n}]
      <3>1. p \in Request
        BY <1>1, <2>2, RequestUpdates DEF Pcs
      <3>2. /\ p.op = q.op /\ p.pc = "find" /\ p.env = q.env /\ p.envs = q.envs
            /\ p.target = n /\ p.todo = todo \ {n}
        BY <1>1 DEF Request
      <3> HIDE DEF p
      <3>3. GoesOn(q, todo, p)
        BY <3>2 DEF GoesOn
      <3> QED
        BY <2>3, <3>1, <3>3 DEF p
    <2>4. ASSUME todo = {}, NEW e \in q.envs, Become(r, [q EXCEPT !.env = e, !.envs = q.envs \ {e}])
          PROVE  \E p \in Request : Become(r, p) /\ GoesOn(q, todo, p)
      <3> DEFINE p == [q EXCEPT !.env = e, !.envs = q.envs \ {e}]
      <3>1. p \in Request
        BY <1>1, <2>1, RequestUpdates
      <3>2. p.op = q.op /\ p.pc = "list" /\ p.env = e /\ p.envs = q.envs \ {e}
        BY <1>1 DEF Request
      <3> HIDE DEF p
      <3>3. GoesOn(q, todo, p)
        BY <2>4, <3>2 DEF GoesOn
      <3> QED
        BY <2>4, <3>1, <3>3 DEF p
    <2>5. ASSUME todo = {}, q.envs = {}, Become(r, [q EXCEPT !.pc = "ok"])
          PROVE  \E p \in Request : Become(r, p) /\ GoesOn(q, todo, p)
      <3> DEFINE p == [q EXCEPT !.pc = "ok"]
      <3>1. p \in Request
        BY <1>1, RequestUpdates DEF Pcs
      <3>2. p.op = q.op /\ p.pc = "ok" /\ p.envs = {}
        BY <1>1, <2>5 DEF Request
      <3> HIDE DEF p
      <3>3. GoesOn(q, todo, p)
        BY <2>5, <3>2 DEF GoesOn
      <3> QED
        BY <2>5, <3>1, <3>3 DEF p
    <2> QED
      BY <1>2, <2>3, <2>4, <2>5
  <1> QED
    BY <1>2 DEF ListComponents

(* Having read the components of an environment, all of them are what is   *)
(* left there: those of the loop, less the ones the operation is not about *)
(* (ResetManuallyStoppedComponentsInEnvironment,                           *)
(* environment_handler.go:306, skips those without an override of zero).   *)
LEMMA ListOutcome ==
  ASSUME TypeOK, NEW r \in Requests, Shaped(req[r]), Progress(r), ListComponents(r)
  PROVE  Outcome(r)
  <1> DEFINE q == req[r]
             S == EnvironmentsOf(q.op)
             since == history[r].gen
  <1>1. q \in Request /\ q.pc = "list" /\ q.op.scope # "component"
    BY DEF TypeOK, ListComponents, Shaped
  <1>2. CASE Finish(r, "error")
    BY <1>2, FinishFails DEF Outcome
  <1>3. ASSUME NEW d \in LatestRadixDeployment(q.env), NEW todo,
               todo = ComponentsToDo(q.op.verb, rds[q.env][d]),
               NEW p, Become(r, p), p \in Request, GoesOn(q, todo, p), rds' = rds
        PROVE  Outcome(r)
    <2>1. d \in Deployments /\ q.env \in Environments
      BY <1>1, LatestType, RequestFields
    <2>2. todo \subseteq Components
      BY <1>3, <2>1, CompsType DEF ComponentsToDo
    <2>3. Achieved(rds, Latest, S, q.op, LeftThen(q, todo), since)
      <3> SUFFICES ASSUME NEW e \in S, NEW x \in Deployments, Latest[e] = {x},
                          NEW c \in rds[e][x].comps \ LeftThen(q, todo)[e]
                   PROVE  Fulfilled(q.op, rds[e][x], c, since[e])
        BY DEF Achieved
      <3>1. e \in Environments /\ c \in Components /\ e \notin q.envs /\ LatestRadixDeployment(e) = {x}
        BY <1>1, OpFacts, CompsType DEF LeftThen, Latest
      <3>2. CASE e = q.env
        <4>1. x = d /\ c \notin todo
          BY <3>1, <3>2 DEF LeftThen
        <4>2. q.op.verb = "reset" /\ rds[e][x].override[c] # 0
          BY <1>3, <3>2, <4>1 DEF ComponentsToDo
        <4> QED
          BY <4>2 DEF Fulfilled
      <3>3. CASE e # q.env
        <4>1. c \notin Left(q)[e]
          BY <3>1, <3>3 DEF Left
        <4> QED
          BY <1>1, <4>1 DEF Progress, Achieved
      <3> QED
        BY <3>2, <3>3
    <2>4. Achieved(rds, Latest, S, q.op, Left(p), since)
      <3>1. \A e \in Environments : LeftThen(q, todo)[e] \subseteq Left(p)[e]
        BY <1>1, <1>3, <2>2, LeftToDo
      <3> QED
        BY <1>1, <2>3, <3>1, MoreLeft, OpFacts
    <2>5. req'[r] = p /\ p.op = q.op /\ p.pc \notin {"judge", "patch"} /\ (p.pc = "ok" => p.envs = {})
      BY <1>3, BecomeOther DEF GoesOn
    <2> HIDE DEF S, since
    <2> QED
      BY <1>1, <1>3, <2>4, <2>5 DEF Outcome, S, since
  <1> QED
    BY <1>2, <1>3, ListGoesOn

(* Finding the component to work on leaves what was to be done.            *)
LEMMA FindOutcome ==
  ASSUME TypeOK, NEW r \in Requests, Progress(r), FindComponent(r)
  PROVE  Outcome(r)
  <1> DEFINE q == req[r]
  <1>1. q \in Request /\ q.pc = "find"
    BY DEF TypeOK, FindComponent
  <1>2. CASE Finish(r, "error")
    BY <1>2, FinishFails DEF Outcome
  <1>3. ASSUME NEW d \in LatestRadixDeployment(q.env), rds' = rds,
               Become(r, [q EXCEPT !.pc = "judge", !.id = d, !.snap = rds[q.env][d]])
        PROVE  Outcome(r)
    <2> DEFINE p == [q EXCEPT !.pc = "judge", !.id = d, !.snap = rds[q.env][d]]
    <2>1. req'[r] = p
      BY <1>3, BecomeOther
    <2>2. /\ p.pc = "judge" /\ p.op = q.op /\ p.id = d /\ p.env = q.env /\ p.envs = q.envs
          /\ p.target = q.target /\ p.todo = q.todo
      BY <1>1 DEF Request
    <2> HIDE DEF p
    <2>3. Left(p) = Left(q)
      BY <1>1, <2>2 DEF Left
    <2> QED
      BY <1>3, <2>1, <2>2, <2>3 DEF Outcome, Progress
  <1> QED
    BY <1>2, <1>3 DEF FindComponent

(* A component that is skipped for its status needs nothing; it is no      *)
(* longer left.                                                            *)
LEMMA JudgeOutcome ==
  ASSUME TypeOK, CopyIsCurrent, Synced, NEW r \in Requests, ~history[r].disturbed,
         LatestIsRead(r), Progress(r), JudgeComponent(r)
  PROVE  Outcome(r)
  <1> DEFINE q == req[r]
             S == EnvironmentsOf(q.op)
             since == history[r].gen
  <1>1. q \in Request /\ q.pc = "judge" /\ q.id \in LatestRadixDeployment(q.env)
    BY DEF TypeOK, JudgeComponent, LatestIsRead
  <1>2. q.env \in Environments /\ q.target \in Names /\ q.id \in Deployments /\ q.todo \subseteq Components
    BY <1>1, RequestFields, LatestType
  <1>3. CASE Finish(r, "error")
    BY <1>3, FinishFails DEF Outcome
  <1>4. CASE rds' = rds /\ Become(r, [q EXCEPT !.pc = "patch"])
    <2> DEFINE p == [q EXCEPT !.pc = "patch"]
    <2>1. req'[r] = p
      BY <1>4, BecomeOther
    <2>2. /\ p.pc = "patch" /\ p.op = q.op /\ p.id = q.id /\ p.env = q.env /\ p.envs = q.envs
          /\ p.target = q.target /\ p.todo = q.todo
      BY <1>1 DEF Request
    <2> HIDE DEF p
    <2>3. Left(p) = Left(q)
      BY <1>1, <2>2 DEF Left
    <2> QED
      BY <1>1, <1>4, <2>1, <2>2, <2>3 DEF Outcome, Progress
  <1>5. ASSUME WrongState(q.op.verb, q.snap, q.id, q.target, kds[q.env][q.target]),
               q.op.scope # "component", Advance(r), rds' = rds
        PROVE  Outcome(r)
    <2>1. SameSpec(q.snap, rds[q.env][q.id])
      BY <1>1 DEF CopyIsCurrent
    <2>2. Fulfilled(q.op, rds[q.env][q.id], q.target, since[q.env])
      <3>1. CASE q.op.verb = "reset"
        <4>1. rds[q.env][q.id].override[q.target] = NoOverride
          BY <1>5, <2>1, <3>1 DEF WrongState, SameSpec, SameComponents
        <4> QED
          BY <3>1, <4>1 DEF Fulfilled
      <3>2. CASE q.op.verb # "reset"
        <4>1. q.op.verb \in {"stop", "restart"}
          BY <1>1, <1>5, <3>2, OpFacts DEF Verbs
        <4>2. ComponentStatus(q.snap, q.id, q.target, kds[q.env][q.target]) = "Stopped"
          BY <1>5, <4>1 DEF WrongState
        <4>3. q.target \in Components /\ MayBeIdle(rds[q.env][q.id], q.target)
          BY <1>2, <2>1, <4>2, StoppedIsIdle
        <4> QED
          BY <4>1, <4>3 DEF Fulfilled, RestartedOrIdle
      <3> QED
        BY <3>1, <3>2
    <2>3. Achieved(rds, Latest, S, q.op, LeftThen(q, q.todo), since)
      <3>1. Achieved(rds, Latest, S, q.op, Left(q), since)
        BY <1>5 DEF Progress
      <3>2. \A d \in Deployments : Latest[q.env] = {d} => d = q.id
        BY <1>1, <1>2 DEF Latest
      <3>3. \A e \in Environments, d \in Deployments : rds[e][d].comps \subseteq Components
        BY CompsType
      <3> QED
        BY <1>1, <2>2, <3>1, <3>2, <3>3, TargetDone, OpFacts
    <2>4. PICK p \in Request : Become(r, p) /\ GoesOn(q, q.todo, p)
      BY <1>5, AdvanceGoesOn
    <2>5. Achieved(rds, Latest, S, q.op, Left(p), since)
      <3>1. \A e \in Environments : LeftThen(q, q.todo)[e] \subseteq Left(p)[e]
        BY <1>1, <1>2, <2>4, LeftToDo
      <3> QED
        BY <1>1, <2>3, <3>1, MoreLeft, OpFacts
    <2>6. req'[r] = p /\ p.op = q.op /\ p.pc \notin {"judge", "patch"} /\ (p.pc = "ok" => p.envs = {})
      BY <2>4, BecomeOther DEF GoesOn
    <2> QED
      BY <1>5, <2>5, <2>6 DEF Outcome
  <1> QED
    BY <1>3, <1>4, <1>5 DEF JudgeComponent

(* What was achieved for others than the target stays so when the target   *)
(* is patched.                                                             *)
LEMMA PatchKeepsAchieved ==
  ASSUME TypeOK, CopyIsCurrent, NEW r \in Requests, PatchDeployment(r), ~history[r].disturbed,
         req[r].id \in Deployments, NEW since,
         Achieved(rds, Latest, EnvironmentsOf(req[r].op), req[r].op, Left(req[r]), since)
  PROVE  Achieved(rds', Latest, EnvironmentsOf(req[r].op), req[r].op, Left(req[r]), since)
  <1> DEFINE q == req[r]
             S == EnvironmentsOf(q.op)
  <1>1. q \in Request /\ q.pc = "patch" /\ S \subseteq Environments /\ q.target \in Names
    BY OpFacts, RequestFields DEF TypeOK, PatchDeployment
  <1> SUFFICES ASSUME NEW e \in S, NEW d \in Deployments, Latest[e] = {d},
                      NEW c \in rds'[e][d].comps \ Left(q)[e]
               PROVE  Fulfilled(q.op, rds'[e][d], c, since[e])
    BY DEF Achieved
  <1>2. e \in Environments
    BY <1>1
  <1>3. c \in rds[e][d].comps /\ c \in Components
    BY <1>2, PatchGrows, CompsType
  <1>4. Fulfilled(q.op, rds[e][d], c, since[e])
    BY <1>3 DEF Achieved
  <1>5. CASE e = q.env /\ d = q.id
    <2>1. c # q.target
      BY <1>1, <1>2, <1>3, <1>5 DEF Left
    <2> DEFINE old == rds[e][d]
               new == rds'[e][d]
    <2>2. old.override \in [Components -> {NoOverride} \union Int]
      <3>1. old \in RadixDeployment
        BY <1>2 DEF TypeOK
      <3> HIDE DEF old
      <3> QED
        BY <3>1 DEF RadixDeployment
    <2>3. /\ q.op.verb = "restart" => new.override = old.override
          /\ q.op.verb # "restart" => new.override = [old.override EXCEPT ![q.target] = NewOverride(q.op)]
          /\ RestartStamp(new, c) = RestartStamp(old, c)
      BY <1>3, <1>5, <2>1, PatchEffect
    <2> HIDE DEF old, new
    <2>4. new.override[c] = old.override[c]
      BY <1>3, <2>1, <2>2, <2>3
    <2>5. Fulfilled(q.op, old, c, since[e])
      BY <1>4 DEF old
    <2>6. Fulfilled(q.op, new, c, since[e])
      BY <2>3, <2>4, <2>5 DEF Fulfilled, MayBeIdle, RestartedOrIdle
    <2> QED
      BY <2>6 DEF new
  <1>6. CASE ~(e = q.env /\ d = q.id)
    <2>1. rds'[e][d] = rds[e][d]
      BY <1>2, <1>6, OtherDeployments
    <2> QED
      BY <1>4, <2>1
  <1> QED
    BY <1>5, <1>6

(* A component that is patched has what was asked for; it is no longer     *)
(* left.                                                                   *)
LEMMA PatchOutcome ==
  ASSUME TypeOK, CopyIsCurrent, NEW r \in Requests, ~history[r].disturbed, Shaped(req[r]),
         LatestIsRead(r), Progress(r), PatchDeployment(r)
  PROVE  Outcome(r)
  <1> DEFINE q == req[r]
             S == EnvironmentsOf(q.op)
             since == history[r].gen
             old == rds[q.env][q.id]
             new == rds'[q.env][q.id]
  <1>1. /\ q \in Request /\ q.pc = "patch" /\ q.id \in LatestRadixDeployment(q.env)
        /\ q.target \in Components \/ q.op.verb = "restart"
    BY DEF TypeOK, PatchDeployment, LatestIsRead, Shaped
  <1>2. q.env \in Environments /\ q.target \in Names /\ q.id \in Deployments /\ q.todo \subseteq Components
    BY <1>1, RequestFields, LatestType
  <1>3. CASE Become(r, [Released(q) EXCEPT !.pc = "error"])
    <2>1. Released(q) \in Request
      BY <1>1, RequestUpdates
    <2>2. [Released(q) EXCEPT !.pc = "error"].pc = "error"
      BY <2>1 DEF Request
    <2> QED
      BY <1>3, <2>2, BecomeOther DEF Outcome
  <1>4. CASE Advance(r)
    <2>1. PICK p \in Request : Become(r, p) /\ GoesOn(q, q.todo, p)
      BY <1>4, AdvanceGoesOn
    <2>2. req'[r] = p /\ p.op = q.op /\ p.pc \notin {"judge", "patch"} /\ (p.pc = "ok" => p.envs = {})
      BY <2>1, BecomeOther DEF GoesOn
    <2>3. \A d \in Deployments : LatestRadixDeployment(q.env) = {d} =>
            d = q.id /\ since[q.env] <= old.gen
      BY <1>1, <1>2 DEF LatestIsRead
    <2>4. old.override \in [Components -> {NoOverride} \union Int] /\ old.gen \in Nat
      <3>1. old \in RadixDeployment
        BY <1>2 DEF TypeOK
      <3> HIDE DEF old
      <3> QED
        BY <3>1 DEF RadixDeployment
    <2>5. since[q.env] \in Nat
      BY <1>2 DEF TypeOK, History
    <2>6. /\ q.op.verb = "restart" => RestartStamp(new, q.target) = old.gen + 1
          /\ q.op.verb # "restart" => new.override[q.target] = NewOverride(q.op)
      <3>1. /\ q.op.verb = "restart" => RestartStamp(new, q.target) = old.gen + 1
            /\ q.op.verb # "restart" =>
                 new.override = [old.override EXCEPT ![q.target] = NewOverride(q.op)]
        BY <1>2, PatchEffect
      <3> HIDE DEF old, new
      <3> QED
        BY <1>1, <2>4, <3>1
    <2> HIDE DEF old, new
    <2>7. since[q.env] <= old.gen /\ q.op.verb = "restart" => RestartStamp(new, q.target) > since[q.env]
      <3> DEFINE g == old.gen
                 h == since[q.env]
                 k == RestartStamp(new, q.target)
      <3>1. g \in Nat /\ h \in Nat /\ (q.op.verb = "restart" => k = g + 1)
        BY <2>4, <2>5, <2>6
      <3> HIDE DEF g, h, k
      <3>2. h <= g /\ q.op.verb = "restart" => k > h
        BY <3>1
      <3> QED
        BY <3>2 DEF g, h, k
    <2>8. q.op.scope # "component" =>
            Achieved(rds', Latest, S, q.op, Left(p), since)
      <3> SUFFICES ASSUME q.op.scope # "component"
                   PROVE  Achieved(rds', Latest, S, q.op, Left(p), since)
        OBVIOUS
      <3>1. Achieved(rds', Latest, S, q.op, Left(q), since)
        BY <1>2, PatchKeepsAchieved DEF Progress
      <3>2. since[q.env] <= old.gen => Fulfilled(q.op, new, q.target, since[q.env])
        <4>1. CASE q.op.verb = "stop"
          BY <2>6, <4>1 DEF Fulfilled, MayBeIdle, NewOverride
        <4>2. CASE q.op.verb = "restart"
          BY <2>7, <4>2 DEF Fulfilled, RestartedOrIdle
        <4>3. CASE q.op.verb = "reset"
          BY <2>6, <4>3 DEF Fulfilled, NewOverride
        <4> QED
          BY <1>1, <4>1, <4>2, <4>3, OpFacts DEF Verbs
      <3>3. \A d \in Deployments : Latest[q.env] = {d} =>
              Fulfilled(q.op, rds'[q.env][d], q.target, since[q.env])
        BY <1>2, <2>3, <3>2 DEF Latest, new
      <3>4. \A e \in Environments, d \in Deployments : rds'[e][d].comps \subseteq Components
        BY PatchGrows, CompsType
      <3>5. Achieved(rds', Latest, S, q.op, LeftThen(q, q.todo), since)
        BY <1>1, <3>1, <3>3, <3>4, TargetDone, OpFacts
      <3>6. \A e \in Environments : LeftThen(q, q.todo)[e] \subseteq Left(p)[e]
        BY <1>1, <1>2, <2>1, LeftToDo
      <3> QED
        BY <1>1, <3>5, <3>6, MoreLeft, OpFacts
    <2>9. ASSUME q.op.scope = "component",
                 NEW d \in LatestRadixDeployment(q.op.env), LatestRadixDeployment(q.op.env) = {d}
          PROVE  Promise(q.op, rds'[q.op.env][d], since[q.op.env])
      <3>1. q.op.env = q.env /\ q.op.target = q.target
        BY <1>1, <2>9 DEF Shaped
      <3>2. d = q.id /\ since[q.env] <= old.gen /\ rds'[q.op.env][d] = new
        BY <1>2, <2>3, <2>9, <3>1, LatestType DEF new
      <3>3. CASE q.op.verb = "scale"
        BY <2>6, <3>1, <3>2, <3>3 DEF Promise, NewOverride
      <3>4. CASE q.op.verb = "stop"
        BY <2>6, <2>9, <3>1, <3>2, <3>4 DEF Promise, NewOverride, MayBeIdle
      <3>5. CASE q.op.verb = "restart"
        BY <2>7, <2>9, <3>1, <3>2, <3>5 DEF Promise, RestartedOrIdle
      <3>6. CASE q.op.verb = "reset"
        BY <2>6, <2>9, <3>1, <3>2, <3>6 DEF Promise, NewOverride
      <3> QED
        BY <1>1, <3>3, <3>4, <3>5, <3>6, OpFacts DEF Verbs
    <2> QED
      BY <2>2, <2>8, <2>9 DEF Outcome
  <1> QED
    BY <1>3, <1>4 DEF PatchDeployment

-----------------------------------------------------------------------------
(* What a request alone knows is kept by whoever does not write.           *)
LEMMA KnowledgeKept ==
  ASSUME TypeOK, NEW x \in Requests, LatestIsRead(x), Progress(x),
         req'[x] = req[x], history'[x] = history[x], orphaned' = orphaned,
         \A e \in Environments, d \in Deployments : SameButReconciled(rds'[e][d], rds[e][d])
  PROVE  LatestIsRead(x)' /\ Progress(x)'
  <1>1. /\ \A e \in Environments : LatestRadixDeployment(e)' = LatestRadixDeployment(e)
        /\ Latest' = Latest
    BY LatestKept DEF SameButReconciled, Latest
  <1>2. req[x] \in Request /\ req[x].env \in Environments
    BY RequestFields DEF TypeOK
  <1>3. LatestIsRead(x)'
    BY <1>1, <1>2 DEF LatestIsRead, SameButReconciled
  <1>4. ASSUME NEW S \in SUBSET Environments, NEW op, NEW left, NEW since,
               Achieved(rds, Latest, S, op, left, since)
        PROVE  Achieved(rds', Latest, S, op, left, since)
    <2> SUFFICES ASSUME NEW e \in S, NEW d \in Deployments, Latest[e] = {d},
                        NEW c \in rds'[e][d].comps \ left[e]
                 PROVE  Fulfilled(op, rds'[e][d], c, since[e])
      BY DEF Achieved
    <2>1. SameButReconciled(rds'[e][d], rds[e][d])
      OBVIOUS
    <2>2. Fulfilled(op, rds[e][d], c, since[e])
      BY <1>4, <2>1 DEF Achieved, SameButReconciled
    <2> QED
      BY <2>1, <2>2 DEF SameButReconciled, Fulfilled, MayBeIdle, RestartedOrIdle, RestartStamp
  <1>5. EnvironmentsOf(req[x].op)' = EnvironmentsOf(req[x].op)
    BY DEF EnvironmentsOf
  <1>6. Progress(x)'
    <2>1. req[x].op.scope # "component" =>
            Achieved(rds', Latest, EnvironmentsOf(req[x].op), req[x].op, Left(req[x]), history[x].gen)
      BY <1>2, <1>4, OpFacts DEF Progress
    <2> QED
      BY <1>1, <1>5, <2>1 DEF Progress
  <1> QED
    BY <1>3, <1>6

(* A step of its own gives it what it has come to.                         *)
LEMMA KnowledgeGrows ==
  ASSUME TypeOK, TypeOK', NEW r \in Requests, LatestIsRead(r), Outcome(r), req'[r].pc # "error",
         history'[r] = history[r], orphaned' = orphaned,
         \A e \in Environments, d \in Deployments :
           rds'[e][d].state = rds[e][d].state /\ rds[e][d].gen <= rds'[e][d].gen
  PROVE  LatestIsRead(r)' /\ Progress(r)'
  <1>1. /\ \A e \in Environments : LatestRadixDeployment(e)' = LatestRadixDeployment(e)
        /\ Latest' = Latest
    BY LatestKept DEF Latest
  <1>2. req'[r] \in Request /\ req'[r].env \in Environments
    <2>1. req'[r] \in Request
      BY DEF TypeOK
    <2> QED
      BY <2>1, RequestFields
  <1>3. ASSUME NEW e \in Environments, NEW d \in Deployments, LatestRadixDeployment(e) = {d}
        PROVE  history[r].gen[e] <= rds'[e][d].gen
    <2> DEFINE h == history[r].gen[e]
               g == rds[e][d].gen
               k == rds'[e][d].gen
    <2>1. h \in Nat
      BY DEF TypeOK, History
    <2>2. g \in Nat
      BY GenerationFacts
    <2>3. k \in Nat
      <3>1. rds'[e][d] \in RadixDeployment
        BY DEF TypeOK
      <3> QED
        BY <3>1 DEF RadixDeployment
    <2>4. h <= g /\ g <= k
      BY <1>3 DEF LatestIsRead
    <2> HIDE DEF h, g, k
    <2>5. h <= k
      BY <2>1, <2>2, <2>3, <2>4
    <2> QED
      BY <2>5 DEF h, k
  <1>4. LatestIsRead(r)'
    BY <1>1, <1>2, <1>3 DEF LatestIsRead, Outcome
  <1>5. req'[r].op = req[r].op /\ EnvironmentsOf(req[r].op)' = EnvironmentsOf(req[r].op)
    BY DEF EnvironmentsOf, Outcome
  <1>6. Progress(r)'
    BY <1>1, <1>5 DEF Progress, Outcome
  <1> QED
    BY <1>4, <1>6

(* A request that has just come knows nothing yet, and everything is left. *)
LEMMA SubmitKnows ==
  ASSUME TypeOK, NEW r \in Requests, Shaped(req[r]), Submit(r), Alone(r)'
  PROVE  LatestIsRead(r)' /\ Progress(r)'
  <1> DEFINE q == req[r]
             live == Environments \ orphaned
  <1>1. q \in Request /\ q.pc = "idle" /\ q.env = q.op.env /\ q.envs = {} /\ q.env \in Environments
    BY RequestFields DEF TypeOK, Submit, Shaped
  <1>2. /\ rds' = rds /\ orphaned' = orphaned
        /\ history'[r].gen = [e \in Environments |-> GenerationOf(e)]
    BY DEF Submit, TypeOK, History
  <1>3. /\ \A e \in Environments : LatestRadixDeployment(e)' = LatestRadixDeployment(e)
        /\ Latest' = Latest
    BY <1>2, LatestKept DEF Latest
  <1>4. PICK p : req'[r] = p /\ Become(r, p) /\ p.op = q.op /\
               \/ q.op.scope = "component" /\ p.pc \in {"find", "error"}
               \/ q.op.scope = "environment" /\ p.pc = "list" /\ p.env = q.op.env
               \/ q.op.scope = "application" /\ p.pc = "ok"
               \/ q.op.scope = "application" /\ p.pc = "list" /\ p.env \in live /\ p.envs = live \ {p.env}
    <2>1. ASSUME NEW pc, Become(r, [q EXCEPT !.pc = pc])
          PROVE  /\ req'[r] = [q EXCEPT !.pc = pc] /\ req'[r].op = q.op
                 /\ req'[r].pc = pc /\ req'[r].env = q.env
      BY <1>1, <2>1, BecomeOther DEF Request
    <2>2. ASSUME NEW e \in live, Become(r, [q EXCEPT !.pc = "list", !.env = e, !.envs = live \ {e}])
          PROVE  /\ req'[r] = [q EXCEPT !.pc = "list", !.env = e, !.envs = live \ {e}] /\ req'[r].op = q.op
                 /\ req'[r].pc = "list" /\ req'[r].env = e /\ req'[r].envs = live \ {e}
      <3> DEFINE n == [q EXCEPT !.pc = "list", !.env = e, !.envs = live \ {e}]
      <3>1. n.op = q.op /\ n.pc = "list" /\ n.env = e /\ n.envs = live \ {e}
        BY <1>1 DEF Request
      <3> HIDE DEF n
      <3>2. Become(r, n)
        BY <2>2 DEF n
      <3>3. req'[r] = n
        BY <3>2, BecomeOther
      <3> QED
        BY <3>1, <3>3 DEF n
    <2>3. CASE SubmitComponent(r)
      BY <1>1, <2>1, <2>3 DEF SubmitComponent
    <2>4. CASE SubmitEnvironment(r)
      BY <1>1, <2>1, <2>4 DEF SubmitEnvironment
    <2>5. CASE SubmitApplication(r)
      <3>1. CASE Become(r, [q EXCEPT !.pc = "ok"])
        BY <2>1, <2>5, <3>1 DEF SubmitApplication
      <3>2. ASSUME NEW e \in live, Become(r, [q EXCEPT !.pc = "list", !.env = e, !.envs = live \ {e}])
            PROVE  /\ Become(r, req'[r]) /\ req'[r].op = q.op /\ req'[r].pc = "list"
                   /\ req'[r].env \in live /\ req'[r].envs = live \ {req'[r].env}
        BY <2>2, <3>2
      <3> QED
        BY <2>5, <3>1, <3>2, <2>1 DEF SubmitApplication
    <2> QED
      BY <2>3, <2>4, <2>5 DEF Submit
  <1>5. p.pc \in {"find", "list"}
    BY <1>4 DEF Alone, Serving
  <1>6. LatestIsRead(r)'
    <2>1. ASSUME NEW e \in Environments, NEW d \in Deployments, LatestRadixDeployment(e) = {d}
          PROVE  history'[r].gen[e] <= rds[e][d].gen
      <3>1. GenerationOf(e) = rds[e][d].gen
        BY <2>1 DEF GenerationOf
      <3> QED
        BY <1>2, <3>1, GenerationFacts
    <2> QED
      BY <1>2, <1>3, <1>4, <1>5, <2>1 DEF LatestIsRead
  <1>7. Progress(r)'
    <2>1. ASSUME p.op.scope # "component"
          PROVE  Achieved(rds, Latest, EnvironmentsOf(p.op), p.op, Left(p), history'[r].gen)
      <3>1. ASSUME NEW e \in EnvironmentsOf(p.op)
            PROVE  e \in Environments /\ Left(p)[e] = Components
        BY <1>1, <1>4, <1>5, <2>1, <3>1, OpFacts DEF EnvironmentsOf, Left
      <3> QED
        BY <3>1, CompsType DEF Achieved
    <2>2. EnvironmentsOf(p.op)' = EnvironmentsOf(p.op)
      BY <1>2 DEF EnvironmentsOf
    <2> QED
      BY <1>2, <1>3, <1>4, <2>1, <2>2 DEF Progress
  <1> QED
    BY <1>6, <1>7

-----------------------------------------------------------------------------
(* Going on keeps a request in shape.                                      *)
LEMMA GoesOnShaped ==
  ASSUME NEW q, NEW p, NEW todo, GoesOn(q, todo, p),
         q.op.scope = "component" => q.envs = {} /\ todo = {}
  PROVE  Shaped(p)
  BY DEF GoesOn, Shaped

(* An error keeps a request in shape.                                      *)
LEMMA FinishShaped ==
  ASSUME TypeOK, NEW r \in Requests, Finish(r, "error")
  PROVE  Shaped(req'[r])
  BY FinishFails DEF Shaped

(* Every step of a request keeps it in shape.                              *)
LEMMA OwnShape ==
  ASSUME TypeOK, NEW r \in Requests, Shaped(req[r]), Submit(r) \/ RequestStep(r) \/ CallFails(r)
  PROVE  Shaped(req'[r])
  <1> DEFINE q == req[r]
  <1>1. q \in Request
    BY DEF TypeOK
  <1>2. ASSUME NEW pc \in Pcs, Become(r, [q EXCEPT !.pc = pc])
        PROVE  /\ req'[r].pc = pc /\ req'[r].op = q.op /\ req'[r].env = q.env /\ req'[r].envs = q.envs
               /\ req'[r].target = q.target /\ req'[r].todo = q.todo
    <2> DEFINE n == [q EXCEPT !.pc = pc]
    <2>1. /\ n.pc = pc /\ n.op = q.op /\ n.env = q.env /\ n.envs = q.envs
          /\ n.target = q.target /\ n.todo = q.todo
      BY <1>1 DEF Request
    <2> HIDE DEF n
    <2>2. Become(r, n)
      BY <1>2 DEF n
    <2> QED
      BY <2>1, <2>2, BecomeOther
  <1>3. CASE Submit(r)
    <2>1. CASE SubmitComponent(r)
      <3>1. q.op.scope = "component" /\ q.pc = "idle" /\ q.todo = {}  /\ q.target = q.op.target
            /\ q.env = q.op.env /\ q.envs = {}
        BY <1>3, <2>1 DEF Submit, SubmitComponent, Shaped
      <3> QED
        BY <1>2, <2>1, <3>1 DEF SubmitComponent, Shaped, Pcs
    <2>2. CASE SubmitEnvironment(r)
      <3>1. q.op.scope = "environment"
        BY <2>2 DEF SubmitEnvironment
      <3> QED
        BY <1>2, <2>2, <3>1 DEF SubmitEnvironment, Shaped, Pcs
    <2>3. CASE SubmitApplication(r)
      <3> DEFINE live == Environments \ orphaned
      <3>1. q.op.scope = "application"
        BY <2>3 DEF SubmitApplication
      <3>2. ASSUME NEW e \in live, Become(r, [q EXCEPT !.pc = "list", !.env = e, !.envs = live \ {e}])
            PROVE  req'[r].op = q.op /\ req'[r].pc = "list"
        <4> DEFINE n == [q EXCEPT !.pc = "list", !.env = e, !.envs = live \ {e}]
        <4>1. n.op = q.op /\ n.pc = "list"
          BY <1>1 DEF Request
        <4> HIDE DEF n
        <4>2. Become(r, n)
          BY <3>2 DEF n
        <4> QED
          BY <4>1, <4>2, BecomeOther
      <3>3. req'[r].op = q.op /\ req'[r].pc \in {"ok", "list"}
        BY <1>2, <2>3, <3>2 DEF SubmitApplication, Pcs
      <3> QED
        BY <3>1, <3>3 DEF Shaped
    <2> QED
      BY <1>3, <2>1, <2>2, <2>3 DEF Submit
  <1>4. CASE ListComponents(r)
    <2>1. q.op.scope # "component"
      BY <1>4 DEF ListComponents, Shaped
    <2>2. CASE Finish(r, "error")
      BY <2>2, FinishShaped
    <2>3. CASE \E todo : \E p \in Request : Become(r, p) /\ GoesOn(q, todo, p)
      BY <2>1, <2>3, BecomeOther, GoesOnShaped
    <2> QED
      BY <1>4, <2>2, <2>3, ListGoesOn
  <1>5. CASE FindComponent(r)
    <2>1. CASE Finish(r, "error")
      BY <2>1, FinishShaped
    <2>2. ASSUME NEW d, Become(r, [q EXCEPT !.pc = "judge", !.id = d, !.snap = rds[q.env][d]])
          PROVE  Shaped(req'[r])
      <3> DEFINE n == [q EXCEPT !.pc = "judge", !.id = d, !.snap = rds[q.env][d]]
      <3>1. /\ n.pc = "judge" /\ n.op = q.op /\ n.env = q.env /\ n.envs = q.envs
            /\ n.target = q.target /\ n.todo = q.todo
        BY <1>1 DEF Request
      <3> HIDE DEF n
      <3>2. Become(r, n)
        BY <2>2 DEF n
      <3>3. req'[r] = n
        BY <3>2, BecomeOther
      <3> QED
        BY <1>5, <3>1, <3>3 DEF FindComponent, Shaped
    <2> QED
      BY <1>5, <2>1, <2>2 DEF FindComponent
  <1>6. CASE JudgeComponent(r)
    <2>1. CASE Finish(r, "error")
      BY <2>1, FinishShaped
    <2>2. CASE /\ ~(q.target \in JobComponents /\ q.op.verb # "restart")
               /\ Become(r, [q EXCEPT !.pc = "patch"])
      <3>1. q.target \in Components \/ q.op.verb = "restart"
        BY <1>1, <2>2, RequestFields
      <3> QED
        BY <1>2, <1>6, <2>2, <3>1 DEF JudgeComponent, Shaped, Pcs
    <2>3. CASE q.op.scope # "component" /\ Advance(r)
      BY <2>3, AdvanceGoesOn, BecomeOther, GoesOnShaped
    <2> QED
      BY <1>6, <2>1, <2>2, <2>3 DEF JudgeComponent
  <1>7. CASE PatchDeployment(r)
    <2>1. CASE Advance(r)
      <3>1. q.op.scope = "component" => q.envs = {} /\ q.todo = {}
        BY <1>7 DEF PatchDeployment, Shaped
      <3> QED
        BY <2>1, <3>1, AdvanceGoesOn, BecomeOther, GoesOnShaped
    <2>2. CASE Become(r, [Released(q) EXCEPT !.pc = "error"])
      <3>1. Released(q) \in Request
        BY <1>1, RequestUpdates
      <3> DEFINE n == [Released(q) EXCEPT !.pc = "error"]
      <3>2. n.pc = "error"
        BY <3>1 DEF Request
      <3> HIDE DEF n
      <3>3. req'[r] = n
        BY <2>2, BecomeOther DEF n
      <3> QED
        BY <3>2, <3>3 DEF Shaped
    <2> QED
      BY <1>7, <2>1, <2>2 DEF PatchDeployment
  <1>8. CASE CallFails(r)
    BY <1>8, FinishShaped DEF CallFails
  <1> QED
    BY <1>3, <1>4, <1>5, <1>6, <1>7, <1>8 DEF RequestStep

(* What a step of one request leaves alone: the orphaned environments, the *)
(* other requests, which RadixDeployment is the latest; and a patch        *)
(* disturbs all who are being served.                                      *)
LEMMA OwnStep ==
  ASSUME TypeOK, NEW r \in Requests, Submit(r) \/ RequestStep(r) \/ CallFails(r)
  PROVE  /\ orphaned' = orphaned
         /\ \A x \in Requests \ {r} : req'[x] = req[x]
         /\ RequestStep(r) => history'[r] = history[r]
         /\ ~PatchDeployment(r) => \A x \in Requests \ {r} : history'[x] = history[x]
         /\ PatchDeployment(r) => \A x \in Requests \ {r} : Serving(x) => history'[x].disturbed
         /\ \A e \in Environments, d \in Deployments :
              rds'[e][d].state = rds[e][d].state /\ rds[e][d].gen <= rds'[e][d].gen
  <1>1. orphaned' = orphaned
    BY DEF Submit, RequestStep, CallFails, ListComponents, FindComponent, JudgeComponent,
           PatchDeployment, Finish
  <1>2. \E p : Become(r, p)
    BY DEF Submit, SubmitComponent, SubmitEnvironment, SubmitApplication, RequestStep, CallFails,
           ListComponents, FindComponent, JudgeComponent, PatchDeployment, Advance, Finish
  <1>3. ASSUME NEW x \in Requests, x # r PROVE req'[x] = req[x]
    BY <1>2, <1>3, BecomeOther
  <1>4. CASE PatchDeployment(r)
    <2>1. Disturb({r})
      BY <1>4 DEF PatchDeployment
    <2>2. history'[r] = history[r]
      BY <2>1 DEF Disturb
    <2>3. \A x \in Requests \ {r} : Serving(x) => history'[x].disturbed
      BY <2>1, DisturbMarks
    <2>4. \A e \in Environments, d \in Deployments :
            rds'[e][d].state = rds[e][d].state /\ rds[e][d].gen <= rds'[e][d].gen
      BY <1>4, PatchGrows
    <2> QED
      BY <1>1, <1>3, <1>4, <2>2, <2>3, <2>4
  <1>5. CASE ~PatchDeployment(r)
    <2>1. rds' = rds
      BY <1>5, OnlyPatchWrites
    <2>2. \A e \in Environments, d \in Deployments :
            rds'[e][d].state = rds[e][d].state /\ rds[e][d].gen <= rds'[e][d].gen
      BY <2>1, GenerationFacts
    <2>3. RequestStep(r) \/ CallFails(r) => history' = history
      BY <1>5 DEF RequestStep, CallFails, ListComponents, FindComponent, JudgeComponent, Finish
    <2>4. ASSUME NEW x \in Requests, x # r PROVE history'[x] = history[x]
      <3>1. CASE Submit(r)
        BY <2>4, <3>1 DEF Submit, TypeOK
      <3> QED
        BY <2>3, <3>1
    <2> QED
      BY <1>1, <1>3, <1>5, <2>2, <2>3, <2>4
  <1> QED
    BY <1>4, <1>5

(* Every step of a request alone comes to its outcome.                     *)
LEMMA StepOutcome ==
  ASSUME TypeOK, CopyIsCurrent, Synced, SoloInv, NEW r \in Requests, ~history[r].disturbed,
         RequestStep(r)
  PROVE  Outcome(r)
  <1>1. Alone(r)
    BY DEF RequestStep, ListComponents, FindComponent, JudgeComponent, PatchDeployment, Alone, Serving
  <1>2. Shaped(req[r]) /\ LatestIsRead(r) /\ Progress(r)
    BY <1>1 DEF SoloInv
  <1> QED
    BY <1>2, ListOutcome, FindOutcome, JudgeOutcome, PatchOutcome DEF RequestStep

(* The steps of requests keep the invariant: their own by the outcome,     *)
(* those of the others because they disturb or do not write.               *)
LEMMA OwnSolo ==
  ASSUME TypeOK, TypeOK', CopyIsCurrent, Synced, SoloInv, NEW r \in Requests,
         Submit(r) \/ RequestStep(r) \/ CallFails(r)
  PROVE  SoloInv'
  <1>1. ASSUME NEW x \in Requests PROVE Shaped(req'[x])
    BY OwnShape, OwnStep DEF SoloInv
  <1>2. ASSUME NEW x \in Requests, x # r, Alone(x)'
        PROVE  LatestIsRead(x)' /\ Progress(x)'
    <2>1. req'[x] = req[x] /\ orphaned' = orphaned
      BY <1>2, OwnStep
    <2>2. ~PatchDeployment(r)
      BY <1>2, <2>1, OwnStep DEF Alone, Serving
    <2>3. rds' = rds /\ history'[x] = history[x]
      BY <1>2, <2>2, OwnStep, OnlyPatchWrites
    <2>4. LatestIsRead(x) /\ Progress(x)
      BY <1>2, <2>1, <2>3 DEF SoloInv, Alone, Serving
    <2>5. \A e \in Environments, d \in Deployments : SameButReconciled(rds'[e][d], rds[e][d])
      BY <2>3 DEF SameButReconciled
    <2> QED
      BY <2>1, <2>3, <2>4, <2>5, KnowledgeKept
  <1>3. ASSUME Alone(r)' PROVE LatestIsRead(r)' /\ Progress(r)'
    <2>1. CASE Submit(r)
      BY <1>3, <2>1, SubmitKnows DEF SoloInv
    <2>2. CASE RequestStep(r)
      <3>1. history'[r] = history[r] /\ orphaned' = orphaned
        BY <2>2, OwnStep
      <3>2. ~history[r].disturbed /\ req'[r].pc # "error"
        BY <1>3, <3>1 DEF Alone, Serving
      <3>3. Outcome(r)
        BY <2>2, <3>2, StepOutcome
      <3>4. Alone(r)
        BY <2>2, <3>2 DEF RequestStep, ListComponents, FindComponent, JudgeComponent, PatchDeployment,
                          Alone, Serving
      <3>5. LatestIsRead(r)
        BY <3>4 DEF SoloInv
      <3> QED
        BY <2>2, <3>1, <3>2, <3>3, <3>5, OwnStep, KnowledgeGrows
    <2>3. CASE CallFails(r)
      BY <1>3, <2>3, FinishFails DEF CallFails, Alone, Serving
    <2> QED
      BY <2>1, <2>2, <2>3
  <1>4. \A x \in Requests : Alone(x)' => LatestIsRead(x)' /\ Progress(x)'
    BY <1>2, <1>3
  <1> QED
    BY <1>1, <1>4 DEF SoloInv, Shaped

(* The steps of operator and pipeline keep the invariant: they disturb     *)
(* everyone, or change nothing but what has been reconciled.               *)
LEMMA ClusterSolo ==
  ASSUME TypeOK, SoloInv, NEW e \in Environments, ClusterStep(e)
  PROVE  SoloInv'
  <1>1. req' = req /\ orphaned' = orphaned
    BY DEF ClusterStep, CreateDeployment, ActivateDeployment, SyncComponent, MarkReconciled
  <1>2. ASSUME NEW x \in Requests, Alone(x)' PROVE LatestIsRead(x)' /\ Progress(x)'
    <2>1. CASE Disturb({})
      BY <1>1, <1>2, <2>1, DisturbMarks DEF Alone, Serving
    <2>2. ASSUME history' = history,
                 \A y \in Environments, d \in Deployments : SameButReconciled(rds'[y][d], rds[y][d])
          PROVE  LatestIsRead(x)' /\ Progress(x)'
      <3>1. LatestIsRead(x) /\ Progress(x)
        BY <1>1, <1>2, <2>2 DEF SoloInv, Alone, Serving
      <3> QED
        BY <1>1, <2>2, <3>1, KnowledgeKept
    <2>3. ASSUME NEW c \in Components, SyncComponent(e, c)
          PROVE  LatestIsRead(x)' /\ Progress(x)'
      BY <2>2, <2>3 DEF SyncComponent, SameButReconciled
    <2>4. ASSUME NEW d \in Deployments, MarkReconciled(e, d)
          PROVE  LatestIsRead(x)' /\ Progress(x)'
      <3>1. history' = history
        BY <2>4 DEF MarkReconciled
      <3> QED
        BY <2>2, <2>4, <3>1, ReconciledOnly
    <2> QED
      BY <2>1, <2>3, <2>4 DEF ClusterStep, CreateDeployment, ActivateDeployment
  <1>3. \A x \in Requests : Shaped(req'[x])
    BY <1>1 DEF SoloInv
  <1> QED
    BY <1>2, <1>3 DEF SoloInv, Shaped

(* It holds before any request has come.                                   *)
LEMMA SoloInitially == Init => SoloInv
  <1> SUFFICES ASSUME Init, NEW r \in Requests PROVE Shaped(req[r]) /\ ~Serving(r)
    BY DEF SoloInv, Alone
  <1>1. PICK op \in Operations :
          req[r] = [pc |-> "idle", op |-> op, envs |-> {}, env |-> op.env, todo |-> {},
                    target |-> op.target, id |-> 0, snap |-> NoDeployment]
    BY DEF Init
  <1> QED
    BY <1>1 DEF Shaped, Serving

(* A request that nobody disturbs has, at every point of its loops, done   *)
(* what it promises to every component in its scope but those it has left  *)
(* (StopEnvironment, ResetManuallyStoppedComponentsInEnvironment and       *)
(* RestartEnvironment, environment_handler.go:286-345, and those of the    *)
(* application after them).                                                *)
THEOREM SoloInvariant == Spec => []SoloInv
  <1>1. TypeOK /\ TypeOK' /\ CopyIsCurrent /\ Synced /\ SoloInv /\ [Next]_vars => SoloInv'
    <2> SUFFICES ASSUME TypeOK, TypeOK', CopyIsCurrent, Synced, SoloInv, [Next]_vars PROVE SoloInv'
      OBVIOUS
    <2>1. CASE UNCHANGED vars
      <3>1. rds' = rds /\ req' = req /\ orphaned' = orphaned /\ history' = history
        BY <2>1 DEF vars
      <3>2. ASSUME NEW x \in Requests, Alone(x)' PROVE LatestIsRead(x)' /\ Progress(x)'
        <4>1. LatestIsRead(x) /\ Progress(x)
          BY <3>1, <3>2 DEF SoloInv, Alone, Serving
        <4>2. \A e \in Environments, d \in Deployments : SameButReconciled(rds'[e][d], rds[e][d])
          BY <3>1 DEF SameButReconciled
        <4> QED
          BY <3>1, <4>1, <4>2, KnowledgeKept
      <3>3. \A x \in Requests : Shaped(req'[x])
        BY <3>1 DEF SoloInv
      <3> QED
        BY <3>2, <3>3 DEF SoloInv, Shaped
    <2> QED
      BY <2>1, OwnSolo, ClusterSolo DEF Next
  <1> QED
    BY <1>1, SoloInitially, TypeCorrect, CopiesAreCurrent, DeploymentsSynced, PTL DEF Spec

(* A request answered with success that nobody disturbed has done what it  *)
(* promises to every component in its scope: those it skips as Stopped, by *)
(* a status taken from a Deployment the operator may not have updated yet  *)
(* (component_status.go:57, component_handler.go:67-106), need nothing.    *)
THEOREM SoloRequestsDoTheirWork == Spec => SoloEffect
  <1>1. TypeOK /\ CopyIsCurrent /\ Synced /\ SoloInv /\ [Next]_vars => [SoloRequestsTakeEffect]_vars
    <2> SUFFICES ASSUME TypeOK, CopyIsCurrent, Synced, SoloInv, Next, NEW r \in Requests,
                        Answered(r), ~history[r].disturbed,
                        NEW e \in EnvironmentsOf(req[r].op), NEW d \in LatestRadixDeployment(e)',
                        LatestRadixDeployment(e)' = {d}
                 PROVE  Promise(req[r].op, rds'[e][d], history[r].gen[e])
      BY DEF SoloRequestsTakeEffect
    <2> DEFINE q == req[r]
    <2>1. q \in Request /\ Serving(r) /\ req'[r].pc = "ok"
      BY DEF TypeOK, Answered
    <2>2. RequestStep(r)
      <3>1. req'[r] # req[r]
        BY <2>1 DEF Serving
      <3>2. ~Submit(r) /\ ~CallFails(r)
        BY <2>1, FinishFails DEF Submit, CallFails, Serving
      <3>3. ASSUME NEW x \in Requests, x # r PROVE ~(Submit(x) \/ RequestStep(x) \/ CallFails(x))
        BY <3>1, <3>3, OwnStep
      <3>4. \A x \in Environments : ~ClusterStep(x)
        BY <3>1, ClusterKeepsRequests
      <3> QED
        BY <3>2, <3>3, <3>4 DEF Next
    <2>3. Outcome(r)
      BY <2>2, StepOutcome
    <2>4. e \in Environments /\ LatestRadixDeployment(e) = {d} /\ d \in Deployments
      <3>1. e \in Environments
        BY <2>1, OpFacts
      <3>2. LatestRadixDeployment(e)' = LatestRadixDeployment(e)
        BY <2>2, <3>1, OwnStep, LatestKept
      <3> QED
        BY <3>1, <3>2, LatestType
    <2>5. CASE q.op.scope = "component"
      <3>1. e = q.op.env
        BY <2>5 DEF EnvironmentsOf
      <3> QED
        BY <2>1, <2>3, <2>4, <2>5, <3>1 DEF Outcome
    <2>6. CASE q.op.scope # "component"
      <3>1. Achieved(rds', Latest, EnvironmentsOf(q.op), q.op, Left(req'[r]), history[r].gen)
        BY <2>1, <2>3, <2>6 DEF Outcome
      <3>2. Left(req'[r])[e] = {}
        BY <2>1, <2>3, <2>4 DEF Outcome, Left
      <3>3. \A c \in rds'[e][d].comps : Fulfilled(q.op, rds'[e][d], c, history[r].gen[e])
        BY <2>4, <3>1, <3>2 DEF Achieved, Latest
      <3>4. q.op.verb \in {"stop", "restart", "reset"}
        BY <2>1, <2>6, OpFacts DEF Verbs
      <3> QED
        BY <2>6, <3>3, <3>4 DEF Fulfilled, Promise
    <2> QED
      BY <2>5, <2>6
  <1> QED
    BY <1>1, TypeCorrect, CopiesAreCurrent, DeploymentsSynced, SoloInvariant, PTL DEF Spec, SoloEffect
=============================================================================
