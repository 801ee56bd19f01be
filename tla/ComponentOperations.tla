------------------------- MODULE ComponentOperations -------------------------
(***************************************************************************)
(* The scale, reset, stop and restart operations of radix-api              *)
(* (api/environments/component_handler.go and environment_handler.go) on   *)
(* the components of an application's environments.                        *)
(*                                                                         *)
(* radix-api keeps no state of its own: every operation reads the latest   *)
(* RadixDeployment (RD) of the environment, judges the status of one       *)
(* component from the Kubernetes Deployment the operator made of it, and   *)
(* sends a JSON merge patch.  The patch carries no resourceVersion and     *)
(* replaces the arrays spec.components and spec.jobs whole, with the       *)
(* contents of the copy that was read.  Requests are served concurrently,  *)
(* and the Radix operator and the pipeline change the same objects.        *)
(***************************************************************************)
EXTENDS Integers, FiniteSets

CONSTANTS
  Environments,     \* environments of the application
  Components,       \* names of deployed components (spec.components)
  JobComponents,    \* names of job components (spec.jobs)
  DeployedSets,     \* sets of components a RadixDeployment may hold
  MaxDeployments,   \* bound: RadixDeployments made per environment
  Requests,         \* HTTP requests
  Operations,       \* what a request may ask for
  Autoscale,        \* replicas a component may run when it has no override
  NoOverride        \* ReplicasOverride = nil

maxScaleReplicas == 20

Names == Components \union JobComponents
Deployments == 1..MaxDeployments

Verbs == {"scale", "reset", "stop", "restart"}
Scopes == {"component", "environment", "application"}
OperationType == [verb : Verbs, scope : Scopes, env : Environments,
                  target : Names, replicas : Int]

ASSUME ConstantsAssumption ==
  /\ Components \intersect JobComponents = {}
  /\ DeployedSets \subseteq SUBSET Components
  /\ MaxDeployments \in Nat
  /\ Operations \subseteq OperationType
  \* only a single component can be scaled: there is no such environment route
  /\ \A op \in Operations : op.verb = "scale" => op.scope = "component"
  /\ Autoscale \in [Components -> SUBSET Nat]
  /\ NoOverride \notin Int

VARIABLES
  rds,        \* rds[e][d]: the RadixDeployment number d of environment e
  kds,        \* kds[e][n]: the Kubernetes Deployment of component n
  orphaned,   \* environments no longer in the radixconfig
  req,        \* req[r]: what the goroutine serving request r knows
  history     \* auxiliary: what happened while request r was served

vars == <<rds, kds, orphaned, req, history>>
-----------------------------------------------------------------------------
(***************************************************************************)
(* A RadixDeployment.  Status.ActiveFrom is set when the operator first    *)
(* activates it and grows with d, so its order is the order of d; it is    *)
(* zero exactly in the state "created".  A restart stamp is the value of   *)
(* the RADIX_RESTART variable; instants are counted by the generation a    *)
(* stamp produced, and 0 is an unset variable or an unset status.          *)
(***************************************************************************)
RDStates == {"absent", "created", "active", "inactive"}

RadixDeployment ==
  [state : RDStates, gen : Nat, reconciled : Nat, mutation : Nat,
   comps : SUBSET Components, override : [Components -> {NoOverride} \union Int],
   restart : [Components -> Nat], jobRestart : [JobComponents -> Nat]]

NoDeployment ==
  [state |-> "absent", gen |-> 0, reconciled |-> 0, mutation |-> 0,
   comps |-> {}, override |-> [c \in Components |-> NoOverride],
   restart |-> [c \in Components |-> 0],
   jobRestart |-> [j \in JobComponents |-> 0]]

\* owner = 0: there is no such Deployment; gen: the RD generation it was made of
KubeDeployment == [owner : {0} \union Deployments, gen : Nat, replicas : Nat]
NoKubeDeployment == [owner |-> 0, gen |-> 0, replicas |-> 0]

Request ==
  [pc : {"idle", "list", "find", "judge", "patch", "ok", "error"},
   op : Operations, envs : SUBSET Environments, env : Environments,
   todo : SUBSET Components, target : Names,
   id : {0} \union Deployments, snap : RadixDeployment]

History == [disturbed : BOOLEAN, gen : [Environments -> Nat]]

TypeOK ==
  /\ rds \in [Environments -> [Deployments -> RadixDeployment]]
  /\ kds \in [Environments -> [Names -> KubeDeployment]]
  /\ orphaned \subseteq Environments
  /\ req \in [Requests -> Request]
  /\ history \in [Requests -> History]
-----------------------------------------------------------------------------
(***************************************************************************)
(* kubequery.GetLatestRadixDeployment: the head of the list sorted by      *)
(* ActiveFrom, descending, zero values last.  When every ActiveFrom is     *)
(* zero the comparator orders nothing and any of them may come first.      *)
(***************************************************************************)
Existing(e) == {d \in Deployments : rds[e][d].state # "absent"}
Dated(e) == {d \in Existing(e) : rds[e][d].state # "created"}

LatestRadixDeployment(e) ==
  IF Dated(e) = {} THEN Existing(e)
  ELSE {d \in Dated(e) : \A x \in Dated(e) : x <= d}

RestartStamp(rd, n) ==
  IF n \in Components THEN rd.restart[n] ELSE rd.jobRestart[n]

(***************************************************************************)
(* The status of component n of the copy rd of RadixDeployment d, judged   *)
(* by the Kubernetes Deployment kd.  Only "Stopped" is tested by an        *)
(* operation; "Consistent" also stands for a Deployment whose pods are not *)
(* settled.                                                                *)
(***************************************************************************)
ComponentRestarting(rd, n) ==
  RestartStamp(rd, n) # 0 /\ RestartStamp(rd, n) > rd.reconciled

\* mutant: only the owner of the Deployment is compared, not the generation
MutantCorrectGeneration(rd, d, kd) == kd.owner = d

CorrectGeneration(rd, d, kd) == kd.owner = d /\ kd.gen = rd.gen

ComponentStatusFromDeployment(rd, d, n, kd) ==
  IF kd.owner = 0 THEN "Reconciling"
  ELSE IF ComponentRestarting(rd, n) THEN "Restarting"
  ELSE IF ~CorrectGeneration(rd, d, kd) THEN "Outdated"
  ELSE IF kd.replicas = 0 THEN "Stopped" ELSE "Consistent"

\* getComponentStateFromSpec: only the active RD has a status of its own
ComponentStatus(rd, d, n, kd) ==
  IF rd.state = "active" THEN ComponentStatusFromDeployment(rd, d, n, kd)
  ELSE "Consistent"
-----------------------------------------------------------------------------
Init ==
  /\ rds = [e \in Environments |-> [d \in Deployments |-> NoDeployment]]
  /\ kds = [e \in Environments |-> [n \in Names |-> NoKubeDeployment]]
  /\ orphaned \in SUBSET Environments
  /\ req \in [Requests ->
       {[pc |-> "idle", op |-> op, envs |-> {}, env |-> op.env, todo |-> {},
         target |-> op.target, id |-> 0, snap |-> NoDeployment] : op \in Operations}]
  /\ history = [r \in Requests |->
       [disturbed |-> FALSE, gen |-> [e \in Environments |-> 0]]]

Serving(r) == req[r].pc \notin {"idle", "ok", "error"}

Become(r, q) == req' = [req EXCEPT ![r] = q]

\* the copy that was read is dropped
Released(q) == [q EXCEPT !.id = 0, !.snap = NoDeployment]

Finish(r, pc) ==
  /\ Become(r, [Released(req[r]) EXCEPT !.pc = pc])
  /\ UNCHANGED <<rds, kds, orphaned, history>>

(***************************************************************************)
(* The loops of StopEnvironment, ResetManuallyStoppedComponents..., and    *)
(* RestartEnvironment over the components still to do, inside the loops of *)
(* StopApplication, StartApplication and RestartApplication over the       *)
(* environments still to do.  The order is that of the radixconfig: any.   *)
(***************************************************************************)
\* mutant: the loop works on with the copy it has, without reading it again
MutantAdvanceSameCopy(r) ==
  LET q == req[r] IN
  \/ \E n \in q.todo :
       Become(r, [q EXCEPT !.pc = "judge", !.target = n, !.todo = q.todo \ {n}])
  \/ /\ q.todo = {}
     /\ \E e \in q.envs :
          Become(r, [Released(q) EXCEPT !.pc = "list", !.env = e, !.envs = q.envs \ {e}])
  \/ /\ q.todo = {} /\ q.envs = {}
     /\ Become(r, [Released(q) EXCEPT !.pc = "ok"])

\* mutant: the loop over the environments goes back to the one just done
MutantAdvanceSameEnvironment(r) ==
  LET q == req[r] IN
  \/ \E n \in q.todo :
       Become(r, [Released(q) EXCEPT !.pc = "find", !.target = n, !.todo = q.todo \ {n}])
  \/ /\ q.todo = {}
     /\ \E e \in q.envs : Become(r, [Released(q) EXCEPT !.pc = "list", !.env = e])
  \/ /\ q.todo = {} /\ q.envs = {}
     /\ Become(r, [Released(q) EXCEPT !.pc = "ok"])

\* mutant: done with one environment, done with all
MutantAdvanceOneEnvironment(r) ==
  LET q == req[r] IN
  \/ \E n \in q.todo :
       Become(r, [Released(q) EXCEPT !.pc = "find", !.target = n, !.todo = q.todo \ {n}])
  \/ /\ q.todo = {}
     /\ Become(r, [Released(q) EXCEPT !.pc = "ok"])

Advance(r) ==
  LET q == req[r] IN
  \/ \E n \in q.todo :
       Become(r, [Released(q) EXCEPT !.pc = "find", !.target = n, !.todo = q.todo \ {n}])
  \/ /\ q.todo = {}
     /\ \E e \in q.envs :
          Become(r, [Released(q) EXCEPT !.pc = "list", !.env = e, !.envs = q.envs \ {e}])
  \/ /\ q.todo = {} /\ q.envs = {}
     /\ Become(r, [Released(q) EXCEPT !.pc = "ok"])

(***************************************************************************)
(* A request arrives.  ScaleComponent refuses a replica count outside      *)
(* 0..maxScaleReplicas before it reads anything; an application request    *)
(* lists the environments that are not orphaned.                           *)
(***************************************************************************)
\* mutant: one replica too many is let through
MutantScaleAllowed(op) == op.verb = "scale" => op.replicas \in 0..(maxScaleReplicas + 1)

ScaleAllowed(op) == op.verb = "scale" => op.replicas \in 0..maxScaleReplicas

GenerationOf(e) ==
  IF \E d \in LatestRadixDeployment(e) : TRUE
  THEN rds[e][CHOOSE d \in LatestRadixDeployment(e) : TRUE].gen ELSE 0

SubmitComponent(r) ==
  LET q == req[r] IN
  /\ q.op.scope = "component"
  /\ \/ /\ ScaleAllowed(q.op)
        /\ Become(r, [q EXCEPT !.pc = "find"])
     \/ /\ ~ScaleAllowed(q.op)
        /\ Become(r, [q EXCEPT !.pc = "error"])

SubmitEnvironment(r) ==
  /\ req[r].op.scope = "environment"
  /\ Become(r, [req[r] EXCEPT !.pc = "list"])

SubmitApplication(r) ==
  LET q == req[r]
      live == Environments \ orphaned IN
  /\ q.op.scope = "application"
  /\ \/ /\ live = {}
        /\ Become(r, [q EXCEPT !.pc = "ok"])
     \/ \E e \in live :
          Become(r, [q EXCEPT !.pc = "list", !.env = e, !.envs = live \ {e}])

Submit(r) ==
  /\ req[r].pc = "idle"
  /\ SubmitComponent(r) \/ SubmitEnvironment(r) \/ SubmitApplication(r)
  /\ history' = [history EXCEPT ![r].gen = [e \in Environments |-> GenerationOf(e)]]
  /\ UNCHANGED <<rds, kds, orphaned>>

(***************************************************************************)
(* The first read of an environment operation.  The components to work     *)
(* through are those of this copy; the reset keeps those whose override is *)
(* zero.  No RadixDeployment at all ends the whole request with an error.  *)
(***************************************************************************)
\* mutant: the loops also go through the job components
MutantComponentsToDo(verb, rd) ==
  IF verb = "reset" THEN {c \in rd.comps : rd.override[c] = 0}
  ELSE rd.comps \union JobComponents

ComponentsToDo(verb, rd) ==
  IF verb = "reset" THEN {c \in rd.comps : rd.override[c] = 0} ELSE rd.comps

ListComponents(r) ==
  LET q == req[r] IN
  /\ q.pc = "list"
  /\ \/ /\ LatestRadixDeployment(q.env) = {}
        /\ Finish(r, "error")
     \/ \E d \in LatestRadixDeployment(q.env) :
          LET todo == ComponentsToDo(q.op.verb, rds[q.env][d]) IN
          /\ \/ \E n \in todo :
                  Become(r, [q EXCEPT !.pc = "find", !.target = n, !.todo = todo \ {n}])
             \/ /\ todo = {}
                /\ \E e \in q.envs : Become(r, [q EXCEPT !.env = e, !.envs = q.envs \ {e}])
             \/ /\ todo = {} /\ q.envs = {}
                /\ Become(r, [q EXCEPT !.pc = "ok"])
          /\ UNCHANGED <<rds, kds, orphaned, history>>

(***************************************************************************)
(* getRadixCommonComponentUpdater, first half: read the latest RD again    *)
(* and find the component or the job component in it.                      *)
(***************************************************************************)
FindComponent(r) ==
  LET q == req[r] IN
  /\ q.pc = "find"
  /\ \/ /\ LatestRadixDeployment(q.env) = {}
        /\ Finish(r, "error")
     \/ \E d \in LatestRadixDeployment(q.env) :
          LET rd == rds[q.env][d] IN
          \/ /\ q.target \in rd.comps \union JobComponents
             /\ Become(r, [q EXCEPT !.pc = "judge", !.id = d, !.snap = rd])
             /\ UNCHANGED <<rds, kds, orphaned, history>>
          \/ /\ q.target \notin rd.comps \union JobComponents
             /\ Finish(r, "error")

(***************************************************************************)
(* getRadixCommonComponentUpdater, second half, and the checks of the      *)
(* operation: the Kubernetes Deployments are listed after the RD was read. *)
(* A component in the wrong state is an error for a single operation and   *)
(* skipped by the environment and application loops                        *)
(* (ignoreComponentStatusError).                                           *)
(***************************************************************************)
WrongState(verb, rd, d, n, kd) ==
  CASE verb = "scale" -> FALSE
    [] verb = "reset" -> rd.override[n] = NoOverride
    [] OTHER -> ComponentStatus(rd, d, n, kd) = "Stopped"

JudgeComponent(r) ==
  LET q == req[r]
      refused == q.target \in JobComponents /\ q.op.verb # "restart"
      wrong == WrongState(q.op.verb, q.snap, q.id, q.target, kds[q.env][q.target]) IN
  /\ q.pc = "judge"
  /\ \/ /\ refused
        /\ Finish(r, "error")
     \/ /\ ~refused /\ ~wrong
        /\ Become(r, [q EXCEPT !.pc = "patch"])
        /\ UNCHANGED <<rds, kds, orphaned, history>>
     \/ /\ ~refused /\ wrong /\ q.op.scope = "component"
        /\ Finish(r, "error")
     \/ /\ ~refused /\ wrong /\ q.op.scope # "component"
        /\ Advance(r)
        /\ UNCHANGED <<rds, kds, orphaned, history>>

(***************************************************************************)
(* commit and patch.  The merge patch is the difference of the copy before *)
(* and after the change: an array is in it exactly when the change altered *)
(* it, and is then the whole array of the copy.  The API server applies it *)
(* to the RD as it is now and moves the generation when the spec changed.  *)
(***************************************************************************)
NewOverride(op) ==
  CASE op.verb = "scale" -> op.replicas
    [] op.verb = "stop" -> 0
    [] OTHER -> NoOverride

\* mutant: the override is set on the whole array, not at componentIndex
MutantChanged(rd, op, n, now) ==
  IF op.verb = "restart"
  THEN IF n \in Components THEN [rd EXCEPT !.restart[n] = now]
       ELSE [rd EXCEPT !.jobRestart[n] = now]
  ELSE [rd EXCEPT !.override = [c \in Components |-> NewOverride(op)]]

Changed(rd, op, n, now) ==
  IF op.verb = "restart"
  THEN IF n \in Components THEN [rd EXCEPT !.restart[n] = now]
       ELSE [rd EXCEPT !.jobRestart[n] = now]
  ELSE [rd EXCEPT !.override[n] = NewOverride(op)]

SameComponents(a, b) == a.override = b.override /\ a.restart = b.restart

\* mutant: the patch is the whole changed copy, not its difference
MutantMergedWhole(now, old, new) ==
  [new EXCEPT !.gen = now.gen + 1, !.mutation = now.mutation + 1,
              !.state = now.state, !.reconciled = now.reconciled]

Merged(now, old, new) ==
  LET comps == IF SameComponents(old, new) THEN now ELSE new
      jobs == IF old.jobRestart = new.jobRestart THEN now ELSE new
      same == SameComponents(comps, now) /\ jobs.jobRestart = now.jobRestart IN
  [now EXCEPT !.override = comps.override, !.restart = comps.restart,
              !.jobRestart = jobs.jobRestart,
              !.gen = IF same THEN now.gen ELSE now.gen + 1,
              !.mutation = now.mutation + 1]

Disturb(writer) ==
  history' = [x \in Requests |->
    IF x \notin writer /\ Serving(x) THEN [history[x] EXCEPT !.disturbed = TRUE] ELSE history[x]]

PatchedDeployment(r) ==
  LET q == req[r]
      now == rds[q.env][q.id] IN
  Merged(now, q.snap, Changed(q.snap, q.op, q.target, now.gen + 1))

PatchDeployment(r) ==
  LET q == req[r] IN
  /\ q.pc = "patch"
  /\ rds' = [rds EXCEPT ![q.env][q.id] = PatchedDeployment(r)]
  \* the answer of the API server may be lost after it has applied the patch
  /\ \/ Advance(r)
     \/ Become(r, [Released(q) EXCEPT !.pc = "error"])
  /\ Disturb({r})
  /\ UNCHANGED <<kds, orphaned>>

(* Every call to the API server may fail (the RD may be gone, the user may *)
(* lack the right): the request ends with an error, and a loop leaves the  *)
(* rest of its components alone.                                           *)
CallFails(r) == Serving(r) /\ Finish(r, "error")
-----------------------------------------------------------------------------
(***************************************************************************)
(* The rest of the cluster, as far as radix-api depends on it.  A pipeline *)
(* creates an RD, with the overrides of the active one or none; the        *)
(* operator activates the newest, makes a Kubernetes Deployment of each    *)
(* component, records when it has reconciled and drops old RDs.            *)
(***************************************************************************)
Active(e) == {d \in Deployments : rds[e][d].state = "active"}

CreateDeployment(e) ==
  \E d \in Deployments, comps \in DeployedSets :
    /\ d = Cardinality(Existing(e)) + 1
    /\ d \notin Existing(e)
    /\ \E from \in Active(e) \union {0} :
         rds' = [rds EXCEPT ![e][d] =
           [NoDeployment EXCEPT !.state = "created", !.gen = 1, !.comps = comps,
              !.override = IF from = 0 THEN @ ELSE rds[e][from].override]]
    /\ Disturb({})
    /\ UNCHANGED <<kds, orphaned, req>>

ActivateDeployment(e, d) ==
  /\ rds[e][d].state = "created"
  /\ \A x \in Existing(e) : x <= d
  /\ rds' = [rds EXCEPT ![e] = [x \in Deployments |->
       IF x = d THEN [rds[e][x] EXCEPT !.state = "active"]
       ELSE IF rds[e][x].state = "active" THEN [rds[e][x] EXCEPT !.state = "inactive"]
       ELSE rds[e][x]]]
  /\ Disturb({})
  /\ UNCHANGED <<kds, orphaned, req>>

DesiredReplicas(rd, c) ==
  IF rd.override[c] = NoOverride THEN Autoscale[c] ELSE {rd.override[c]}

(* The Deployment of a job is its scheduler, which always has a replica,   *)
(* and a status that is never "Stopped": it is left as none.               *)
SyncComponent(e, c) ==
  /\ \E d \in Active(e) :
       LET rd == rds[e][d] IN
       \/ /\ c \in rd.comps
          /\ \E k \in DesiredReplicas(rd, c) :
               kds' = [kds EXCEPT ![e][c] = [owner |-> d, gen |-> rd.gen, replicas |-> k]]
       \/ /\ c \notin rd.comps
          /\ kds' = [kds EXCEPT ![e][c] = NoKubeDeployment]
  /\ UNCHANGED <<rds, orphaned, req, history>>

MarkReconciled(e, d) ==
  /\ rds[e][d].state = "active"
  /\ \A n \in rds[e][d].comps : CorrectGeneration(rds[e][d], d, kds[e][n])
  /\ rds' = [rds EXCEPT ![e][d].reconciled = rds[e][d].gen]
  /\ UNCHANGED <<kds, orphaned, req, history>>
-----------------------------------------------------------------------------
RequestStep(r) ==
  \/ ListComponents(r)
  \/ FindComponent(r)
  \/ JudgeComponent(r)
  \/ PatchDeployment(r)

ClusterStep(e) ==
  \/ CreateDeployment(e)
  \/ \E d \in Deployments : ActivateDeployment(e, d)
  \/ \E c \in Components : SyncComponent(e, c)
  \/ \E d \in Deployments : MarkReconciled(e, d)

Next ==
  \/ \E r \in Requests : Submit(r) \/ RequestStep(r) \/ CallFails(r)
  \/ \E e \in Environments : ClusterStep(e)

(* Go schedules every goroutine, and every call to the API server returns  *)
(* or times out: a request that has begun keeps taking steps.              *)
Spec == Init /\ [][Next]_vars /\ \A r \in Requests : WF_vars(RequestStep(r) \/ CallFails(r))
-----------------------------------------------------------------------------
(* No RadixDeployment ever carries an override outside 0..20, whatever     *)
(* requests, stale copies and new deployments are combined                 *)
(* (component_handler.go:33-38; operators trust ReplicasOverride).         *)
OverrideInRange ==
  \A e \in Environments, d \in Deployments, c \in Components :
    rds[e][d].override[c] # NoOverride =>
      rds[e][d].override[c] \in 0..maxScaleReplicas

(* While no other request or deployment intervened since the request       *)
(* began, the copy it is about to patch from is the RD as it is, so that   *)
(* the whole-array patch overwrites nothing (environment_handler.go:446).  *)
SameSpec(a, b) ==
  /\ SameComponents(a, b) /\ a.jobRestart = b.jobRestart
  /\ a.gen = b.gen /\ a.comps = b.comps /\ a.state = b.state

CopyIsCurrent ==
  \A r \in Requests :
    req[r].pc \in {"judge", "patch"} /\ ~history[r].disturbed =>
      SameSpec(req[r].snap, rds[req[r].env][req[r].id])

(* A step that patches an RD for request r.                                *)
PatchedBy(r) == req[r].pc = "patch" /\ req'[r].pc # "patch" /\ rds' # rds

(* A patch made without interference changes the component it is for and   *)
(* no other component or job of the RD, and no other RD.                   *)
OnlyTargetChanges ==
  \A r \in Requests :
    PatchedBy(r) /\ ~history[r].disturbed =>
      \A e \in Environments, d \in Deployments, n \in Names :
        <<e, d, n>> # <<req[r].env, req[r].id, req[r].target>> =>
          /\ RestartStamp(rds'[e][d], n) = RestartStamp(rds[e][d], n)
          /\ n \in Components => rds'[e][d].override[n] = rds[e][d].override[n]

BystandersKept == [][OnlyTargetChanges]_vars

(* Even from a stale copy, an operation on a component leaves the jobs     *)
(* array as it is and the restart of a job leaves the components array:    *)
(* the merge patch holds only the array the operation changed.             *)
ArraysApart ==
  \A r \in Requests :
    PatchedBy(r) =>
      \A e \in Environments, d \in Deployments :
        IF req[r].target \in Components
        THEN rds'[e][d].jobRestart = rds[e][d].jobRestart
        ELSE SameComponents(rds'[e][d], rds[e][d])

ArraysIndependent == [][ArraysApart]_vars

(***************************************************************************)
(* What an operation on one component, or on every component of an         *)
(* environment, promises of the latest RD rd at the moment it is answered  *)
(* with success, when nothing else wrote to the environment meanwhile.     *)
(***************************************************************************)
MayBeIdle(rd, c) ==
  rd.override[c] = 0 \/ (rd.override[c] = NoOverride /\ 0 \in Autoscale[c])

RestartedOrIdle(rd, n, since) ==
  RestartStamp(rd, n) > since \/ (n \in Components /\ MayBeIdle(rd, n))

Promise(op, rd, since) ==
  LET scope == IF op.scope = "component" THEN {op.target} ELSE rd.comps IN
  CASE op.verb = "scale" -> rd.override[op.target] = op.replicas
    [] op.verb = "stop" -> \A c \in scope : MayBeIdle(rd, c)
    [] op.verb = "restart" -> \A n \in scope : RestartedOrIdle(rd, n, since)
    [] op.verb = "reset" /\ op.scope = "component" -> rd.override[op.target] = NoOverride
    [] OTHER -> \A c \in rd.comps : rd.override[c] # 0

EnvironmentsOf(op) ==
  IF op.scope = "application" THEN Environments \ orphaned ELSE {op.env}

Answered(r) == Serving(r) /\ req'[r].pc = "ok"

(* A request answered with success, and not interfered with, has done what *)
(* it promises to every component in its scope: in particular the loops    *)
(* skip a component only when it needs nothing, although the status they   *)
(* go by is read from a Deployment the operator may not have updated yet   *)
(* (component_status.go:57: the generation test).                          *)
SoloRequestsTakeEffect ==
  \A r \in Requests :
    Answered(r) /\ ~history[r].disturbed =>
      \A e \in EnvironmentsOf(req[r].op) : \A d \in LatestRadixDeployment(e)' :
        LatestRadixDeployment(e)' = {d} =>
          Promise(req[r].op, rds'[e][d], history[r].gen[e])

SoloEffect == [][SoloRequestsTakeEffect]_vars

(* Every request that has been accepted is answered: the loops over        *)
(* components and environments come to an end.                             *)
EveryRequestIsAnswered ==
  \A r \in Requests : Serving(r) ~> req[r].pc \in {"ok", "error"}

(* environment_controller.go:950 of the environment reset: "Reset all      *)
(* manually scaled component and resumes normal operation in environment". *)
ResetsEveryOverride ==
  \A r \in Requests :
    Answered(r) /\ ~history[r].disturbed
      /\ req[r].op.verb = "reset" /\ req[r].op.scope = "environment" =>
      \A d \in LatestRadixDeployment(req[r].op.env)' :
        \A c \in rds'[req[r].op.env][d].comps :
          rds'[req[r].op.env][d].override[c] = NoOverride

EnvironmentResetIsComplete == [][ResetsEveryOverride]_vars

(* environment_handler.go:286 of StopEnvironment: "Stops all components in *)
(* the environment"; stopping is an override of zero, without which an     *)
(* autoscaled component that is idle comes back by itself.                 *)
StopsEveryComponent ==
  \A r \in Requests :
    Answered(r) /\ ~history[r].disturbed
      /\ req[r].op.verb = "stop" /\ req[r].op.scope = "environment" =>
      \A d \in LatestRadixDeployment(req[r].op.env)' :
        \A c \in rds'[req[r].op.env][d].comps :
          rds'[req[r].op.env][d].override[c] = 0

EnvironmentStopIsComplete == [][StopsEveryComponent]_vars

(* radixdeployment.go:78 of GetLatestRadixDeployment: "returns the last    *)
(* active Radix Deployment found in environment, will be nil if not found".*)
OnlyActiveIsPatched ==
  \A r \in Requests : req[r].pc = "patch" => req[r].snap.state = "active"
=============================================================================
