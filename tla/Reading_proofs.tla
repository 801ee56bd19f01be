---------------------------- MODULE Reading_proofs ----------------------------
(***************************************************************************)
(* The process ends in order, for any number of servers; an overview is    *)
(* whole or an error, and leaves no goroutine behind, for any number of    *)
(* applications and environments and whatever the limits of the groups.    *)
(*                                                                         *)
(* A step of the whole is a step of every part, or leaves that part alone, *)
(* so that the inductive invariant of a part is one of the whole.          *)
(***************************************************************************)
EXTENDS Reading, TLAPS

(* A step of the whole is one of each part, or leaves that part alone.     *)
LEMMA StepOfParts ==
  [AllNext]_allVars =>
    /\ [Next]_vars
    /\ [L!Next]_(L!vars)
    /\ [O!Next]_(O!vars)
    /\ [S!Next]_(S!vars)
  BY DEF AllNext, allVars, vars, logVars, overviewVars, serverVars, L!vars, O!vars, S!vars

(* The whole behaves like each of its parts, whose own theorems hold of it *)
(* for that reason.                                                        *)
THEOREM PartsTheorem == AllSpec => Spec /\ L!Spec /\ O!Spec /\ S!Spec
  <1>1. AllInit => Init /\ L!Init /\ O!Init /\ S!Init
    BY DEF AllInit
  <1> QED
    BY <1>1, StepOfParts, PTL DEF AllSpec, Spec, L!Spec, O!Spec, S!Spec
-----------------------------------------------------------------------------
(***************************************************************************)
(* The servers                                                             *)
(***************************************************************************)

(* Shutdown returns when the server has no request or time is over; once   *)
(* it was called no request begins.                                        *)
ServerInv ==
  /\ shutdown \in [Servers -> {"none", "called", "returned"}] /\ active \subseteq Servers
  /\ \A s \in Servers : shutdown[s] = "returned" => timedOut \/ s \notin active
  /\ process = "fatal" => bindFailed
  /\ process = "exited" => timedOut \/ active = {}

(* Every step of the servers and of the signal keeps the invariant.        *)
LEMMA ServerStep == ServerInv /\ [S!Next]_(S!vars) => ServerInv'
  <1> SUFFICES ASSUME ServerInv, [S!Next]_(S!vars) PROVE ServerInv'
    OBVIOUS
  <1>1. CASE UNCHANGED S!vars
    BY <1>1 DEF S!vars, ServerInv
  <1>2. ASSUME NEW s \in Servers, S!ServerStep(s) PROVE ServerInv'
    <2>1. CASE S!Start(s)
      BY <2>1 DEF S!Start, S!Fatal, S!Alive, ServerInv
    <2>2. CASE S!StopListening(s)
      BY <2>2 DEF S!StopListening, S!Fatal, S!Alive, ServerInv
    <2>3. CASE S!CallShutdown(s)
      BY <2>3 DEF S!CallShutdown, ServerInv
    <2>4. CASE S!ShutdownReturns(s)
      BY <2>4 DEF S!ShutdownReturns, ServerInv
    <2> QED
      BY <1>2, <2>1, <2>2, <2>3, <2>4 DEF S!ServerStep
  <1>3. ASSUME NEW s \in Servers, S!BeginRequest(s) PROVE ServerInv'
    BY <1>3 DEF S!BeginRequest, S!Alive, S!ShuttingDown, ServerInv
  <1>4. ASSUME NEW s \in Servers, S!EndRequest(s) PROVE ServerInv'
    BY <1>4 DEF S!EndRequest, S!Alive, ServerInv
  <1>5. CASE S!Notify \/ S!Signal \/ S!Timeout
    BY <1>5 DEF S!Notify, S!Signal, S!Timeout, ServerInv
  <1>6. CASE S!Exit
    BY <1>6 DEF S!Exit, S!MayExit, ServerInv
  <1> QED
    BY <1>1, <1>2, <1>3, <1>4, <1>5, <1>6 DEF S!Next

(* The process is fatal only when a server could not listen, and after a   *)
(* signal that it handles exits only when no request is under way or their *)
(* time is over (startServers, shutdownServersGracefulOnSignal).           *)
THEOREM EndsInOrderTheorem == AllSpec => []EndsInOrder
  <1>1. AllInit => ServerInv
    BY DEF AllInit, S!Init, ServerInv
  <1>2. ServerInv /\ [AllNext]_allVars => ServerInv'
    BY ServerStep, StepOfParts
  <1>3. ServerInv => EndsInOrder
    BY DEF ServerInv, EndsInOrder, S!EndsInOrder
  <1> QED
    BY <1>1, <1>2, <1>3, PTL DEF AllSpec
-----------------------------------------------------------------------------
(***************************************************************************)
(* The overview                                                            *)
(***************************************************************************)

Inner == Apps \X Envs
Working == {"queued", "running", "inner", "send"}

OverviewTypeOK ==
  /\ environments \in [Apps -> SUBSET Envs]
  /\ request \in [stage : {"none", "access", "jobs", "envs", "answered"}, jobs : BOOLEAN, envs : BOOLEAN,
                  answer : {"none", "OK", "Error"}]
  /\ wanted \in [O!Groups -> SUBSET O!Tasks]
  /\ task \in [O!Tasks -> Working \cup {"none", "ended"}]
  /\ channel \subseteq O!Tasks
  /\ found \in [granted : SUBSET Apps, envs : [Apps -> SUBSET Envs]]

(* Work is done only in a stage, by the goroutines of the stage and those  *)
(* of the groups that they wait for.                                       *)
Grouped ==
  /\ wanted[O!Stage] \subseteq Apps
  /\ \A a \in Apps : wanted[a] \subseteq {a} \X Envs
  /\ \A a \in Apps : task[a] # "none" => a \in wanted[O!Stage]
  /\ \A t \in Inner : task[t] \in Working => t \in wanted[t[1]] /\ task[t[1]] = "inner"
  /\ \A t \in O!Tasks : task[t] \in Working => request.stage \in O!Stages
  /\ \A t \in O!Tasks : request.stage = "none" => task[t] = "none"

(* What was listed of an application, with all there is, was handed over   *)
(* within its group, and is in the answer.                                 *)
Listed(a) == \A e \in environments[a] : <<a, e>> \in wanted[a]
Gathered(a) == Listed(a) /\ wanted[a] \subseteq channel
Whole(a) == wanted[a] \subseteq {a} \X found.envs[a] /\ environments[a] \subseteq found.envs[a]

Collected ==
  /\ request.stage # "answered" => request.answer = "none"
  /\ request.stage = "envs" =>
       /\ wanted[O!Stage] = found.granted
       /\ \A a \in Apps :
            /\ task[a] = "inner" =>
                 /\ Listed(a)
                 /\ \A t \in Inner : t[1] = a /\ t \in wanted[a] /\ task[t] = "ended" => t \in channel \/ a \in failed
            /\ task[a] = "send" => Gathered(a)
            /\ task[a] = "ended" => O!Stage \in failed \/ (a \in channel /\ Gathered(a))
  /\ request.answer = "OK" /\ request.envs => \A a \in found.granted : Whole(a)

OverviewInv == OverviewTypeOK /\ Grouped /\ Collected

(* Of each item: its group, and that no item is of two kinds.              *)
LEMMA TaskFacts ==
  /\ O!Tasks = Apps \cup Inner /\ O!Stage \in O!Groups /\ O!Stage \notin Apps /\ Apps \subseteq O!Groups
  /\ \A a \in Apps : a \in O!Tasks /\ a \notin Inner /\ O!GroupOf(a) = O!Stage
  /\ \A t \in Inner : t \in O!Tasks /\ t \notin Apps /\ O!GroupOf(t) = t[1] /\ t[1] \in Apps /\ t[2] \in Envs
  BY NamesAssumption DEF O!Tasks, Inner, O!Groups, O!GroupOf

(* No overview is under way in the beginning.                              *)
LEMMA OverviewInitially == AllInit => OverviewInv
  <1> SUFFICES ASSUME AllInit PROVE OverviewInv
    OBVIOUS
  <1>1. /\ environments = [a \in Apps |-> Envs]
        /\ request = [stage |-> "none", jobs |-> FALSE, envs |-> FALSE, answer |-> "none"]
        /\ wanted = [g \in O!Groups |-> {}] /\ task = [t \in O!Tasks |-> "none"]
        /\ channel = {} /\ found = [granted |-> {}, envs |-> [a \in Apps |-> {}]]
    BY DEF AllInit, O!Init, O!NoTasks, O!Nothing
  <1>2. OverviewTypeOK
    BY <1>1 DEF OverviewTypeOK, Working
  <1>3. Grouped
    BY <1>1, TaskFacts DEF Grouped, Working
  <1>4. Collected
    BY <1>1 DEF Collected
  <1> QED
    BY <1>2, <1>3, <1>4 DEF OverviewInv

(* A goroutine goes on, and may end with an error.                         *)
LEMMA GoroutineGoesOn ==
  ASSUME OverviewInv, NEW t \in O!Tasks, NEW s \in {"running", "send", "ended"}, task' = [task EXCEPT ![t] = s],
         UNCHANGED <<environments, request, wanted, found>>,
         task[t] \in Working, t \in Inner \/ task[t] # "inner",
         channel' \in {channel, channel \cup {t}},
         failed' \in {failed, failed \cup {O!GroupOf(t)}},
         request.stage = "envs" /\ s = "send" => t \in Inner,
         request.stage = "envs" /\ s = "ended" =>
           \/ O!GroupOf(t) \in failed'
           \/ t \in Inner /\ channel' = channel \cup {t}
           \/ t \in Apps /\ task[t] = "send" /\ channel' = channel \cup {t}
  PROVE  OverviewInv'
  <1>1. OverviewTypeOK /\ Grouped /\ Collected
    BY DEF OverviewInv
  <1>2. /\ task' \in [O!Tasks -> Working \cup {"none", "ended"}]
        /\ \A u \in O!Tasks : task'[u] = IF u = t THEN s ELSE task[u]
    BY <1>1 DEF OverviewTypeOK, Working
  <1>3. OverviewTypeOK'
    BY <1>1, <1>2 DEF OverviewTypeOK
  <1>4. Grouped'
    <2>1. \A a \in Apps : task'[a] # "none" => a \in wanted[O!Stage]
      BY <1>1, <1>2, TaskFacts DEF Grouped, Working
    <2>2. \A u \in Inner : task'[u] \in Working => u \in wanted[u[1]] /\ task'[u[1]] = "inner"
      BY <1>1, <1>2, TaskFacts DEF Grouped, Working
    <2>3. \A u \in O!Tasks : task'[u] \in Working => request.stage \in O!Stages
      BY <1>1, <1>2 DEF Grouped, Working
    <2>4. \A u \in O!Tasks : request.stage = "none" => task'[u] = "none"
      BY <1>1 DEF Grouped, O!Stages
    <2> QED
      BY <1>1, <2>1, <2>2, <2>3, <2>4 DEF Grouped
  <1>5. Collected'
    <2>1. ASSUME NEW a \in Apps, request.stage = "envs"
          PROVE  /\ task'[a] = "inner" =>
                      /\ Listed(a)
                      /\ \A u \in Inner : u[1] = a /\ u \in wanted[a] /\ task'[u] = "ended" => u \in channel' \/ a \in failed'
                 /\ task'[a] = "send" => Gathered(a)'
                 /\ task'[a] = "ended" => O!Stage \in failed' \/ (a \in channel' /\ Gathered(a)')
      <3>1. channel \subseteq channel' /\ failed \subseteq failed'
        OBVIOUS
      <3>2. Gathered(a) => Gathered(a)'
        BY <3>1 DEF Gathered, Listed
      <3> QED
        BY <1>1, <1>2, <2>1, <3>1, <3>2, TaskFacts DEF Collected
    <2> QED
      BY <1>1, <2>1 DEF Collected, Listed, Whole
  <1> QED
    BY <1>3, <1>4, <1>5 DEF OverviewInv

(* The steps of a goroutine that leave the lists of environments alone.    *)
GoesOn(t) ==
  \/ O!Go(t) \/ O!CallFails(t) \/ O!Send(t) \/ O!GetEnvironment(t)
  \/ t \in Apps /\ (O!CheckAccess(t) \/ O!GetLatestJob(t))

(* They keep the invariant.                                                *)
LEMMA GoroutineStep ==
  ASSUME OverviewInv, NEW t \in O!Tasks, GoesOn(t)
  PROVE  OverviewInv'
  <1> USE TaskFacts
  <1>1. OverviewTypeOK /\ Grouped /\ Collected
    BY DEF OverviewInv
  <1>2. t \in Apps \/ t \in Inner
    OBVIOUS
  <1>3. CASE O!Go(t)
    <2>1. /\ task' = [task EXCEPT ![t] = "running"] /\ task[t] = "queued"
          /\ UNCHANGED <<environments, request, wanted, channel, failed, found>>
      BY <1>3 DEF O!Go
    <2> QED
      BY <2>1, GoroutineGoesOn DEF Working
  <1>4. CASE O!CallFails(t)
    <2>1. /\ task' = [task EXCEPT ![t] = "ended"] /\ task[t] = "running"
          /\ UNCHANGED <<environments, request, wanted, channel, found>> /\ failed' = failed \cup {O!GroupOf(t)}
      BY <1>4 DEF O!CallFails, O!End
    <2> QED
      BY <2>1, GoroutineGoesOn DEF Working
  <1>5. CASE O!Send(t)
    <2>1. /\ task' = [task EXCEPT ![t] = "ended"] /\ task[t] = "send" /\ channel' = channel \cup {t}
          /\ UNCHANGED <<environments, request, wanted, failed, found>>
      BY <1>5 DEF O!Send, O!End
    <2> QED
      BY <1>2, <2>1, GoroutineGoesOn DEF Working
  <1>6. CASE O!GetEnvironment(t)
    <2>1. /\ t \in Inner /\ task[t] = "running"
          /\ UNCHANGED <<environments, request, wanted, channel, found>>
          /\ \/ task' = [task EXCEPT ![t] = "send"] /\ UNCHANGED failed
             \/ task' = [task EXCEPT ![t] = "ended"] /\ failed' = failed \cup {O!GroupOf(t)}
      BY <1>2, <1>6 DEF O!GetEnvironment, O!End
    <2>2. CASE task' = [task EXCEPT ![t] = "send"] /\ UNCHANGED failed
      BY <2>1, <2>2, GoroutineGoesOn DEF Working
    <2>3. CASE task' = [task EXCEPT ![t] = "ended"] /\ failed' = failed \cup {O!GroupOf(t)}
      BY <2>1, <2>3, GoroutineGoesOn DEF Working
    <2> QED
      BY <2>1, <2>2, <2>3
  <1>7. CASE t \in Apps /\ (O!CheckAccess(t) \/ O!GetLatestJob(t))
    <2>1. /\ request.stage # "envs" /\ task[t] = "running"
          /\ UNCHANGED <<environments, request, wanted, channel, failed, found>>
          /\ \/ task' = [task EXCEPT ![t] = "send"]
             \/ task' = [task EXCEPT ![t] = "ended"]
      BY <1>7 DEF O!CheckAccess, O!GetLatestJob, O!End
    <2>2. CASE task' = [task EXCEPT ![t] = "send"]
      BY <2>1, <2>2, GoroutineGoesOn DEF Working
    <2>3. CASE task' = [task EXCEPT ![t] = "ended"]
      BY <2>1, <2>3, GoroutineGoesOn DEF Working
    <2> QED
      BY <2>1, <2>2, <2>3
  <1> QED
    BY <1>3, <1>4, <1>5, <1>6, <1>7 DEF GoesOn

(* An application's goroutine lists the environments, and waits from then  *)
(* on for one goroutine of each.                                           *)
LEMMA ListEnvironmentsStep ==
  ASSUME OverviewInv, NEW a \in Apps, O!ListEnvironments(a)
  PROVE  OverviewInv'
  <1>1. OverviewTypeOK /\ Grouped /\ Collected
    BY DEF OverviewInv
  <1> DEFINE items == {a} \X environments[a]
  <1>2. /\ items \subseteq Inner /\ \A e \in environments[a] : <<a, e>> \in items
        /\ \A u \in items : u[1] = a
    <2>1. environments[a] \subseteq Envs
      BY <1>1 DEF OverviewTypeOK
    <2> QED
      BY <2>1 DEF Inner
  <1>3. /\ request.stage = "envs" /\ task[a] = "running"
        /\ wanted' = [wanted EXCEPT ![a] = items]
        /\ task' = [u \in O!Tasks |-> IF u = a THEN "inner" ELSE IF u \in items THEN "queued" ELSE task[u]]
        /\ UNCHANGED <<environments, request, channel, failed, found>>
    BY DEF O!ListEnvironments
  <1> HIDE DEF items
  <1>4. /\ \A u \in Apps : task'[u] = IF u = a THEN "inner" ELSE task[u]
        /\ \A u \in Inner : task'[u] = IF u \in items THEN "queued" ELSE task[u]
    BY <1>2, <1>3, TaskFacts
  <1>5. /\ wanted'[a] = items
        /\ \A g \in O!Groups : g # a => wanted'[g] = wanted[g]
        /\ a # O!Stage /\ wanted'[O!Stage] = wanted[O!Stage]
    BY <1>1, <1>3, TaskFacts DEF OverviewTypeOK
  <1>6. OverviewTypeOK'
    <2>1. task' \in [O!Tasks -> Working \cup {"none", "ended"}]
      BY <1>1, <1>3 DEF OverviewTypeOK, Working
    <2>2. wanted' \in [O!Groups -> SUBSET O!Tasks]
      BY <1>1, <1>2, <1>3, TaskFacts DEF OverviewTypeOK
    <2> QED
      BY <1>1, <1>3, <2>1, <2>2 DEF OverviewTypeOK
  <1>7. Grouped'
    <2>1. \A b \in Apps : task'[b] # "none" => b \in wanted'[O!Stage]
      BY <1>1, <1>3, <1>4, <1>5 DEF Grouped
    <2>2. \A u \in Inner : task'[u] \in Working => u \in wanted'[u[1]] /\ task'[u[1]] = "inner"
      <3> SUFFICES ASSUME NEW u \in Inner, task'[u] \in Working
                   PROVE  u \in wanted'[u[1]] /\ task'[u[1]] = "inner"
        OBVIOUS
      <3>1. CASE u \in items
        BY <1>2, <1>4, <1>5, <3>1
      <3>2. CASE u \notin items
        <4>1. task[u] \in Working
          BY <1>4, <3>2
        <4>2. u \in wanted[u[1]] /\ task[u[1]] = "inner" /\ u[1] # a /\ u[1] \in Apps
          BY <1>1, <1>3, <4>1, TaskFacts DEF Grouped
        <4> QED
          BY <1>4, <1>5, <4>2, TaskFacts
      <3> QED
        BY <3>1, <3>2
    <2>3. /\ \A u \in O!Tasks : task'[u] \in Working => request'.stage \in O!Stages
          /\ \A u \in O!Tasks : request'.stage = "none" => task'[u] = "none"
      BY <1>3 DEF O!Stages
    <2>4. \A b \in Apps : wanted'[b] \subseteq {b} \X Envs
      BY <1>1, <1>5, TaskFacts DEF Grouped, OverviewTypeOK, items
    <2> QED
      BY <1>1, <1>5, <2>1, <2>2, <2>3, <2>4 DEF Grouped
  <1>8. Collected'
    <2>1. ASSUME NEW b \in Apps
          PROVE  /\ task'[b] = "inner" =>
                      /\ Listed(b)'
                      /\ \A u \in Inner : u[1] = b /\ u \in wanted'[b] /\ task'[u] = "ended" => u \in channel \/ b \in failed
                 /\ task'[b] = "send" => Gathered(b)'
                 /\ task'[b] = "ended" => O!Stage \in failed \/ (b \in channel /\ Gathered(b)')
      <3>1. CASE b = a
        BY <1>2, <1>3, <1>4, <1>5, <3>1 DEF Listed
      <3>2. CASE b # a
        <4>1. wanted'[b] = wanted[b] /\ task'[b] = task[b]
          BY <1>4, <1>5, <3>2, TaskFacts
        <4>2. \A u \in Inner : u[1] = b => task'[u] = task[u]
          BY <1>2, <1>4, <3>2
        <4>3. Listed(b)' = Listed(b) /\ Gathered(b)' = Gathered(b)
          BY <1>3, <4>1 DEF Listed, Gathered
        <4> QED
          BY <1>1, <1>3, <4>1, <4>2, <4>3 DEF Collected
      <3> QED
        BY <3>1, <3>2
    <2> QED
      BY <1>1, <1>3, <1>5, <2>1 DEF Collected
  <1> QED
    BY <1>6, <1>7, <1>8 DEF OverviewInv

(* An inner group has ended: its environments are gathered, or it failed.  *)
LEMMA WaitInnerStep ==
  ASSUME OverviewInv, NEW a \in Apps, O!WaitInner(a)
  PROVE  OverviewInv'
  <1> USE TaskFacts
  <1>1. OverviewTypeOK /\ Grouped /\ Collected
    BY DEF OverviewInv
  <1>2. /\ task[a] = "inner" /\ \A t \in wanted[a] : task[t] = "ended"
        /\ UNCHANGED <<environments, request, wanted>>
    BY DEF O!WaitInner, O!WaitReturns, O!Ended
  <1>3. \A t \in Inner : t[1] = a => task[t] \notin Working
    BY <1>1, <1>2 DEF Grouped, Working
  <1>4. PICK s \in {"send", "ended"} :
          /\ task' = [task EXCEPT ![a] = s]
          /\ s = "ended" => failed' = failed \cup {O!Stage}
          /\ s = "send" => UNCHANGED failed /\ a \notin failed
          /\ UNCHANGED <<channel, found>>
    BY DEF O!WaitInner, O!End, O!InnerFails
  <1>5. /\ task' \in [O!Tasks -> Working \cup {"none", "ended"}]
        /\ \A t \in O!Tasks : task'[t] = IF t = a THEN s ELSE task[t]
    BY <1>1, <1>4 DEF OverviewTypeOK, Working
  <1>6. OverviewTypeOK'
    BY <1>1, <1>2, <1>4, <1>5 DEF OverviewTypeOK
  <1>7. Grouped'
    <2>1. \A b \in Apps : task'[b] # "none" => b \in wanted[O!Stage]
      BY <1>1, <1>2, <1>5 DEF Grouped
    <2>2. \A t \in Inner : task'[t] \in Working => t \in wanted[t[1]] /\ task'[t[1]] = "inner"
      BY <1>1, <1>3, <1>5 DEF Grouped
    <2>3. \A t \in O!Tasks : task'[t] \in Working => request.stage \in O!Stages
      BY <1>1, <1>2, <1>5 DEF Grouped, Working
    <2>4. \A t \in O!Tasks : request.stage = "none" => task'[t] = "none"
      BY <1>1, <1>2, <1>5 DEF Grouped
    <2> QED
      BY <1>1, <1>2, <2>1, <2>2, <2>3, <2>4 DEF Grouped
  <1>8. Collected'
    <2>1. ASSUME request.stage = "envs", s = "send" PROVE Gathered(a)
      <3>1. \A t \in wanted[a] : t \in Inner /\ t[1] = a
        BY <1>1 DEF Grouped, Inner
      <3>2. \A t \in wanted[a] : t \in channel
        BY <1>1, <1>2, <1>4, <2>1, <3>1 DEF Collected
      <3> QED
        BY <1>1, <1>2, <2>1, <3>2 DEF Collected, Gathered
    <2>2. ASSUME NEW b \in Apps, request.stage = "envs"
          PROVE  /\ task'[b] = "inner" =>
                      /\ Listed(b)
                      /\ \A t \in Inner : t[1] = b /\ t \in wanted[b] /\ task'[t] = "ended" => t \in channel \/ b \in failed'
                 /\ task'[b] = "send" => Gathered(b)
                 /\ task'[b] = "ended" => O!Stage \in failed' \/ (b \in channel /\ Gathered(b))
      <3>1. CASE b = a
        BY <1>2, <1>4, <1>5, <2>1, <2>2, <3>1
      <3>2. CASE b # a
        <4>1. failed \subseteq failed' /\ task'[b] = task[b]
          BY <1>2, <1>4, <1>5, <3>2
        <4>2. \A t \in Inner : task'[t] = task[t]
          BY <1>5
        <4> QED
          BY <1>1, <2>2, <4>1, <4>2 DEF Collected
      <3> QED
        BY <3>1, <3>2
    <2>3. request.answer = "OK" => request.stage = "answered"
      BY <1>1 DEF Collected
    <2>4. request.stage \in O!Stages
      BY <1>1, <1>2 DEF Grouped, Working
    <2>5. request.answer # "OK"
      BY <2>3, <2>4 DEF O!Stages
    <2> QED
      BY <1>1, <1>2, <1>4, <2>2, <2>5 DEF Collected, Listed, Gathered
  <1> QED
    BY <1>6, <1>7, <1>8 DEF OverviewInv

(* All of a stage have ended: nothing is under way, whatever comes next.   *)
LEMMA WaitStep ==
  ASSUME OverviewInv, O!Wait
  PROVE  OverviewInv'
  <1> USE TaskFacts
  <1>1. OverviewTypeOK /\ Grouped /\ Collected
    BY DEF OverviewInv
  <1>2. /\ request.stage \in O!Stages /\ \A a \in wanted[O!Stage] : task[a] = "ended"
        /\ UNCHANGED environments
    BY DEF O!Wait, O!WaitReturns, O!Ended
  <1>3. \A t \in O!Tasks : task[t] \notin Working
    <2>1. \A a \in Apps : task[a] \notin Working
      BY <1>1, <1>2 DEF Grouped, Working
    <2>2. \A t \in Inner : task[t] \notin Working
      BY <1>1, <2>1 DEF Grouped, Working
    <2> QED
      BY <2>1, <2>2
  <1>4. request.answer = "none" /\ request.stage # "answered" /\ request.stage # "none"
    BY <1>1, <1>2 DEF Collected, O!Stages
  <1>5. PICK granted \in SUBSET Apps :
          /\ request.stage # "access" => granted = found.granted
          /\ \/ O!Stage \in failed /\ O!Answer("Error") /\ UNCHANGED found
             \/ O!Stage \notin failed /\ found' = [granted |-> granted, envs |-> [a \in Apps |-> O!EnvironmentsOf(a)]] /\ O!NextStage(granted)
    <2> DEFINE granted == IF request.stage = "access" THEN O!InChannel(O!Stage) ELSE found.granted
    <2>1. O!InChannel(O!Stage) \subseteq Apps
      <3> SUFFICES ASSUME NEW t \in O!InChannel(O!Stage) PROVE t \in Apps
        OBVIOUS
      <3>1. t \in O!Tasks /\ O!GroupOf(t) = O!Stage
        BY <1>1 DEF O!InChannel, OverviewTypeOK
      <3> QED
        BY <3>1
    <2>2. granted \in SUBSET Apps
      BY <1>1, <2>1 DEF OverviewTypeOK
    <2>3. IF O!Stage \in failed THEN O!Answer("Error") /\ UNCHANGED found
          ELSE found' = [granted |-> granted, envs |-> [a \in Apps |-> O!EnvironmentsOf(a)]] /\ O!NextStage(granted)
      BY DEF O!Wait
    <2>4. request.stage # "access" => granted = found.granted
      OBVIOUS
    <2> HIDE DEF granted
    <2> QED
      BY <2>2, <2>3, <2>4
  <1>6. CASE O!Stage \in failed /\ O!Answer("Error") /\ UNCHANGED found
    <2>1. /\ request' = [request EXCEPT !.stage = "answered", !.answer = "Error"]
          /\ UNCHANGED <<wanted, task, channel, failed, found>>
      BY <1>6 DEF O!Answer
    <2>2. /\ request' \in [stage : {"none", "access", "jobs", "envs", "answered"}, jobs : BOOLEAN, envs : BOOLEAN,
                          answer : {"none", "OK", "Error"}]
          /\ request'.stage = "answered" /\ request'.answer = "Error"
      BY <1>1, <2>1 DEF OverviewTypeOK
    <2>3. OverviewTypeOK' /\ Grouped'
      BY <1>1, <1>2, <1>3, <2>1, <2>2 DEF OverviewTypeOK, Grouped
    <2>4. Collected'
      BY <2>2 DEF Collected
    <2> QED
      BY <2>3, <2>4 DEF OverviewInv
  <1>7. ASSUME O!Stage \notin failed, found' = [granted |-> granted, envs |-> [a \in Apps |-> O!EnvironmentsOf(a)]], O!NextStage(granted)
        PROVE  OverviewInv'
    <2>0. \A a \in Apps : O!EnvironmentsOf(a) \in SUBSET Envs
      <3>1. ASSUME NEW a \in Apps, NEW t \in O!InChannel(a) PROVE t \in Inner
        BY <1>1, <3>1 DEF O!InChannel, OverviewTypeOK
      <3> QED
        BY <3>1 DEF O!EnvironmentsOf
    <2>1. /\ found' \in [granted : SUBSET Apps, envs : [Apps -> SUBSET Envs]]
          /\ found'.granted = granted /\ \A a \in Apps : found'.envs[a] = O!EnvironmentsOf(a)
      BY <1>7, <2>0
    <2>2. ASSUME NEW s \in {"jobs", "envs"}, O!Begin(s, granted)
          PROVE  OverviewInv'
      <3>1. /\ request' = [request EXCEPT !.stage = s]
            /\ wanted' = [wanted EXCEPT ![O!Stage] = granted]
            /\ task' = [t \in O!Tasks |-> IF t \in granted THEN "queued" ELSE "none"]
            /\ channel' = {} /\ failed' = {}
        BY <2>2 DEF O!Begin
      <3>2. /\ request' \in [stage : {"none", "access", "jobs", "envs", "answered"}, jobs : BOOLEAN, envs : BOOLEAN,
                            answer : {"none", "OK", "Error"}]
            /\ request'.stage = s /\ request'.answer = "none"
        BY <1>1, <1>4, <3>1 DEF OverviewTypeOK
      <3>3. wanted' \in [O!Groups -> SUBSET O!Tasks] /\ wanted'[O!Stage] = granted
        BY <1>1, <3>1 DEF OverviewTypeOK
      <3>4. OverviewTypeOK'
        BY <1>1, <1>2, <2>1, <3>1, <3>2, <3>3 DEF OverviewTypeOK, Working
      <3>5. Grouped'
        BY <1>1, <3>1, <3>2, <3>3 DEF Grouped, Working, O!Stages, OverviewTypeOK
      <3>6. Collected'
        BY <2>1, <3>1, <3>2, <3>3 DEF Collected
      <3> QED
        BY <3>4, <3>5, <3>6 DEF OverviewInv
    <2>3. ASSUME request.stage = "envs" \/ ~request.envs, O!Answer("OK")
          PROVE  OverviewInv'
      <3>1. /\ request' = [request EXCEPT !.stage = "answered", !.answer = "OK"]
            /\ UNCHANGED <<wanted, task, channel, failed>>
        BY <2>3 DEF O!Answer
      <3>2. /\ request' \in [stage : {"none", "access", "jobs", "envs", "answered"}, jobs : BOOLEAN, envs : BOOLEAN,
                            answer : {"none", "OK", "Error"}]
            /\ request'.stage = "answered" /\ request'.envs = request.envs
        BY <1>1, <3>1 DEF OverviewTypeOK
      <3>3. OverviewTypeOK' /\ Grouped'
        BY <1>1, <1>2, <1>3, <2>1, <3>1, <3>2 DEF OverviewTypeOK, Grouped
      <3>4. request.stage = "envs" => \A a \in granted : Whole(a)'
        <4> SUFFICES ASSUME request.stage = "envs", NEW a \in granted PROVE Whole(a)'
          OBVIOUS
        <4>1. a \in wanted[O!Stage] /\ a \in Apps
          BY <1>1, <1>5 DEF Collected
        <4>2. a \in channel /\ Gathered(a)
          BY <1>1, <1>2, <1>7, <4>1 DEF Collected
        <4>3. ASSUME NEW t \in wanted[a] PROVE t \in {a} \X found'.envs[a] /\ t[2] \in found'.envs[a]
          <5>1. t \in {a} \X Envs /\ t \in Inner /\ t \in channel
            BY <1>1, <4>1, <4>2 DEF Grouped, Gathered, Inner
          <5>2. t \in O!InChannel(a)
            BY <5>1 DEF O!InChannel
          <5>3. t[2] \in found'.envs[a]
            <6>1. O!EnvironmentsOf(a) = {u[2] : u \in O!InChannel(a)}
              BY <4>2 DEF O!EnvironmentsOf
            <6>2. found'.envs[a] = O!EnvironmentsOf(a)
              BY <2>1, <4>1
            <6> QED
              BY <5>2, <6>1, <6>2
          <5> QED
            BY <5>1, <5>3
        <4>4. ASSUME NEW e \in environments[a] PROVE e \in found'.envs[a]
          <5>1. <<a, e>> \in wanted[a]
            BY <4>2 DEF Gathered, Listed
          <5> QED
            BY <4>3, <5>1
        <4> QED
          BY <1>2, <3>1, <4>3, <4>4 DEF Whole
      <3>5. request.envs => \A a \in granted : Whole(a)'
        BY <2>3, <3>4
      <3> QED
        BY <2>1, <3>2, <3>3, <3>5 DEF OverviewInv, Collected
    <2>4. \/ \E s \in {"jobs", "envs"} : O!Begin(s, granted)
          \/ (request.stage = "envs" \/ ~request.envs) /\ O!Answer("OK")
      BY <1>1, <1>7 DEF O!NextStage, OverviewTypeOK
    <2> QED
      BY <2>2, <2>3, <2>4
  <1> QED
    BY <1>5, <1>6, <1>7

(* A search begins with the access checks of what it matched.              *)
LEMMA SearchStep ==
  ASSUME OverviewInv, NEW withJobs \in BOOLEAN, NEW withEnvs \in BOOLEAN, O!Search(withJobs, withEnvs)
  PROVE  OverviewInv'
  <1> USE TaskFacts
  <1>1. OverviewTypeOK /\ Grouped /\ Collected
    BY DEF OverviewInv
  <1>2. PICK matched \in SUBSET Apps :
          /\ request.stage = "none"
          /\ request' = [stage |-> "access", jobs |-> withJobs, envs |-> withEnvs, answer |-> "none"]
          /\ wanted' = [wanted EXCEPT ![O!Stage] = matched]
          /\ task' = [t \in O!Tasks |-> IF t \in matched THEN "queued" ELSE "none"]
          /\ UNCHANGED <<environments, channel, failed, found>>
    BY DEF O!Search
  <1>3. wanted' \in [O!Groups -> SUBSET O!Tasks] /\ wanted'[O!Stage] = matched
    BY <1>1, <1>2 DEF OverviewTypeOK
  <1>4. OverviewTypeOK'
    BY <1>1, <1>2, <1>3 DEF OverviewTypeOK, Working
  <1>5. Grouped'
    BY <1>1, <1>2, <1>3 DEF Grouped, Working, O!Stages, OverviewTypeOK
  <1>6. Collected'
    BY <1>2 DEF Collected
  <1> QED
    BY <1>4, <1>5, <1>6 DEF OverviewInv

(* An environment that is deleted was found, or need not be.               *)
LEMMA DeleteEnvironmentStep ==
  ASSUME OverviewInv, NEW a \in Apps, NEW e \in Envs, O!DeleteEnvironment(a, e)
  PROVE  OverviewInv'
  <1>1. OverviewTypeOK /\ Grouped /\ Collected
    BY DEF OverviewInv
  <1>2. /\ environments' = [environments EXCEPT ![a] = @ \ {e}]
        /\ UNCHANGED <<request, wanted, task, channel, failed, found>>
    BY DEF O!DeleteEnvironment
  <1>3. environments' \in [Apps -> SUBSET Envs] /\ \A b \in Apps : environments'[b] \subseteq environments[b]
    BY <1>1, <1>2 DEF OverviewTypeOK
  <1>4. OverviewTypeOK' /\ Grouped'
    BY <1>1, <1>2, <1>3 DEF OverviewTypeOK, Grouped
  <1>5. /\ found.granted \subseteq Apps
        /\ \A b \in Apps : (Listed(b) => Listed(b)') /\ (Gathered(b) => Gathered(b)') /\ (Whole(b) => Whole(b)')
    BY <1>1, <1>2, <1>3 DEF OverviewTypeOK, Listed, Gathered, Whole
  <1>6. Collected'
    BY <1>1, <1>2, <1>3, <1>5 DEF Collected
  <1> QED
    BY <1>4, <1>6 DEF OverviewInv

(* Every step of the overview keeps the invariant.                        *)
LEMMA OverviewStep == OverviewInv /\ [O!Next]_(O!vars) => OverviewInv'
  <1> SUFFICES ASSUME OverviewInv, [O!Next]_(O!vars) PROVE OverviewInv'
    OBVIOUS
  <1>1. CASE UNCHANGED O!vars
    BY <1>1 DEF O!vars, OverviewInv, OverviewTypeOK, Grouped, Collected, Listed, Gathered, Whole
  <1>2. CASE O!ShowApplications \/ O!SearchApplications
    BY <1>2, SearchStep DEF O!ShowApplications, O!SearchApplications
  <1>3. CASE O!Wait
    BY <1>3, WaitStep
  <1>4. ASSUME NEW t \in O!Tasks, O!Goroutine(t) PROVE OverviewInv'
    <2>1. CASE t \in Apps /\ O!ListEnvironments(t)
      BY <2>1, ListEnvironmentsStep
    <2>2. CASE t \in Apps /\ O!WaitInner(t)
      BY <2>2, WaitInnerStep
    <2>3. CASE GoesOn(t)
      BY <2>3, GoroutineStep
    <2> QED
      BY <1>4, <2>1, <2>2, <2>3 DEF O!Goroutine, GoesOn
  <1>5. ASSUME NEW a \in Apps, NEW e \in Envs, O!DeleteEnvironment(a, e) PROVE OverviewInv'
    BY <1>5, DeleteEnvironmentStep
  <1> QED
    BY <1>1, <1>2, <1>3, <1>4, <1>5 DEF O!Next

(* The inductive invariant of an overview: who works is waited for, and    *)
(* what was handed over is what there was.                                 *)
THEOREM OverviewInvariant == AllSpec => []OverviewInv
  <1>1. OverviewInv /\ [AllNext]_allVars => OverviewInv'
    BY OverviewStep, StepOfParts
  <1> QED
    BY <1>1, OverviewInitially, PTL DEF AllSpec

(* A successful overview that was asked for environments has every one     *)
(* that was listed of each application, and every one that is there,       *)
(* however the goroutines are interleaved, whichever of their calls fail   *)
(* and whatever is deleted meanwhile (getEnvironmentsForApplications).     *)
THEOREM AnswerTheorem == AllSpec => []AnswerIsComplete
  <1>1. OverviewInv => AnswerIsComplete
    BY DEF OverviewInv, Collected, Whole, AnswerIsComplete, O!AnswerIsComplete
  <1> QED
    BY <1>1, OverviewInvariant, PTL

(* No goroutine, of a stage or of a group within, is left when the handler *)
(* has answered, be it with an error (GetApplications).                    *)
THEOREM NothingLeftTheorem == AllSpec => []NothingLeftBehind
  <1>1. OverviewInv => NothingLeftBehind
    BY DEF OverviewInv, OverviewTypeOK, Grouped, Working, O!Stages, NothingLeftBehind, O!NothingLeftBehind
  <1> QED
    BY <1>1, OverviewInvariant, PTL
=============================================================================
