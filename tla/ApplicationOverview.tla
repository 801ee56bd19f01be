------------------------- MODULE ApplicationOverview -------------------------
(***************************************************************************)
(* GetApplications (api/applications/get_applications_handler.go): the     *)
(* applications a user may see, with their latest jobs and environments.   *)
(*                                                                         *)
(* Three groups of goroutines run one after the other. Those of the last   *)
(* each run a group of their own. A goroutine hands over its result in a   *)
(* channel that is read when all of its group have ended.                  *)
(***************************************************************************)
EXTENDS Naturals, FiniteSets

CONSTANTS
    Apps,            \* the registered applications
    Envs,            \* names of environments
    AccessLimit,     \* goroutines at a time: 25 in filterRadixRegByAccess and for the jobs,
    OuterLimit,      \* 10 in getEnvironmentsForApplications,
    InnerLimit       \* 5 in getEnvironmentsForApplication

Tasks == Apps \cup Apps \X Envs
Stages == {"access", "jobs", "envs"}

VARIABLES
    environments,    \* the environments of each application
    request,         \* what is asked for, and how far the handler has come
    wanted,          \* the items of the groups under way: of the stage, and of each application
    task,            \* the goroutine of each item
    channel,         \* the items handed over; what an application hands over are those of its own group
    failed,          \* the groups with an error
    found            \* what the stages have read from their channels

vars == <<environments, request, wanted, task, channel, failed, found>>

Stage == "stage"     \* the outer group; the inner ones are named by their applications
Groups == {Stage} \cup Apps
GroupOf(t) == IF t \in Apps THEN Stage ELSE t[1]

NoTasks == [t \in Tasks |-> "none"]
Nothing == [granted |-> {}, envs |-> [a \in Apps |-> {}]]

Limit(g) ==
    IF g # Stage THEN InnerLimit ELSE IF request.stage = "envs" THEN OuterLimit ELSE AccessLimit

\* mutant: results are handed over one at a time
MutantCapacity(g) == 1

\* make(chan ..., len(...)); the jobs are stored in a map instead.
Capacity(g) == Cardinality(wanted[g])

Running(g) == {t \in wanted[g] : task[t] \in {"running", "inner", "send"}}
InChannel(g) == {t \in channel : GroupOf(t) = g}
Ended(g) == \A t \in wanted[g] : task[t] = "ended"

Begin(stage, items) ==
    /\ request' = [request EXCEPT !.stage = stage]
    /\ wanted' = [wanted EXCEPT ![Stage] = items]
    /\ task' = [t \in Tasks |-> IF t \in items THEN "queued" ELSE "none"]
    /\ channel' = {} /\ failed' = {}

Answer(a) ==
    /\ request' = [request EXCEPT !.stage = "answered", !.answer = a]
    /\ UNCHANGED <<wanted, task, channel, failed>>

-----------------------------------------------------------------------------
(* The request *)

\* No names, no search; otherwise the registrations are listed and matched.
Search(withJobs, withEnvs) ==
    /\ request.stage = "none"
    /\ \E matched \in SUBSET Apps :
          /\ request' = [stage |-> "access", jobs |-> withJobs, envs |-> withEnvs, answer |-> "none"]
          /\ wanted' = [wanted EXCEPT ![Stage] = matched]
          /\ task' = [t \in Tasks |-> IF t \in matched THEN "queued" ELSE "none"]
    /\ UNCHANGED <<environments, channel, failed, found>>

ShowApplications == Search(FALSE, FALSE)
SearchApplications == \E withJobs, withEnvs \in BOOLEAN : Search(withJobs, withEnvs)

\* errgroup: Go waits while the limit is reached.
Go(t) ==
    LET g == GroupOf(t)
    IN  /\ task[t] = "queued" /\ Cardinality(Running(g)) < Limit(g)
        /\ task' = [task EXCEPT ![t] = "running"]
        /\ UNCHANGED <<environments, request, wanted, channel, failed, found>>

End(t, err) ==
    /\ task' = [task EXCEPT ![t] = "ended"]
    /\ failed' = IF err THEN failed \cup {GroupOf(t)} ELSE failed

\* An error of the API server, or of a client that has gone.
CallFails(t) ==
    /\ task[t] = "running" /\ End(t, TRUE)
    /\ UNCHANGED <<environments, request, wanted, channel, found>>

\* The access check: none for a registration that is not reconciled.
CheckAccess(a) ==
    /\ request.stage = "access" /\ task[a] = "running"
    /\ \/ End(a, FALSE)
       \/ task' = [task EXCEPT ![a] = "send"] /\ UNCHANGED failed
    /\ UNCHANGED <<environments, request, wanted, channel, found>>

\* The latest job of those that have started, if there is one, goes into a map.
GetLatestJob(a) ==
    /\ request.stage = "jobs" /\ task[a] = "running"
    /\ End(a, FALSE)
    /\ UNCHANGED <<environments, request, wanted, channel, found>>

ListEnvironments(a) ==
    /\ request.stage = "envs" /\ task[a] = "running"
    /\ wanted' = [wanted EXCEPT ![a] = {a} \X environments[a]]
    /\ task' = [t \in Tasks |-> IF t = a THEN "inner"
                                ELSE IF t \in {a} \X environments[a] THEN "queued" ELSE task[t]]
    /\ UNCHANGED <<environments, request, channel, failed, found>>

\* mutant: an environment that is not found is left out
MutantGetEnvironment(t) ==
    /\ t \notin Apps /\ task[t] = "running"
    /\ IF t[2] \in environments[t[1]] THEN task' = [task EXCEPT ![t] = "send"] /\ UNCHANGED failed
       ELSE End(t, FALSE)
    /\ UNCHANGED <<environments, request, wanted, channel, found>>

\* An environment that was deleted since it was listed is an error.
GetEnvironment(t) ==
    /\ t \notin Apps /\ task[t] = "running"
    /\ IF t[2] \in environments[t[1]] THEN task' = [task EXCEPT ![t] = "send"] /\ UNCHANGED failed
       ELSE End(t, TRUE)
    /\ UNCHANGED <<environments, request, wanted, channel, found>>

Send(t) ==
    /\ task[t] = "send" /\ Cardinality(InChannel(GroupOf(t))) < Capacity(GroupOf(t))
    /\ channel' = channel \cup {t}
    /\ End(t, FALSE)
    /\ UNCHANGED <<environments, request, wanted, found>>

-----------------------------------------------------------------------------
(* The end of a group *)

\* mutant: the first error ends the waiting
MutantWaitReturns(g) == Ended(g) \/ g \in failed

WaitReturns(g) == Ended(g)

InnerFails(a) == a \in failed

\* The inner group has ended; its environments are to be handed over, or its error.
WaitInner(a) ==
    /\ task[a] = "inner" /\ WaitReturns(a)
    /\ IF InnerFails(a)
       THEN End(a, TRUE)
       ELSE task' = [task EXCEPT ![a] = "send"] /\ UNCHANGED failed
    /\ UNCHANGED <<environments, request, wanted, channel, found>>

\* The environments that were handed over for an application.
EnvironmentsOf(a) ==
    IF request.stage = "envs" /\ a \in channel THEN {t[2] : t \in InChannel(a)} ELSE {}

NextStage(granted) ==
    IF request.stage = "access" /\ request.jobs THEN Begin("jobs", granted)
    ELSE IF request.stage # "envs" /\ request.envs THEN Begin("envs", granted)
    ELSE Answer("OK")

Wait ==
    /\ request.stage \in Stages /\ WaitReturns(Stage)
    /\ LET granted == IF request.stage = "access" THEN InChannel(Stage) ELSE found.granted
       IN  IF Stage \in failed THEN Answer("Error") /\ UNCHANGED found
           ELSE /\ found' = [granted |-> granted, envs |-> [a \in Apps |-> EnvironmentsOf(a)]]
                /\ NextStage(granted)
    /\ UNCHANGED environments

-----------------------------------------------------------------------------
(* The cluster *)

DeleteEnvironment(a, e) ==
    /\ e \in environments[a] /\ environments' = [environments EXCEPT ![a] = @ \ {e}]
    /\ UNCHANGED <<request, wanted, task, channel, failed, found>>

Init ==
    /\ environments = [a \in Apps |-> Envs]
    /\ request = [stage |-> "none", jobs |-> FALSE, envs |-> FALSE, answer |-> "none"]
    /\ wanted = [g \in Groups |-> {}] /\ task = NoTasks
    /\ channel = {} /\ failed = {} /\ found = Nothing

Goroutine(t) ==
    \/ Go(t) \/ CallFails(t) \/ Send(t) \/ GetEnvironment(t)
    \/ t \in Apps /\ (CheckAccess(t) \/ GetLatestJob(t) \/ ListEnvironments(t) \/ WaitInner(t))

Next ==
    \/ ShowApplications \/ SearchApplications \/ Wait
    \/ \E t \in Tasks : Goroutine(t)
    \/ \E a \in Apps, e \in Envs : DeleteEnvironment(a, e)

\* Goroutines are scheduled and calls return.
Fairness == WF_vars(Wait) /\ \A t \in Tasks : WF_vars(Goroutine(t))
Spec == Init /\ [][Next]_vars /\ Fairness

-----------------------------------------------------------------------------
(* Properties *)

\* An overview is whole or an error: when environments were asked for, each
\* application of a successful answer has every environment of its own listing,
\* whatever failed and whatever was deleted meanwhile, and every one that is there
\* when the answer is given (getEnvironmentsForApplications).
AnswerIsComplete ==
    request.answer = "OK" /\ request.envs =>
        \A a \in found.granted :
            wanted[a] \subseteq {a} \X found.envs[a] /\ environments[a] \subseteq found.envs[a]

\* When the handler has answered, none of its goroutines still runs: none calls
\* the API server or waits to hand over a result that nobody reads.
NothingLeftBehind ==
    request.stage = "answered" => \A t \in Tasks : task[t] \in {"none", "ended"}

\* Every search is answered: no goroutine waits for a place in a channel that is
\* read only after it has ended, and none for a place in its group that the
\* goroutines it waits for will not give up.
EveryOverviewEnds == request.stage # "none" ~> request.stage = "answered"
==============================================================================
