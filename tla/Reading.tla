------------------------------ MODULE Reading ------------------------------
(***************************************************************************)
(* What the process does besides changing the cluster: it starts and       *)
(* stops, finds logs, streams them, and collects overviews. The parts      *)
(* share no state; a behaviour is one of one part.                         *)
(***************************************************************************)
EXTENDS EventStream

CONSTANTS
    Requests, Pods, Owners, Kind, Owner, Created,          \* PodLogs
    Apps, Envs, AccessLimit, OuterLimit, InnerLimit,       \* ApplicationOverview
    Servers                                                \* ServerLifecycle

VARIABLES part,
    alive, dead, steps, logRequests,
    environments, request, wanted, task, channel, failed, found,
    listener, shutdown, active, bindFailed, timedOut, process

L == INSTANCE PodLogs WITH requests <- logRequests
O == INSTANCE ApplicationOverview
S == INSTANCE ServerLifecycle

\* An application is told from one of its environments, and the group of all
\* applications from those of one.
ASSUME NamesAssumption == O!Stage \notin Apps /\ Apps \cap (Apps \X Envs) = {}

logVars == <<alive, dead, steps, logRequests>>
overviewVars == <<environments, request, wanted, task, channel, failed, found>>
serverVars == <<listener, shutdown, active, bindFailed, timedOut, process>>
allVars == <<part, vars, logVars, overviewVars, serverVars>>

AllInit ==
    /\ part \in {"stream", "log", "overview", "server"}
    /\ Init /\ L!Init /\ O!Init /\ S!Init
AllNext ==
    \/ part = "stream" /\ Next /\ UNCHANGED <<part, logVars, overviewVars, serverVars>>
    \/ part = "log" /\ L!Next /\ UNCHANGED <<part, vars, overviewVars, serverVars>>
    \/ part = "overview" /\ O!Next /\ UNCHANGED <<part, vars, logVars, serverVars>>
    \/ part = "server" /\ S!Next /\ UNCHANGED <<part, vars, logVars, overviewVars>>

\* A part that is not under way is at its beginning, where nothing is fair.
AllSpec ==
    /\ AllInit /\ [][AllNext]_allVars
    /\ Fairness /\ L!Fairness /\ O!Fairness /\ S!Fairness

\* PodLogs.ReadersAreClosed: no reader of a log is left open.
ReadersAreClosed == L!ReadersAreClosed

\* ApplicationOverview.AnswerIsComplete: an overview is whole or an error.
AnswerIsComplete == O!AnswerIsComplete

\* ApplicationOverview.NothingLeftBehind: no goroutine outlives its answer.
NothingLeftBehind == O!NothingLeftBehind

\* ApplicationOverview.EveryOverviewEnds: every search is answered.
EveryOverviewEnds == O!EveryOverviewEnds

\* ServerLifecycle.EndsInOrder: a signal never looks like a failure, and requests
\* have thirty seconds to finish.
EndsInOrder == S!EndsInOrder

\* ServerLifecycle.ShutdownEnds: the process ends after a signal.
ShutdownEnds == S!ShutdownEnds
=============================================================================
