-------------------------- MODULE ServerLifecycle --------------------------
(***************************************************************************)
(* Start and shutdown of the HTTP servers of the process (main.go): every  *)
(* server has a goroutine that listens; a signal, once signals are         *)
(* handled, shuts all of them down, each in a goroutine of its own, for at *)
(* most thirty seconds.                                                    *)
(***************************************************************************)
EXTENDS FiniteSets

CONSTANT Servers   \* the API, the metrics and, if wanted, the profiler

VARIABLES
    listener,     \* the goroutine of each server that runs ListenAndServe
    shutdown,     \* the goroutine of each server that runs Shutdown
    active,       \* the servers with a request under way
    bindFailed,   \* some server could not listen on its port
    timedOut,     \* the thirty seconds are over
    process       \* "started", "running" when signals are handled, "stopping", "exited", "fatal", or "killed"

vars == <<listener, shutdown, active, bindFailed, timedOut, process>>

Alive == process \in {"started", "running", "stopping"}
ShuttingDown(s) == shutdown[s] # "none"

Fatal(closed) == ~closed

\* ListenAndServe of a server that is shut down already, or that cannot bind.
Start(s) ==
    /\ Alive /\ listener[s] = "starting"
    /\ \/ /\ ShuttingDown(s)
          /\ listener' = [listener EXCEPT ![s] = "closed"]
          /\ process' = IF Fatal(TRUE) THEN "fatal" ELSE process
          /\ UNCHANGED bindFailed
       \/ /\ ~ShuttingDown(s)
          /\ listener' = [listener EXCEPT ![s] = "serving"]
          /\ UNCHANGED <<process, bindFailed>>
       \/ /\ ~ShuttingDown(s)
          /\ listener' = [listener EXCEPT ![s] = "closed"]
          /\ bindFailed' = TRUE
          /\ process' = IF Fatal(FALSE) THEN "fatal" ELSE process
    /\ UNCHANGED <<shutdown, active, timedOut>>

\* ListenAndServe returns ErrServerClosed as soon as Shutdown is called.
StopListening(s) ==
    /\ Alive /\ listener[s] = "serving" /\ ShuttingDown(s)
    /\ listener' = [listener EXCEPT ![s] = "closed"]
    /\ process' = IF Fatal(TRUE) THEN "fatal" ELSE process
    /\ UNCHANGED <<shutdown, active, bindFailed, timedOut>>

\* Requests come and, unless they stream a log for ever, go.
BeginRequest(s) ==
    /\ Alive /\ listener[s] = "serving" /\ ~ShuttingDown(s)
    /\ active' = active \cup {s}
    /\ UNCHANGED <<listener, shutdown, bindFailed, timedOut, process>>
EndRequest(s) ==
    /\ Alive /\ s \in active
    /\ active' = active \ {s}
    /\ UNCHANGED <<listener, shutdown, bindFailed, timedOut, process>>

\* The servers are started before the signals are handled.
Notify ==
    /\ process = "started" /\ process' = "running"
    /\ UNCHANGED <<listener, shutdown, active, bindFailed, timedOut>>

\* A signal that is not handled yet kills the process.
Signal ==
    /\ \/ process = "started" /\ process' = "killed"
       \/ process = "running" /\ process' = "stopping"
    /\ UNCHANGED <<listener, shutdown, active, bindFailed, timedOut>>

CallShutdown(s) ==
    /\ process = "stopping" /\ shutdown[s] = "none"
    /\ shutdown' = [shutdown EXCEPT ![s] = "called"]
    /\ UNCHANGED <<listener, active, bindFailed, timedOut, process>>

\* mutant: Shutdown has no deadline
MutantShutdownReturns(s) ==
    /\ process = "stopping" /\ shutdown[s] = "called" /\ s \notin active
    /\ shutdown' = [shutdown EXCEPT ![s] = "returned"]
    /\ UNCHANGED <<listener, active, bindFailed, timedOut, process>>

\* Shutdown waits for the requests, or for the end of its context.
ShutdownReturns(s) ==
    /\ process = "stopping" /\ shutdown[s] = "called"
    /\ s \notin active \/ timedOut
    /\ shutdown' = [shutdown EXCEPT ![s] = "returned"]
    /\ UNCHANGED <<listener, active, bindFailed, timedOut, process>>

Timeout ==
    /\ process = "stopping" /\ ~timedOut /\ timedOut' = TRUE
    /\ UNCHANGED <<listener, shutdown, active, bindFailed, process>>

\* mutant: nobody waits for the goroutines
MutantMayExit == TRUE

MayExit == \A s \in Servers : shutdown[s] = "returned"

Exit ==
    /\ process = "stopping" /\ MayExit
    /\ process' = "exited"
    /\ UNCHANGED <<listener, shutdown, active, bindFailed, timedOut>>

Init ==
    /\ listener = [s \in Servers |-> "starting"]
    /\ shutdown = [s \in Servers |-> "none"]
    /\ active = {} /\ bindFailed = FALSE /\ timedOut = FALSE
    /\ process = "started"

ServerStep(s) == Start(s) \/ StopListening(s) \/ CallShutdown(s) \/ ShutdownReturns(s)
Next ==
    \/ \E s \in Servers : ServerStep(s) \/ BeginRequest(s) \/ EndRequest(s)
    \/ Notify \/ Signal \/ Timeout \/ Exit

\* Goroutines run and time passes; a request may never end.
Fairness ==
    /\ \A s \in Servers : WF_vars(CallShutdown(s)) /\ WF_vars(ShutdownReturns(s))
    /\ WF_vars(Timeout) /\ WF_vars(Exit)
Spec == Init /\ [][Next]_vars /\ Fairness

-----------------------------------------------------------------------------
(* Properties *)

\* The process ends in order: as fatal only when a server could not listen, not
\* because the signal came before the servers had begun (startServers); after a
\* signal that is handled with no request cut off before its thirty seconds were
\* over (shutdownServersGracefulOnSignal). A signal that comes before it is handled
\* kills the process at once.
EndsInOrder ==
    /\ process = "fatal" => bindFailed
    /\ process = "exited" => timedOut \/ active = {}

\* The process ends after a signal it handles, also while a log is streamed for ever.
ShutdownEnds == process = "stopping" ~> process \in {"exited", "fatal"}
=============================================================================
