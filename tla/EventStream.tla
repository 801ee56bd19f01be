------------------------------ MODULE EventStream ------------------------------
(***************************************************************************)
(* DefaultController.ReaderEventStreamResponse (models/controller.go): a   *)
(* log is copied to the client line by line, while a second goroutine      *)
(* keeps the connection alive with a healthcheck at every tick.  Both      *)
(* write to the same response, one at a time under a mutex.                *)
(***************************************************************************)
EXTENDS Naturals, Sequences

CONSTANTS
  MaxLines,  \* bound on the lines of the log
  MaxTicks   \* bound on the ticks of the ticker

ASSUME BoundsAssumption == MaxLines \in Nat /\ MaxTicks \in Nat

VARIABLES
  main,      \* the goroutine of the handler
  ticker,    \* the goroutine of the ticker
  mutex,     \* who holds m
  lines,     \* lines scanned so far
  outcome,   \* how the reader ended
  ticks,     \* ticks so far
  pending,   \* a tick is waiting in ticker.C, which holds one
  gone,      \* r.Context() is done: the client has disconnected or net/http has finished
  cancelled, \* cancel() has been called
  response   \* the events written

vars == <<main, ticker, mutex, lines, outcome, ticks, pending, gone, cancelled, response>>

Event(kind, line) == [event |-> kind, line |-> line]

MainStates == {"scan", "lock", "write", "flush", "lockEnd", "writeEnd", "unlock", "cancel", "returned"}
TickerStates == {"select", "lock", "write", "flush", "ended"}
Outcomes == {"none", "eof", "cancelled", "error"}

TypeOK ==
  /\ main \in MainStates /\ ticker \in TickerStates
  /\ mutex \in {"free", "main", "ticker"}
  /\ lines \in 0..MaxLines /\ outcome \in Outcomes /\ ticks \in 0..MaxTicks
  /\ {pending, gone, cancelled} \subseteq BOOLEAN
  /\ \A i \in DOMAIN response : response[i].line \in 0..MaxLines

\* the headers and "event: started" are sent before the second goroutine exists
Init ==
  /\ main = "scan" /\ ticker = "select" /\ mutex = "free"
  /\ lines = 0 /\ outcome = "none" /\ ticks = 0
  /\ pending = FALSE /\ gone = FALSE /\ cancelled = FALSE
  /\ response = <<Event("started", 0)>>

Free == mutex = "free"

Send(event) == response' = Append(response, event)
-----------------------------------------------------------------------------
(* scanner.Scan(): the next line, the end, a read error or a line beyond   *)
(* the buffer, or the cancellation that the reader has seen.               *)
Scan ==
  /\ main = "scan"
  /\ \/ /\ lines < MaxLines
        /\ lines' = lines + 1 /\ main' = "lock" /\ UNCHANGED outcome
     \/ /\ outcome' \in {"eof", "error"} \union (IF gone THEN {"cancelled"} ELSE {})
        /\ main' = "lockEnd" /\ UNCHANGED lines
  /\ UNCHANGED <<ticker, mutex, ticks, pending, gone, cancelled, response>>

LockMain ==
  /\ Free
  /\ \/ main = "lock" /\ main' = "write"
     \/ main = "lockEnd" /\ main' = "writeEnd"
  /\ mutex' = "main"
  /\ UNCHANGED <<ticker, lines, outcome, ticks, pending, gone, cancelled, response>>

WriteLine ==
  /\ main = "write" /\ main' = "flush"
  /\ Send(Event("data", lines))
  /\ UNCHANGED <<ticker, mutex, lines, outcome, ticks, pending, gone, cancelled>>

FlushLine ==
  /\ main = "flush" /\ main' = "scan"
  /\ mutex' = "free"
  /\ UNCHANGED <<ticker, lines, outcome, ticks, pending, gone, cancelled, response>>

\* mutant: a read error is taken for the end of the stream
MutantLastEvent(o) == IF o = "none" THEN "error" ELSE "completed"

LastEvent(o) == IF o = "error" THEN "error" ELSE "completed"

WriteEnd ==
  /\ main = "writeEnd" /\ main' = "unlock"
  /\ Send(Event(LastEvent(outcome), 0))
  /\ UNCHANGED <<ticker, mutex, lines, outcome, ticks, pending, gone, cancelled>>

\* mutant: the handler returns without unlocking
MutantUnlockEnd ==
  /\ main = "unlock" /\ main' = "cancel"
  /\ UNCHANGED <<ticker, mutex, lines, outcome, ticks, pending, gone, cancelled, response>>

\* the deferred calls run in reverse order: m.Unlock() before cancel()
UnlockEnd ==
  /\ main = "unlock" /\ main' = "cancel"
  /\ mutex' = "free"
  /\ UNCHANGED <<ticker, lines, outcome, ticks, pending, gone, cancelled, response>>

Cancel ==
  /\ main = "cancel" /\ main' = "returned"
  /\ cancelled' = TRUE
  /\ UNCHANGED <<ticker, mutex, lines, outcome, ticks, pending, gone, response>>
-----------------------------------------------------------------------------
Tick ==
  /\ ticks < MaxTicks /\ ticker # "ended"
  /\ ticks' = ticks + 1 /\ pending' = TRUE
  /\ UNCHANGED <<main, ticker, mutex, lines, outcome, gone, cancelled, response>>

\* select takes any of the cases that are ready
SelectTick ==
  /\ ticker = "select" /\ pending
  /\ ticker' = "lock" /\ pending' = FALSE
  /\ UNCHANGED <<main, mutex, lines, outcome, ticks, gone, cancelled, response>>

SelectDone ==
  /\ ticker = "select" /\ (gone \/ cancelled)
  /\ ticker' = "ended"
  /\ UNCHANGED <<main, mutex, lines, outcome, ticks, pending, gone, cancelled, response>>

\* mutant: the healthcheck is written without the mutex
MutantLockTicker ==
  /\ ticker = "lock" /\ ticker' = "write"
  /\ UNCHANGED <<main, mutex, lines, outcome, ticks, pending, gone, cancelled, response>>

LockTicker ==
  /\ Free
  /\ ticker = "lock" /\ ticker' = "write"
  /\ mutex' = "ticker"
  /\ UNCHANGED <<main, lines, outcome, ticks, pending, gone, cancelled, response>>

WriteHealthcheck ==
  /\ ticker = "write" /\ ticker' = "flush"
  /\ Send(Event("healthcheck", 0))
  /\ UNCHANGED <<main, mutex, lines, outcome, ticks, pending, gone, cancelled>>

FlushHealthcheck ==
  /\ ticker = "flush" /\ ticker' = "select"
  /\ mutex' = "free"
  /\ UNCHANGED <<main, lines, outcome, ticks, pending, gone, cancelled, response>>

\* the client disconnects
Disconnect ==
  /\ ~gone /\ gone' = TRUE
  /\ UNCHANGED <<main, ticker, mutex, lines, outcome, ticks, pending, cancelled, response>>
-----------------------------------------------------------------------------
MainStep == LockMain \/ WriteLine \/ FlushLine \/ WriteEnd \/ UnlockEnd \/ Cancel
TickerStep ==
  SelectTick \/ SelectDone \/ LockTicker \/ WriteHealthcheck \/ FlushHealthcheck

Next == Scan \/ MainStep \/ Tick \/ TickerStep \/ Disconnect

(* Goroutines are scheduled, and a Go mutex is handed to the one that has  *)
(* waited longest; the log may stay silent for ever unless the request is  *)
(* cancelled, which ends its reader.                                       *)
Fairness == SF_vars(MainStep) /\ SF_vars(TickerStep) /\ WF_vars(gone /\ Scan)
Spec == Init /\ [][Next]_vars /\ Fairness
-----------------------------------------------------------------------------
(* The two goroutines are never in the response writer at the same time,   *)
(* which is not safe for concurrent use (controller.go:103, :117).         *)
OneWriter ==
  ~ /\ main \in {"write", "flush", "writeEnd", "unlock"}
    /\ ticker \in {"write", "flush"}

(* The lines the client was sent, and that they came in order, none twice. *)
DataEvents == {i \in DOMAIN response : response[i].event = "data"}
Sent == {response[i].line : i \in DataEvents}
InOrder == \A i, j \in DataEvents : i < j => response[i].line < response[j].line

(* Whatever healthchecks come between, the client gets the lines in order, *)
(* none twice and none left out; and it is told "completed" only when the  *)
(* whole log was sent, unless it was the client who left.                  *)
CompletedIsComplete ==
  /\ InOrder
  /\ \E n \in 0..lines : Sent = 1..n
  /\ \A i \in DOMAIN response :
       response[i].event = "completed" => Sent = 1..lines /\ outcome \in {"eof", "cancelled"}

(* When the client disconnects both goroutines come to their end: none is  *)
(* left behind waiting for the mutex or for a tick.                        *)
GoroutinesEnd == gone ~> main = "returned" /\ ticker = "ended"

(* controller.go:75: "Will stop at the end of stream": nothing is written  *)
(* after the last event.                                                   *)
StopsAtTheEnd ==
  \A i \in DOMAIN response :
    response[i].event \in {"completed", "error"} => i = Len(response)
=============================================================================
