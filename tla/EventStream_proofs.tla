--------------------------- MODULE EventStream_proofs ---------------------------
(***************************************************************************)
(* The two goroutines of an event stream never write at the same time, and *)
(* a log that is reported as complete was sent whole and in order, for any *)
(* number of lines and ticks.                                              *)
(***************************************************************************)
EXTENDS EventStream, TLAPS

(* Whoever is between Lock and Unlock holds the mutex.                     *)
HoldsMutex ==
  /\ main \in {"write", "flush", "writeEnd", "unlock"} => mutex = "main"
  /\ ticker \in {"write", "flush"} => mutex = "ticker"

(* The goroutine that writes the lines locks before and unlocks after.     *)
LEMMA MainKeepsMutex ==
  ASSUME HoldsMutex, Scan \/ MainStep
  PROVE  HoldsMutex'
  <1>1. CASE Scan
    BY <1>1 DEF HoldsMutex, Scan
  <1>2. CASE LockMain
    BY <1>2 DEF HoldsMutex, LockMain, Free
  <1>3. CASE WriteLine \/ FlushLine
    BY <1>3 DEF HoldsMutex, WriteLine, FlushLine
  <1>4. CASE WriteEnd \/ UnlockEnd \/ Cancel
    BY <1>4 DEF HoldsMutex, WriteEnd, UnlockEnd, Cancel
  <1> QED
    BY <1>1, <1>2, <1>3, <1>4 DEF MainStep

(* The goroutine that writes the pings does so too.                        *)
LEMMA TickerKeepsMutex ==
  ASSUME HoldsMutex, TickerStep
  PROVE  HoldsMutex'
  <1>1. CASE SelectTick \/ SelectDone
    BY <1>1 DEF HoldsMutex, SelectTick, SelectDone
  <1>2. CASE LockTicker
    BY <1>2 DEF HoldsMutex, LockTicker, Free
  <1>3. CASE WriteHealthcheck \/ FlushHealthcheck
    BY <1>3 DEF HoldsMutex, WriteHealthcheck, FlushHealthcheck
  <1> QED
    BY <1>1, <1>2, <1>3 DEF TickerStep

(* The handler's goroutine and the ticker's are never in the response      *)
(* writer at the same time.                                                *)
THEOREM OneWriterAtATime == Spec => []OneWriter
  <1>1. Init => HoldsMutex
    BY DEF Init, HoldsMutex
  <1>2. ASSUME HoldsMutex, [Next]_vars PROVE HoldsMutex'
    <2>1. CASE Tick \/ Disconnect
      BY <1>2, <2>1 DEF HoldsMutex, Tick, Disconnect
    <2>2. CASE UNCHANGED vars
      BY <1>2, <2>2 DEF HoldsMutex, vars
    <2> QED
      BY <1>2, <2>1, <2>2, MainKeepsMutex, TickerKeepsMutex DEF Next
  <1>3. HoldsMutex => OneWriter
    BY DEF HoldsMutex, OneWriter
  <1> QED
    BY <1>1, <1>2, <1>3, PTL DEF Spec
-----------------------------------------------------------------------------
(* What the client is sent                                                 *)

Events == [event : {"started", "data", "healthcheck", "completed", "error"}, line : Nat]
LinesSent == IF main \in {"lock", "write"} THEN lines - 1 ELSE lines

(* All lines but the one in hand were sent, in order; there is an outcome  *)
(* when the log has ended, and success is told only then.                  *)
StreamInv ==
  /\ response \in Seq(Events) /\ lines \in Nat
  /\ InOrder /\ Sent = 1..LinesSent
  /\ main \in {"lock", "write"} => lines # 0
  /\ main \notin {"scan", "lock", "write", "flush"} => outcome \in {"eof", "cancelled", "error"}
  /\ \A i \in DOMAIN response : response[i].event = "completed" =>
       main \in {"unlock", "cancel", "returned"} /\ outcome \in {"eof", "cancelled"}

(* A step that writes nothing.                                             *)
LEMMA NothingSent ==
  ASSUME StreamInv, response' = response, lines' \in Nat, LinesSent' = LinesSent,
         main' \in {"lock", "write"} => lines' # 0,
         main' \notin {"scan", "lock", "write", "flush"} => outcome' \in {"eof", "cancelled", "error"},
         main \in {"unlock", "cancel", "returned"} =>
           main' \in {"unlock", "cancel", "returned"} /\ outcome' = outcome
  PROVE  StreamInv'
  BY DEF StreamInv, InOrder, Sent, DataEvents

(* An event is appended to what was sent.                                  *)
LEMMA SendFacts ==
  ASSUME response \in Seq(Events), NEW e \in Events, Send(e)
  PROVE  /\ response' \in Seq(Events) /\ Len(response) \in Nat
         /\ DOMAIN response = 1..Len(response) /\ DOMAIN response' = 1..(Len(response) + 1)
         /\ \A i \in DOMAIN response : response'[i] = response[i]
         /\ response'[Len(response) + 1] = e
  BY DEF Send

(* A healthcheck, or the last event.                                       *)
LEMMA NoLineSent ==
  ASSUME StreamInv, NEW e \in Events, Send(e), e.event # "data", lines' = lines, LinesSent' = LinesSent,
         main' \in {"lock", "write"} => lines # 0,
         outcome' = outcome,
         main' \notin {"scan", "lock", "write", "flush"} => outcome \in {"eof", "cancelled", "error"},
         main \in {"unlock", "cancel", "returned"} => main' = main,
         e.event = "completed" => main' = "unlock" /\ outcome \in {"eof", "cancelled"}
  PROVE  StreamInv'
  <1> DEFINE n == Len(response) + 1
  <1>0. n \in Nat \ {0} /\ DOMAIN response = 1..(n - 1) /\ DOMAIN response' = 1..n
    BY SendFacts DEF StreamInv
  <1>1. /\ response' \in Seq(Events) /\ DOMAIN response' = DOMAIN response \cup {n} /\ n \notin DOMAIN response
        /\ \A i \in DOMAIN response : response'[i] = response[i]
        /\ response'[n] = e
    BY <1>0, SendFacts DEF StreamInv
  <1> HIDE DEF n
  <1>2. DataEvents' = DataEvents
    BY <1>1 DEF DataEvents
  <1>3. Sent' = Sent /\ (InOrder => InOrder')
    BY <1>1, <1>2 DEF Sent, InOrder, DataEvents
  <1>4. \A i \in DOMAIN response' : response'[i].event = "completed" =>
          main' \in {"unlock", "cancel", "returned"} /\ outcome' \in {"eof", "cancelled"}
    BY <1>1 DEF StreamInv
  <1> QED
    BY <1>1, <1>3, <1>4 DEF StreamInv

(* The next line.                                                          *)
LEMMA LineSent ==
  ASSUME StreamInv, WriteLine PROVE StreamInv'
  <1> DEFINE n == Len(response) + 1
             e == Event("data", lines)
  <1>1. /\ main = "write" /\ main' = "flush" /\ Send(e) /\ UNCHANGED <<lines, outcome>>
        /\ lines \in Nat /\ Sent = 1..(lines - 1)
    BY DEF WriteLine, StreamInv, LinesSent
  <1>2. e \in Events /\ e.event = "data" /\ e.line = lines
    BY <1>1 DEF Event, Events
  <1> HIDE DEF e
  <1>3. n \in Nat \ {0} /\ DOMAIN response = 1..(n - 1) /\ DOMAIN response' = 1..n
    BY <1>1, <1>2, SendFacts DEF StreamInv
  <1>4. /\ response' \in Seq(Events) /\ DOMAIN response' = DOMAIN response \cup {n} /\ n \notin DOMAIN response
        /\ \A i \in DOMAIN response : response'[i] = response[i] /\ i < n
        /\ response'[n] = e
    BY <1>1, <1>2, <1>3, SendFacts DEF StreamInv
  <1> HIDE DEF n
  <1>5. DataEvents' = DataEvents \cup {n} /\ n \notin DataEvents /\ DataEvents \subseteq DOMAIN response
    BY <1>2, <1>4 DEF DataEvents
  <1>6. Sent' = Sent \cup {lines}
    BY <1>2, <1>4, <1>5 DEF Sent
  <1>7. Sent' = 1..LinesSent'
    BY <1>1, <1>6 DEF StreamInv, LinesSent
  <1>8. InOrder'
    <2> SUFFICES ASSUME NEW i \in DataEvents', NEW j \in DataEvents', i < j
                 PROVE  response'[i].line < response'[j].line
      BY DEF InOrder
    <2>1. i \in DataEvents
      BY <1>4, <1>3, <1>5
    <2>2. CASE j = n
      <3>1. response[i].line \in Sent
        BY <2>1 DEF Sent
      <3> QED
        BY <1>1, <1>2, <1>4, <1>5, <2>1, <2>2, <3>1
    <2>3. CASE j \in DataEvents
      BY <1>4, <1>5, <2>1, <2>3 DEF StreamInv, InOrder
    <2> QED
      BY <1>5, <2>2, <2>3
  <1>9. \A i \in DOMAIN response' : response'[i].event # "completed"
    BY <1>1, <1>2, <1>4 DEF StreamInv
  <1> QED
    BY <1>1, <1>4, <1>7, <1>8, <1>9 DEF StreamInv

(* Every step of the handler's goroutine keeps the invariant.              *)
LEMMA MainKeepsStream ==
  ASSUME StreamInv, Scan \/ MainStep PROVE StreamInv'
  <1>1. CASE Scan
    <2>1. main = "scan" /\ response' = response /\ lines \in Nat
      BY <1>1 DEF Scan, StreamInv
    <2>2. CASE lines' = lines + 1 /\ main' = "lock"
      BY <2>1, <2>2, NothingSent DEF LinesSent
    <2>3. CASE main' = "lockEnd" /\ lines' = lines /\ outcome' \in {"eof", "error", "cancelled"}
      BY <2>1, <2>3, NothingSent DEF LinesSent
    <2> QED
      BY <1>1, <2>2, <2>3 DEF Scan
  <1>2. CASE LockMain \/ FlushLine \/ UnlockEnd \/ Cancel
    BY <1>2, NothingSent DEF StreamInv, LinesSent, LockMain, FlushLine, UnlockEnd, Cancel
  <1>3. CASE WriteLine
    BY <1>3, LineSent
  <1>4. CASE WriteEnd
    <2> DEFINE e == Event(LastEvent(outcome), 0)
    <2>1. outcome \in {"eof", "cancelled", "error"} /\ main = "writeEnd" /\ main' = "unlock"
          /\ Send(e) /\ UNCHANGED <<lines, outcome>>
      BY <1>4 DEF WriteEnd, StreamInv
    <2>2. e \in Events /\ e.event # "data" /\ (e.event = "completed" => outcome # "error")
      BY DEF Event, Events, LastEvent
    <2> HIDE DEF e
    <2> QED
      BY <2>1, <2>2, NoLineSent DEF LinesSent
  <1> QED
    BY <1>1, <1>2, <1>3, <1>4 DEF MainStep

(* And so does every step of the other goroutine and of the client.        *)
LEMMA TickerKeepsStream ==
  ASSUME StreamInv, TickerStep \/ Tick \/ Disconnect \/ UNCHANGED vars PROVE StreamInv'
  <1>1. CASE SelectTick \/ SelectDone \/ LockTicker \/ FlushHealthcheck \/ Tick \/ Disconnect \/ UNCHANGED vars
    <2>1. UNCHANGED <<response, main, lines, outcome>>
      BY <1>1 DEF SelectTick, SelectDone, LockTicker, FlushHealthcheck, Tick, Disconnect, vars
    <2> QED
      BY <2>1 DEF StreamInv, LinesSent, InOrder, Sent, DataEvents
  <1>2. CASE WriteHealthcheck
    <2> DEFINE e == Event("healthcheck", 0)
    <2>1. Send(e) /\ UNCHANGED <<main, lines, outcome>>
      BY <1>2 DEF WriteHealthcheck
    <2>2. e \in Events /\ e.event = "healthcheck"
      BY DEF Event, Events
    <2> HIDE DEF e
    <2> QED
      BY <2>1, <2>2, NoLineSent DEF LinesSent, StreamInv
  <1> QED
    BY <1>1, <1>2 DEF TickerStep

(* The lines come in order, none twice and none left out, and a log is     *)
(* told complete only when all of it was sent or the client has left       *)
(* (ReaderEventStreamResponse).                                            *)
THEOREM CompletedTheorem == Spec => []CompletedIsComplete
  <1>1. Init => StreamInv
    <2> SUFFICES ASSUME Init PROVE StreamInv
      OBVIOUS
    <2> DEFINE e == Event("started", 0)
    <2>1. e \in Events /\ e.event = "started"
      BY DEF Event, Events
    <2>2. response = <<e>> /\ main = "scan" /\ lines = 0
      BY DEF Init
    <2> HIDE DEF e
    <2>3. response \in Seq(Events) /\ DOMAIN response = {1} /\ response[1] = e
      BY <2>1, <2>2
    <2>4. DataEvents = {} /\ Sent = {}
      BY <2>1, <2>3 DEF DataEvents, Sent
    <2> QED
      BY <2>1, <2>2, <2>3, <2>4 DEF StreamInv, InOrder, LinesSent
  <1>2. StreamInv /\ [Next]_vars => StreamInv'
    BY MainKeepsStream, TickerKeepsStream DEF Next
  <1>3. StreamInv => CompletedIsComplete
    <2> SUFFICES ASSUME StreamInv PROVE CompletedIsComplete
      OBVIOUS
    <2>1. LinesSent \in 0..lines
      BY DEF StreamInv, LinesSent
    <2>2. ASSUME main \in {"unlock", "cancel", "returned"} PROVE LinesSent = lines
      BY <2>2 DEF LinesSent
    <2> QED
      BY <2>1, <2>2 DEF StreamInv, CompletedIsComplete
  <1> QED
    BY <1>1, <1>2, <1>3, PTL DEF Spec
=============================================================================
