----------------------- MODULE ApplicationSetup_proofs -----------------------
(***************************************************************************)
(* A new deploy key is never taken for the old one; a configuration of     *)
(* alerts that is shown as ready is in effect, and alerting that was       *)
(* disabled stays so; changes of environment variables undo none of each   *)
(* other and are shown; a restart undoes nothing. For any number of        *)
(* requests, of variables and of steps of the operator.                    *)
(*                                                                         *)
(* Each part has an inductive invariant of its own. A step of the whole is *)
(* a step of every part, or leaves that part alone, so that the invariant  *)
(* of a part is one of the whole.                                          *)
(***************************************************************************)
EXTENDS ApplicationSetup, TLAPS

(***************************************************************************)
(* The parts                                                               *)
(***************************************************************************)

(* A step of the whole is one of each part, or leaves that part alone.     *)
LEMMA StepOfParts ==
  [AllNext]_allVars =>
    /\ [Next]_vars
    /\ [K!Next]_(K!vars)
    /\ [A!Next]_(A!vars)
    /\ [E!Next]_(E!vars)
    /\ [R!Next]_(R!vars)
  BY DEF AllNext, allVars, vars, keyVars, alertVars, variableVars, restartVars, K!vars, A!vars, E!vars, R!vars

(* The whole behaves like each of its parts, whose own theorems hold of it *)
(* for that reason.                                                        *)
THEOREM PartsTheorem == AllSpec => Spec /\ K!Spec /\ A!Spec /\ E!Spec /\ R!Spec
  <1>1. AllInit => Init /\ K!Init /\ A!Init /\ E!Init /\ R!Init
    BY DEF AllInit
  <1> QED
    BY <1>1, StepOfParts, PTL DEF AllSpec, Spec, K!Spec, A!Spec, E!Spec, R!Spec
-----------------------------------------------------------------------------
(***************************************************************************)
(* The deploy key                                                          *)
(***************************************************************************)

KeyPhases == {"idle", "delete", "poll", "get", "update", "done"}
KeyAnswers == {"none", "OK", "Error", "TimedOut"}

KeyRequest ==
  [pc : KeyPhases, old : Nat, read : Nat, tries : Nat, answer : KeyAnswers, found : Nat]

KeyTypeOK ==
  /\ key \in Nat /\ version \in Nat /\ made \in Nat
  /\ keyRequests \in [Requests -> KeyRequest]

(* While a request polls, its old key is gone: what it may find is missing *)
(* or newer.                                                               *)
KeyRequestInv(q, k, m) ==
  /\ q.pc = "idle" => q = K!Idle
  /\ q.old <= m
  /\ q.pc = "poll" => k = K!NoSecret \/ k > q.old
  /\ q.answer = "OK" => q.found > q.old

KeyInv == KeyTypeOK /\ key <= made /\ \A r \in Requests : KeyRequestInv(keyRequests[r], key, made)

(* The key is kept, removed, or made anew.                                 *)
KeyMoves ==
  \/ key' \in {key, K!NoSecret} /\ made' = made /\ version' = version
  \/ key' = made + 1 /\ made' = made + 1 /\ version' = version + 1

(* A step of one regeneration keeps the invariant if the key moves as said *)
(* and the request knows of it what it should.                             *)
LEMMA KeyChanges ==
  ASSUME KeyInv, NEW r \in Requests, NEW q \in KeyRequest, K!Set(r, q),
         KeyMoves,
         KeyRequestInv(q, key', made')
  PROVE  KeyInv'
  <1>1. KeyTypeOK' /\ key' <= made'
    BY DEF KeyInv, KeyTypeOK, KeyMoves, K!Set, K!NoSecret
  <1>2. \A s \in Requests : KeyRequestInv(keyRequests'[s], key', made')
    <2> TAKE s \in Requests
    <2>1. CASE s = r
      BY <2>1 DEF KeyInv, KeyTypeOK, K!Set
    <2>2. CASE s # r
      <3> DEFINE p == keyRequests[s]
      <3>1. p \in KeyRequest /\ KeyRequestInv(p, key, made) /\ keyRequests'[s] = p
        BY <2>2 DEF KeyInv, KeyTypeOK, K!Set
      <3>2. p.old \in Nat
        BY <3>1 DEF KeyRequest
      <3> HIDE DEF p
      <3>3. KeyRequestInv(p, key', made')
        BY <3>1, <3>2 DEF KeyRequestInv, KeyMoves, K!NoSecret, KeyInv, KeyTypeOK
      <3> QED
        BY <3>1, <3>3
    <2> QED
      BY <2>1, <2>2
  <1> QED
    BY <1>1, <1>2 DEF KeyInv

(* A request that goes on without its answer.                              *)
LEMMA KeyGoesOn ==
  ASSUME KeyInv, NEW r \in Requests, NEW q \in KeyRequest, K!Set(r, q), K!Kept \/ (key' = K!NoSecret /\ UNCHANGED <<version, made>>),
         q.old = keyRequests[r].old, q.answer = keyRequests[r].answer, q.found = keyRequests[r].found,
         q.pc # "idle", q.pc = "poll" => key' = K!NoSecret
  PROVE  KeyInv'
  <1>1. KeyRequestInv(keyRequests[r], key, made) /\ keyRequests[r] \in KeyRequest
    BY DEF KeyInv, KeyTypeOK
  <1>2. KeyRequestInv(q, key', made')
    BY <1>1 DEF KeyRequestInv, K!Kept
  <1>3. KeyMoves
    BY DEF KeyMoves, K!Kept
  <1> QED
    BY <1>2, <1>3, KeyChanges

(* A request that is answered, with success only when it has found a newer *)
(* key.                                                                    *)
LEMMA KeyAnswered ==
  ASSUME KeyInv, NEW r \in Requests, NEW a \in KeyAnswers, K!Answer(r, a),
         K!Kept \/ (key' = K!NoSecret /\ UNCHANGED <<version, made>>),
         a = "OK" => key > keyRequests[r].old
  PROVE  KeyInv'
  <1> DEFINE q == [keyRequests[r] EXCEPT !.pc = "done", !.answer = a, !.found = key]
  <1>1. KeyRequestInv(keyRequests[r], key, made) /\ keyRequests[r] \in KeyRequest /\ key \in Nat
    BY DEF KeyInv, KeyTypeOK
  <1>2. q \in KeyRequest /\ q.pc = "done" /\ q.answer = a /\ q.found = key /\ q.old = keyRequests[r].old
    BY <1>1 DEF KeyRequest, KeyPhases
  <1>3. K!Set(r, q)
    BY DEF K!Answer
  <1> HIDE DEF q
  <1>4. KeyRequestInv(q, key', made')
    BY <1>1, <1>2 DEF KeyRequestInv, K!Kept
  <1>5. KeyMoves
    BY DEF KeyMoves, K!Kept
  <1> QED
    BY <1>2, <1>3, <1>4, <1>5, KeyChanges

(* There is at most one key at first, and no request.                      *)
LEMMA KeyInitially == AllInit => KeyInv
  <1> SUFFICES ASSUME AllInit PROVE KeyInv
    OBVIOUS
  <1>1. K!Idle \in KeyRequest /\ K!Idle.old = 0 /\ K!Idle.pc = "idle" /\ K!Idle.answer = "none"
    BY DEF K!Idle, KeyRequest, KeyPhases, KeyAnswers, K!NoSecret
  <1> QED
    BY <1>1 DEF AllInit, K!Init, KeyInv, KeyTypeOK, KeyRequestInv, K!NoSecret

(* Every step of the operator and of a request keeps the invariant.        *)
LEMMA KeyStep == KeyInv /\ [K!Next]_(K!vars) => KeyInv'
  <1> SUFFICES ASSUME KeyInv, [K!Next]_(K!vars) PROVE KeyInv'
    OBVIOUS
  <1>1. CASE UNCHANGED K!vars
    BY <1>1 DEF K!vars, KeyInv, KeyTypeOK
  <1>2. CASE K!OperatorMakesKey
    <2>1. key' = made + 1 /\ made' = made + 1 /\ version' = version + 1 /\ keyRequests' = keyRequests
      BY <1>2 DEF K!OperatorMakesKey
    <2>2. ASSUME NEW s \in Requests PROVE KeyRequestInv(keyRequests[s], key', made')
      <3>1. keyRequests[s] \in KeyRequest /\ KeyRequestInv(keyRequests[s], key, made)
        BY DEF KeyInv, KeyTypeOK
      <3>2. keyRequests[s].old \in Nat
        BY <3>1 DEF KeyRequest
      <3> QED
        BY <2>1, <3>1, <3>2 DEF KeyRequestInv, KeyInv, KeyTypeOK
    <2> QED
      BY <2>1, <2>2 DEF KeyInv, KeyTypeOK
  <1>3. ASSUME NEW r \in Requests, K!RegenerateDeployKey(r) \/ K!Step(r) PROVE KeyInv'
    <2> DEFINE q == keyRequests[r]
    <2>1. q \in KeyRequest /\ KeyRequestInv(q, key, made) /\ key \in Nat /\ made \in Nat /\ version \in Nat
      BY DEF KeyInv, KeyTypeOK
    <2>2. CASE K!RegenerateDeployKey(r)
      <3>1. PICK pc \in {"delete", "get"} : K!Set(r, [K!Idle EXCEPT !.pc = pc, !.old = made])
        BY <2>2 DEF K!RegenerateDeployKey
      <3> DEFINE p == [K!Idle EXCEPT !.pc = pc, !.old = made]
      <3>2. p \in KeyRequest /\ p.pc = pc /\ p.old = made /\ p.answer = "none"
        BY <2>1 DEF K!Idle, KeyRequest, KeyPhases, KeyAnswers, K!NoSecret
      <3> HIDE DEF p
      <3>3. K!Kept /\ K!Set(r, p)
        BY <2>2, <3>1 DEF K!RegenerateDeployKey, p
      <3>4. KeyRequestInv(p, key', made')
        BY <2>1, <3>2, <3>3 DEF KeyRequestInv, K!Kept
      <3>5. KeyMoves
        BY <3>3 DEF KeyMoves, K!Kept
      <3> QED
        BY <3>2, <3>3, <3>4, <3>5, KeyChanges
    <2>3. CASE K!InvalidKey(r)
      BY <2>3, KeyAnswered DEF K!InvalidKey, KeyAnswers
    <2>4. CASE K!DeleteSecret(r)
      <3>1. CASE key' \in {key, K!NoSecret} /\ K!Answer(r, "Error") /\ UNCHANGED <<version, made>>
        BY <3>1, KeyAnswered DEF KeyAnswers, K!Kept
      <3>2. CASE key' = K!NoSecret /\ K!Set(r, [q EXCEPT !.pc = "poll"]) /\ UNCHANGED <<version, made>>
        <4> DEFINE p == [q EXCEPT !.pc = "poll"]
        <4>1. p \in KeyRequest /\ p.pc = "poll" /\ p.old = q.old /\ p.answer = q.answer /\ p.found = q.found
          BY <2>1 DEF KeyRequest, KeyPhases
        <4>2. K!Set(r, p)
          BY <3>2
        <4> HIDE DEF p
        <4> QED
          BY <3>2, <4>1, <4>2, KeyGoesOn
      <3> QED
        BY <2>4, <3>1, <3>2 DEF K!DeleteSecret, K!Kept
    <2>5. CASE K!Poll(r)
      <3>1. CASE key # K!NoSecret /\ K!Answer(r, "OK")
        <4>1. key > q.old
          BY <2>1, <2>5, <3>1 DEF KeyRequestInv, K!Poll
        <4> QED
          BY <2>5, <3>1, <4>1, KeyAnswered DEF KeyAnswers, K!Poll
      <3>2. CASE key = K!NoSecret /\ K!Set(r, [q EXCEPT !.tries = @ + 1])
        <4> DEFINE p == [q EXCEPT !.tries = @ + 1]
        <4>1. p \in KeyRequest /\ p.pc = q.pc /\ p.old = q.old /\ p.answer = q.answer /\ p.found = q.found
          BY <2>1 DEF KeyRequest, KeyPhases
        <4>2. K!Set(r, p) /\ K!Kept /\ q.pc = "poll"
          BY <2>5, <3>2 DEF K!Poll
        <4> HIDE DEF p
        <4> QED
          BY <3>2, <4>1, <4>2, KeyGoesOn DEF K!Kept
      <3>3. CASE K!Answer(r, "TimedOut")
        BY <2>5, <3>3, KeyAnswered DEF KeyAnswers, K!Poll
      <3>4. CASE K!Answer(r, "Error")
        BY <2>5, <3>4, KeyAnswered DEF KeyAnswers, K!Poll
      <3> QED
        BY <2>5, <3>1, <3>2, <3>3, <3>4 DEF K!Poll
    <2>6. CASE K!GetSecret(r)
      <3>1. CASE K!Set(r, [q EXCEPT !.pc = "update", !.read = version])
        <4> DEFINE p == [q EXCEPT !.pc = "update", !.read = version]
        <4>1. p \in KeyRequest /\ p.pc = "update" /\ p.old = q.old /\ p.answer = q.answer /\ p.found = q.found
          BY <2>1 DEF KeyRequest, KeyPhases
        <4>2. K!Set(r, p) /\ K!Kept
          BY <2>6, <3>1 DEF K!GetSecret
        <4> HIDE DEF p
        <4> QED
          BY <4>1, <4>2, KeyGoesOn
      <3>2. CASE K!Answer(r, "Error")
        BY <2>6, <3>2, KeyAnswered DEF KeyAnswers, K!GetSecret
      <3> QED
        BY <2>6, <3>1, <3>2 DEF K!GetSecret
    <2>7. CASE K!UpdateSecret(r)
      <3>1. CASE /\ key' = made + 1 /\ version' = version + 1 /\ made' = made + 1
                 /\ \E a \in {"OK", "Error"} : K!Set(r, [q EXCEPT !.pc = "done", !.answer = a, !.found = made + 1])
        <4>0. PICK a \in {"OK", "Error"} : K!Set(r, [q EXCEPT !.pc = "done", !.answer = a, !.found = made + 1])
          BY <3>1
        <4> DEFINE p == [q EXCEPT !.pc = "done", !.answer = a, !.found = made + 1]
        <4>1. p \in KeyRequest /\ p.pc = "done" /\ p.old = q.old /\ p.answer = a /\ p.found = made + 1
          <5>1. made + 1 \in Nat
            BY <2>1
          <5> QED
            BY <2>1, <5>1 DEF KeyRequest, KeyPhases, KeyAnswers
        <4>2. K!Set(r, p) /\ q.old \in Nat
          BY <2>1, <4>0 DEF KeyRequest
        <4> HIDE DEF p
        <4>3. KeyRequestInv(p, key', made')
          BY <2>1, <3>1, <4>1, <4>2 DEF KeyRequestInv
        <4>4. KeyMoves
          BY <3>1 DEF KeyMoves
        <4> QED
          BY <4>1, <4>2, <4>3, <4>4, KeyChanges
      <3>2. CASE K!Set(r, [q EXCEPT !.pc = "get", !.tries = @ + 1]) /\ K!Kept
        <4> DEFINE p == [q EXCEPT !.pc = "get", !.tries = @ + 1]
        <4>1. p \in KeyRequest /\ p.pc = "get" /\ p.old = q.old /\ p.answer = q.answer /\ p.found = q.found
          <5>1. q.tries + 1 \in Nat
            BY <2>1 DEF KeyRequest
          <5> QED
            BY <2>1, <5>1 DEF KeyRequest, KeyPhases
        <4>2. K!Set(r, p) /\ K!Kept
          BY <3>2
        <4> HIDE DEF p
        <4> QED
          BY <4>1, <4>2, KeyGoesOn
      <3>3. CASE K!Answer(r, "Error") /\ K!Kept
        BY <3>3, KeyAnswered DEF KeyAnswers
      <3> QED
        BY <2>7, <3>1, <3>2, <3>3 DEF K!UpdateSecret
    <2> QED
      BY <1>3, <2>2, <2>3, <2>4, <2>5, <2>6, <2>7 DEF K!Step
  <1> QED
    BY <1>1, <1>2, <1>3 DEF K!Next

(* The invariant of the deploy key, of which the next theorem is a part.   *)
THEOREM KeyInvariant == AllSpec => []KeyInv
  <1>1. KeyInv /\ [AllNext]_allVars => KeyInv'
    BY KeyStep, StepOfParts
  <1> QED
    BY <1>1, KeyInitially, PTL DEF AllSpec

(* A request that replaced the deploy key and is answered with success     *)
(* never reports the old key (RegenerateDeployKey).                        *)
THEOREM AnsweredKeyTheorem == AllSpec => []AnsweredKeyIsNew
  <1>1. KeyInv => AnsweredKeyIsNew
    BY DEF KeyInv, KeyRequestInv, AnsweredKeyIsNew, K!AnsweredKeyIsNew
  <1> QED
    BY <1>1, KeyInvariant, PTL
-----------------------------------------------------------------------------
(***************************************************************************)
(* The alert configuration                                                 *)
(***************************************************************************)

AlertPhases ==
  {"idle", "list", "validate", "getSecret", "secret", "apply", "create", "update", "wait", "answer", "delete", "done"}
AlertAnswers ==
  {"none", "OK", "Error", "NotFound", "Multiple", "NotEnabled", "Disabled", "AlreadyEnabled", "Invalid"}

Alert == [version : Nat, generation : Nat, spec : Nat, observed : Nat, succeeded : BOOLEAN]
AlertRequest ==
  [op : A!Ops \cup {"none"}, pc : AlertPhases, names : SUBSET A!Names, alert : Alert, name : A!Names,
   secretRead : Nat, answer : AlertAnswers, ready : BOOLEAN]

AlertTypeOK ==
  /\ alerts \in [A!Names -> Alert] /\ secret \in Nat /\ revision \in Nat /\ reconciled \subseteq Nat
  /\ alertRequests \in [Requests -> AlertRequest]

(* What has been observed is no newer than what is wanted, and success     *)
(* with the newest is a configuration that was brought into effect.        *)
Sound(a, rec) == a.observed <= a.generation /\ (A!Ready(a) => a.spec \in rec)
Versioned(a) == a # A!NoAlert => a.version # 0

Writing == {"validate", "getSecret", "secret", "apply", "create", "update"}

(* What an update carries it has read from the cluster, which gave it a    *)
(* version; only what enabling carries can be created.                     *)
AlertRequestInv(q, rec) ==
  /\ Sound(q.alert, rec)
  /\ q.ready => q.pc = "done" /\ q.alert.spec \in rec
  /\ q.op = "Enable" => q.name = A!Default
  /\ q.pc \in Writing => q.op \in {"Enable", "Update"} /\ (q.op = "Update" => q.alert.version # 0)

AlertInv ==
  /\ AlertTypeOK
  /\ \A n \in A!Names : Sound(alerts[n], reconciled) /\ Versioned(alerts[n])
  /\ \A r \in Requests : AlertRequestInv(alertRequests[r], reconciled)

(* No RadixAlert at all is sound, whatever was brought into effect.        *)
LEMMA NoAlertFacts ==
  ASSUME NEW rec PROVE A!NoAlert \in Alert /\ Sound(A!NoAlert, rec) /\ Versioned(A!NoAlert)
  BY DEF A!NoAlert, Alert, Sound, Versioned, A!Ready

(* A request before its first step.                                        *)
LEMMA AlertIdleFacts ==
  /\ A!Idle \in AlertRequest /\ A!Idle.op = "none" /\ A!Idle.pc = "idle" /\ A!Idle.alert = A!NoAlert
  /\ A!Idle.ready = FALSE /\ A!Idle.name = A!Default
  <1>1. A!NoAlert \in Alert
    BY NoAlertFacts
  <1> QED
    BY <1>1 DEF A!Idle, AlertRequest, AlertPhases, AlertAnswers, A!Names

(* The cluster: what has been brought into effect stays so.                *)
AlertMoves ==
  /\ alerts' \in [A!Names -> Alert] /\ secret' \in Nat /\ revision' \in Nat
  /\ reconciled \subseteq reconciled' /\ reconciled' \subseteq Nat
  /\ \A n \in A!Names : Sound(alerts'[n], reconciled') /\ Versioned(alerts'[n])

(* The secret and the revision alone disturb nothing.                      *)
LEMMA AlertsKept ==
  ASSUME AlertInv, UNCHANGED <<alerts, reconciled>>, secret' \in Nat, revision' \in Nat PROVE AlertMoves
  BY DEF AlertInv, AlertTypeOK, AlertMoves

(* One RadixAlert is written.                                              *)
LEMMA OneAlertMoves ==
  ASSUME AlertInv, NEW n \in A!Names, NEW a \in Alert, alerts' = [alerts EXCEPT ![n] = a],
         secret' \in Nat, revision' \in Nat, reconciled \subseteq reconciled', reconciled' \subseteq Nat,
         Sound(a, reconciled'), Versioned(a)
  PROVE  AlertMoves
  <1>1. alerts' \in [A!Names -> Alert] /\ \A m \in A!Names : alerts'[m] = IF m = n THEN a ELSE alerts[m]
    BY DEF AlertInv, AlertTypeOK
  <1>2. ASSUME NEW m \in A!Names PROVE Sound(alerts[m], reconciled') /\ Versioned(alerts[m])
    BY DEF AlertInv, Sound
  <1> QED
    BY <1>1, <1>2 DEF AlertMoves

(* What a request holds stays sound, whatever happens in the cluster.      *)
LEMMA AlertRequestKept ==
  ASSUME AlertInv, AlertMoves, NEW r \in Requests
  PROVE  AlertRequestInv(alertRequests[r], reconciled')
  <1> DEFINE q == alertRequests[r]
  <1>1. AlertRequestInv(q, reconciled)
    BY DEF AlertInv
  <1> HIDE DEF q
  <1>2. AlertRequestInv(q, reconciled')
    BY <1>1 DEF AlertRequestInv, Sound, AlertMoves
  <1> QED
    BY <1>2 DEF q

(* The cluster changes and one request does.                               *)
LEMMA AlertChanges ==
  ASSUME AlertInv, AlertMoves, NEW r \in Requests, NEW q \in AlertRequest, A!Set(r, q),
         AlertRequestInv(q, reconciled')
  PROVE  AlertInv'
  <1>1. AlertTypeOK'
    BY DEF AlertInv, AlertTypeOK, AlertMoves, A!Set
  <1>2. ASSUME NEW s \in Requests PROVE AlertRequestInv(alertRequests'[s], reconciled')
    <2>1. alertRequests'[s] = IF s = r THEN q ELSE alertRequests[s]
      BY DEF AlertInv, AlertTypeOK, A!Set
    <2> QED
      BY <2>1, AlertRequestKept
  <1> QED
    BY <1>1, <1>2 DEF AlertInv, AlertMoves

(* A request that goes on with what it has, writing only if it did before. *)
LEMMA AlertGoesOn ==
  ASSUME AlertInv, AlertMoves, NEW r \in Requests, NEW q \in AlertRequest, A!Set(r, q),
         q.op = alertRequests[r].op, q.alert = alertRequests[r].alert, q.name = alertRequests[r].name,
         q.ready = alertRequests[r].ready, alertRequests[r].pc # "done",
         q.pc \in Writing => alertRequests[r].pc \in Writing
  PROVE  AlertInv'
  <1>1. AlertRequestInv(alertRequests[r], reconciled')
    BY AlertRequestKept
  <1>2. AlertRequestInv(q, reconciled')
    BY <1>1 DEF AlertRequestInv
  <1> QED
    BY <1>2, AlertChanges

(* A request that is answered without a configuration.                     *)
LEMMA AlertAnswered ==
  ASSUME AlertInv, AlertMoves, NEW r \in Requests, NEW a \in AlertAnswers, A!Answer(r, a)
  PROVE  AlertInv'
  <1> DEFINE q == [A!Idle EXCEPT !.pc = "done", !.answer = a]
  <1>1. /\ q \in AlertRequest /\ q.pc = "done" /\ q.alert = A!NoAlert /\ q.ready = FALSE /\ q.op = "none"
    BY AlertIdleFacts DEF AlertRequest, AlertPhases
  <1>2. A!Set(r, q)
    BY DEF A!Answer
  <1> HIDE DEF q
  <1>3. AlertRequestInv(q, reconciled')
    BY <1>1, NoAlertFacts DEF AlertRequestInv, Writing
  <1> QED
    BY <1>1, <1>2, <1>3, AlertChanges

(* The RadixAlerts there are at first have been brought into effect.       *)
LEMMA AlertInitially == AllInit => AlertInv
  <1> SUFFICES ASSUME AllInit PROVE AlertInv
    OBVIOUS
  <1> DEFINE first == [version |-> 1, generation |-> 1, spec |-> 1, observed |-> 1, succeeded |-> TRUE]
  <1>1. first \in Alert /\ Sound(first, {1}) /\ Versioned(first)
    BY DEF Alert, Sound, Versioned, A!Ready
  <1> HIDE DEF first
  <1>2. PICK S \in SUBSET A!Names : alerts = [n \in A!Names |-> IF n \in S THEN first ELSE A!NoAlert]
    BY DEF AllInit, A!Init, first
  <1>3. /\ secret \in Nat /\ revision \in Nat /\ reconciled = {1}
        /\ alertRequests = [r \in Requests |-> A!Idle]
    BY DEF AllInit, A!Init
  <1>4. AlertTypeOK
    BY <1>1, <1>2, <1>3, NoAlertFacts, AlertIdleFacts DEF AlertTypeOK
  <1>5. \A n \in A!Names : Sound(alerts[n], reconciled) /\ Versioned(alerts[n])
    BY <1>1, <1>2, <1>3, NoAlertFacts
  <1>6. \A r \in Requests : AlertRequestInv(alertRequests[r], reconciled)
    BY <1>3, NoAlertFacts, AlertIdleFacts DEF AlertRequestInv, Writing
  <1> QED
    BY <1>4, <1>5, <1>6 DEF AlertInv

(* What the controllers do before they call the handler.                   *)
LEMMA AlertSubmit ==
  ASSUME AlertInv, NEW r \in Requests, A!Submit(r) PROVE AlertInv'
  <1>1. AlertMoves /\ A!Kept
    <2>1. A!Kept
      BY DEF A!Submit, A!UpdateEnvironmentAlertingConfig, A!GetEnvironmentAlertingConfig,
             A!EnableEnvironmentAlerting, A!DisableEnvironmentAlerting, A!UpdateApplicationAlertingConfig,
             A!GetApplicationAlertingConfig, A!EnableApplicationAlerting, A!DisableApplicationAlerting,
             A!EnvironmentRouteAccessCheck, A!Malformed, A!Begin
    <2> QED
      BY <2>1, AlertsKept DEF A!Kept, AlertInv, AlertTypeOK
  <1>2. ASSUME NEW op \in A!Ops, A!Begin(r, op) PROVE AlertInv'
    <2> DEFINE p == [A!Idle EXCEPT !.op = op, !.pc = "list"]
    <2>1. p \in AlertRequest /\ p.pc = "list" /\ p.alert = A!NoAlert /\ p.ready = FALSE /\ p.name = A!Default
      BY AlertIdleFacts DEF AlertRequest, AlertPhases
    <2>2. A!Set(r, p)
      BY <1>2 DEF A!Begin
    <2> HIDE DEF p
    <2>3. AlertRequestInv(p, reconciled')
      BY <2>1, NoAlertFacts DEF AlertRequestInv, Writing
    <2> QED
      BY <1>1, <2>1, <2>2, <2>3, AlertChanges
  <1>3. CASE A!EnvironmentRouteAccessCheck(r) \/ A!Malformed(r)
    <2>1. \E a \in AlertAnswers : A!Answer(r, a)
      BY <1>3 DEF A!EnvironmentRouteAccessCheck, A!Malformed, AlertAnswers
    <2> QED
      BY <1>1, <2>1, AlertAnswered
  <1>4. {"Update", "Get", "Enable", "Disable"} \subseteq A!Ops
    BY DEF A!Ops
  <1> QED
    BY <1>2, <1>3, <1>4
    DEF A!Submit, A!UpdateEnvironmentAlertingConfig, A!GetEnvironmentAlertingConfig,
        A!EnableEnvironmentAlerting, A!DisableEnvironmentAlerting, A!UpdateApplicationAlertingConfig,
        A!GetApplicationAlertingConfig, A!EnableApplicationAlerting, A!DisableApplicationAlerting

(* What each operation makes of the RadixAlerts it finds.                  *)
LEMMA AlertList ==
  ASSUME AlertInv, NEW r \in Requests, A!List(r) PROVE AlertInv'
  <1> DEFINE q == alertRequests[r]
  <1>1. /\ q \in AlertRequest /\ AlertRequestInv(q, reconciled) /\ q.pc = "list"
        /\ AlertMoves /\ reconciled' = reconciled
    BY AlertsKept DEF AlertInv, AlertTypeOK, A!List, A!Kept
  <1>2. ASSUME NEW n \in A!Names, NEW pc \in {"validate", "answer"}, A!Existing = {n},
               A!Set(r, [q EXCEPT !.pc = pc, !.name = n, !.alert = alerts[n]]),
               q.op \in {"Update", "Get"}, pc = "validate" => q.op = "Update"
        PROVE  AlertInv'
    <2> DEFINE p == [q EXCEPT !.pc = pc, !.name = n, !.alert = alerts[n]]
    <2>1. alerts[n] \in Alert /\ Sound(alerts[n], reconciled) /\ alerts[n].version # 0
      BY <1>2 DEF AlertInv, AlertTypeOK, Versioned, A!Existing
    <2>2. p \in AlertRequest /\ p.pc = pc /\ p.name = n /\ p.alert = alerts[n] /\ p.op = q.op /\ p.ready = q.ready
      BY <1>1, <2>1 DEF AlertRequest, AlertPhases
    <2>3. A!Set(r, p)
      BY <1>2
    <2>4. q.ready = FALSE
      BY <1>1 DEF AlertRequestInv, AlertRequest
    <2> HIDE DEF p
    <2>5. AlertRequestInv(p, reconciled')
      BY <1>1, <1>2, <2>1, <2>2, <2>4 DEF AlertRequestInv, Writing
    <2> QED
      BY <1>1, <2>2, <2>3, <2>5, AlertChanges
  <1>3. CASE \E a \in AlertAnswers : A!Answer(r, a)
    BY <1>1, <1>3, AlertAnswered
  <1>4. CASE q.op = "Enable" /\ A!Set(r, [q EXCEPT !.pc = "apply"])
    <2> DEFINE p == [q EXCEPT !.pc = "apply"]
    <2>1. /\ p \in AlertRequest /\ p.pc = "apply" /\ p.name = q.name /\ p.alert = q.alert /\ p.op = q.op
          /\ p.ready = q.ready
      BY <1>1 DEF AlertRequest, AlertPhases
    <2>2. A!Set(r, p)
      BY <1>4
    <2> HIDE DEF p
    <2>3. AlertRequestInv(p, reconciled')
      BY <1>1, <1>4, <2>1 DEF AlertRequestInv, AlertRequest
    <2> QED
      BY <1>1, <2>1, <2>2, <2>3, AlertChanges
  <1>5. CASE A!Set(r, [q EXCEPT !.pc = "delete", !.names = A!Existing])
    <2> DEFINE p == [q EXCEPT !.pc = "delete", !.names = A!Existing]
    <2>1. A!Existing \subseteq A!Names
      BY DEF A!Existing
    <2>2. /\ p \in AlertRequest /\ p.pc = "delete" /\ p.name = q.name /\ p.alert = q.alert /\ p.op = q.op
          /\ p.ready = q.ready
      BY <1>1, <2>1 DEF AlertRequest, AlertPhases
    <2>3. A!Set(r, p)
      BY <1>5
    <2> HIDE DEF p
    <2> QED
      BY <1>1, <2>2, <2>3, AlertGoesOn DEF Writing
  <1> QED
    BY <1>2, <1>3, <1>4, <1>5 DEF A!List, AlertAnswers

(* A request changes to another phase and keeps the rest.                  *)
LEMMA AlertPhase ==
  ASSUME AlertInv, AlertMoves, NEW r \in Requests, NEW pc \in AlertPhases,
         A!Set(r, [alertRequests[r] EXCEPT !.pc = pc]), alertRequests[r].pc # "done",
         pc \in Writing => alertRequests[r].pc \in Writing
  PROVE  AlertInv'
  <1> DEFINE q == alertRequests[r]
             p == [q EXCEPT !.pc = pc]
  <1>1. q \in AlertRequest
    BY DEF AlertInv, AlertTypeOK
  <1>2. p \in AlertRequest /\ p.pc = pc /\ p.name = q.name /\ p.alert = q.alert /\ p.op = q.op /\ p.ready = q.ready
    BY <1>1 DEF AlertRequest
  <1>3. A!Set(r, p)
    OBVIOUS
  <1> HIDE DEF p
  <1> QED
    BY <1>2, <1>3, AlertGoesOn

(* A request that is not done takes over a RadixAlert of the cluster.      *)
LEMMA AlertTaken ==
  ASSUME AlertInv, AlertMoves, NEW r \in Requests, NEW pc \in AlertPhases, NEW a \in Alert,
         A!Set(r, [alertRequests[r] EXCEPT !.pc = pc, !.alert = a]), alertRequests[r].pc # "done",
         pc \in Writing => alertRequests[r].pc \in Writing,
         Sound(a, reconciled'), a.version # 0
  PROVE  AlertInv'
  <1> DEFINE q == alertRequests[r]
             p == [q EXCEPT !.pc = pc, !.alert = a]
  <1>1. q \in AlertRequest /\ AlertRequestInv(q, reconciled)
    BY DEF AlertInv, AlertTypeOK
  <1>2. p \in AlertRequest /\ p.pc = pc /\ p.name = q.name /\ p.alert = a /\ p.op = q.op /\ p.ready = q.ready
    BY <1>1 DEF AlertRequest
  <1>3. A!Set(r, p)
    OBVIOUS
  <1> HIDE DEF p
  <1>4. AlertRequestInv(p, reconciled')
    BY <1>1, <1>2 DEF AlertRequestInv
  <1> QED
    BY <1>2, <1>3, <1>4, AlertChanges

(* What is written is newer than what has been observed.                   *)
LEMMA WrittenFacts ==
  ASSUME AlertInv, NEW a \in Alert, a.observed <= a.generation, NEW rec
  PROVE  /\ A!Written(a) \in Alert /\ Sound(A!Written(a), rec)
         /\ A!Written(a).version # 0 /\ A!Written(a) # A!NoAlert
  <1> DEFINE b == A!Written(a)
  <1>1. revision + 1 \in Nat /\ revision + 1 # 0 /\ a.generation + 1 \in Nat /\ a.observed \in Nat /\ a.generation \in Nat
    BY DEF AlertInv, AlertTypeOK, Alert
  <1>2. b \in Alert /\ b.version = revision + 1 /\ b.generation = a.generation + 1 /\ b.observed = a.observed
    BY <1>1 DEF A!Written, Alert
  <1> HIDE DEF b
  <1>3. Sound(b, rec) /\ b.version # 0
    BY <1>1, <1>2 DEF Sound, A!Ready
  <1>4. b # A!NoAlert
    BY <1>3 DEF A!NoAlert
  <1> QED
    BY <1>2, <1>3, <1>4 DEF b

(* Every other step of a request.                                          *)
LEMMA AlertStepOfRequest ==
  ASSUME AlertInv, NEW r \in Requests, A!Step(r) PROVE AlertInv'
  <1> DEFINE q == alertRequests[r]
  <1>1. /\ q \in AlertRequest /\ AlertRequestInv(q, reconciled)
        /\ alerts \in [A!Names -> Alert] /\ secret \in Nat /\ revision \in Nat
        /\ \A n \in A!Names : Sound(alerts[n], reconciled) /\ Versioned(alerts[n])
    BY DEF AlertInv, AlertTypeOK
  <1>2. A!Kept => AlertMoves /\ reconciled' = reconciled /\ alerts' = alerts
    BY AlertsKept DEF A!Kept, AlertInv, AlertTypeOK
  <1>3. q.name \in A!Names
    BY <1>1 DEF AlertRequest
  <1>4. \A n \in A!Names : n \in A!Existing => alerts[n].version # 0
    BY <1>1 DEF Versioned, A!Existing
  <1>5. ASSUME AlertMoves, A!Answer(r, "Error") \/ A!Answer(r, "Invalid") \/ A!Answer(r, "OK") PROVE AlertInv'
    BY <1>5, AlertAnswered DEF AlertAnswers
  <1>6. CASE A!List(r)
    BY <1>6, AlertList
  <1>7. CASE A!Validate(r)
    <2>1. AlertMoves /\ q.pc = "validate"
      BY <1>2, <1>7 DEF A!Validate
    <2>2. ASSUME NEW pc \in {"getSecret", "apply"}, A!Set(r, [q EXCEPT !.pc = pc]) PROVE AlertInv'
      BY <2>1, <2>2, AlertPhase DEF AlertPhases, Writing
    <2> QED
      BY <1>5, <1>7, <2>1, <2>2 DEF A!Validate
  <1>8. CASE A!GetConfigSecret(r)
    <2>1. AlertMoves /\ q.pc = "getSecret"
      BY <1>2, <1>8 DEF A!GetConfigSecret
    <2>2. CASE A!Set(r, [q EXCEPT !.pc = "secret", !.secretRead = secret])
      <3> DEFINE p == [q EXCEPT !.pc = "secret", !.secretRead = secret]
      <3>1. /\ p \in AlertRequest /\ p.pc = "secret" /\ p.name = q.name /\ p.alert = q.alert /\ p.op = q.op
            /\ p.ready = q.ready
        BY <1>1 DEF AlertRequest, AlertPhases
      <3>2. A!Set(r, p)
        BY <2>2
      <3> HIDE DEF p
      <3> QED
        BY <2>1, <3>1, <3>2, AlertGoesOn DEF Writing
    <2> QED
      BY <1>5, <1>8, <2>1, <2>2 DEF A!GetConfigSecret
  <1>9. CASE A!UpdateConfigSecret(r)
    <2>1. AlertMoves /\ q.pc = "secret"
      BY <1>1, <1>9, AlertsKept DEF A!UpdateConfigSecret
    <2>2. CASE A!Set(r, [q EXCEPT !.pc = "apply"])
      BY <2>1, <2>2, AlertPhase DEF AlertPhases, Writing
    <2> QED
      BY <1>5, <1>9, <2>1, <2>2 DEF A!UpdateConfigSecret
  <1>10. CASE A!Apply(r)
    <2>1. AlertMoves /\ q.pc = "apply" /\ reconciled' = reconciled
      BY <1>2, <1>10 DEF A!Apply
    <2>2. CASE A!Set(r, [q EXCEPT !.pc = "create"])
      BY <2>1, <2>2, AlertPhase DEF AlertPhases, Writing
    <2>3. CASE q.name \in A!Existing /\ A!Set(r, [q EXCEPT !.pc = "update", !.alert = alerts[q.name]])
      <3>1. alerts[q.name] \in Alert /\ Sound(alerts[q.name], reconciled) /\ alerts[q.name].version # 0
        BY <1>1, <1>3, <1>4, <2>3
      <3> QED
        BY <2>1, <2>3, <3>1, AlertTaken DEF AlertPhases, Writing
    <2> QED
      BY <1>5, <1>10, <2>1, <2>2, <2>3 DEF A!Apply
  <1>11. ASSUME NEW a \in Alert, a.observed <= a.generation, alerts' = [alerts EXCEPT ![q.name] = A!Written(a)],
                revision' = revision + 1, UNCHANGED <<secret, reconciled>>, q.pc # "done",
                A!Set(r, [q EXCEPT !.pc = A!After(q), !.alert = alerts'[q.name]])
         PROVE  AlertInv'
    <2>1. /\ A!Written(a) \in Alert /\ Sound(A!Written(a), reconciled') /\ A!Written(a).version # 0
      BY <1>11, WrittenFacts
    <2>2. alerts'[q.name] = A!Written(a)
      BY <1>1, <1>3, <1>11
    <2>3. reconciled \subseteq Nat
      BY DEF AlertInv, AlertTypeOK
    <2>4. AlertMoves
      <3>1. secret' \in Nat /\ revision' \in Nat /\ reconciled \subseteq reconciled' /\ reconciled' \subseteq Nat
        BY <1>1, <1>11, <2>3
      <3>2. Versioned(A!Written(a))
        BY <2>1 DEF Versioned
      <3> QED
        BY <1>3, <1>11, <2>1, <3>1, <3>2, OneAlertMoves
    <2>5. A!After(q) \in AlertPhases \ Writing
      BY DEF A!After, AlertPhases, Writing
    <2> QED
      BY <1>11, <2>1, <2>2, <2>4, <2>5, AlertTaken
  <1>12. CASE A!Create(r)
    <2>1. CASE /\ alerts' = [alerts EXCEPT ![q.name] = A!Written(A!NoAlert)] /\ revision' = revision + 1
               /\ A!Set(r, [q EXCEPT !.pc = A!After(q), !.alert = alerts'[q.name]])
      <3>1. A!NoAlert \in Alert /\ A!NoAlert.observed <= A!NoAlert.generation
        BY NoAlertFacts DEF Sound
      <3> QED
        BY <1>11, <1>12, <2>1, <3>1 DEF A!Create
    <2>2. CASE A!Answer(r, "Error") /\ UNCHANGED <<alerts, revision>>
      BY <1>1, <1>5, <1>12, <2>2, AlertsKept DEF A!Create
    <2> QED
      BY <1>12, <2>1, <2>2 DEF A!Create
  <1>13. CASE A!UpdateAlert(r)
    <2>1. CASE /\ alerts' = [alerts EXCEPT ![q.name] = A!Written(@)] /\ revision' = revision + 1
               /\ A!Set(r, [q EXCEPT !.pc = A!After(q), !.alert = alerts'[q.name]])
      <3>1. alerts[q.name] \in Alert /\ alerts[q.name].observed <= alerts[q.name].generation
        BY <1>1, <1>3 DEF Sound
      <3> QED
        BY <1>11, <1>13, <2>1, <3>1 DEF A!UpdateAlert
    <2>2. CASE A!Answer(r, "Error") /\ UNCHANGED <<alerts, revision>>
      BY <1>1, <1>5, <1>13, <2>2, AlertsKept DEF A!UpdateAlert
    <2> QED
      BY <1>13, <2>1, <2>2 DEF A!UpdateAlert
  <1>14. CASE A!WaitForReconciled(r)
    <2>1. AlertMoves /\ q.pc = "wait" /\ reconciled' = reconciled
      BY <1>2, <1>14 DEF A!WaitForReconciled
    <2>2. CASE q.name \in A!Existing /\ A!Set(r, [q EXCEPT !.pc = "answer", !.alert = alerts[q.name]])
      <3>1. alerts[q.name] \in Alert /\ Sound(alerts[q.name], reconciled) /\ alerts[q.name].version # 0
        BY <1>1, <1>3, <1>4, <2>2
      <3> QED
        BY <2>1, <2>2, <3>1, AlertTaken DEF AlertPhases, Writing
    <2>3. CASE A!Set(r, [q EXCEPT !.pc = "answer"])
      BY <2>1, <2>3, AlertPhase DEF AlertPhases, Writing
    <2> QED
      BY <1>14, <2>2, <2>3 DEF A!WaitForReconciled
  <1>15. CASE A!AnswerConfig(r)
    <2>1. AlertMoves /\ reconciled' = reconciled
      BY <1>2, <1>15 DEF A!AnswerConfig
    <2>2. CASE A!Set(r, [A!Idle EXCEPT !.pc = "done", !.answer = "OK", !.alert = q.alert, !.ready = A!Ready(q.alert)])
      <3> DEFINE p == [A!Idle EXCEPT !.pc = "done", !.answer = "OK", !.alert = q.alert, !.ready = A!Ready(q.alert)]
      <3>1. q.alert \in Alert /\ A!Ready(q.alert) \in BOOLEAN
        BY <1>1 DEF AlertRequest, Alert, A!Ready
      <3>2. p \in AlertRequest /\ p.pc = "done" /\ p.alert = q.alert /\ p.ready = A!Ready(q.alert) /\ p.op = "none"
        BY <3>1, AlertIdleFacts DEF AlertRequest, AlertPhases, AlertAnswers
      <3>3. A!Set(r, p)
        BY <2>2
      <3> HIDE DEF p
      <3>4. AlertRequestInv(p, reconciled')
        BY <1>1, <2>1, <3>2 DEF AlertRequestInv, Writing, Sound
      <3> QED
        BY <2>1, <3>2, <3>3, <3>4, AlertChanges
    <2> QED
      BY <1>5, <1>15, <2>1, <2>2 DEF A!AnswerConfig
  <1>16. CASE A!DeleteAlerts(r)
    <2>1. CASE A!Answer(r, "OK") /\ UNCHANGED alerts
      BY <1>1, <1>5, <1>16, <2>1, AlertsKept DEF A!DeleteAlerts
    <2>2. CASE A!Answer(r, "Error") /\ UNCHANGED alerts
      BY <1>1, <1>5, <1>16, <2>2, AlertsKept DEF A!DeleteAlerts
    <2>3. ASSUME NEW n \in q.names, alerts' = [alerts EXCEPT ![n] = A!NoAlert], A!Set(r, [q EXCEPT !.names = @ \ {n}])
          PROVE  AlertInv'
      <3>1. n \in A!Names /\ reconciled \subseteq Nat
        BY <1>1 DEF AlertRequest, AlertInv, AlertTypeOK
      <3>2. AlertMoves
        BY <1>1, <1>16, <2>3, <3>1, NoAlertFacts, OneAlertMoves DEF A!DeleteAlerts
      <3> DEFINE p == [q EXCEPT !.names = @ \ {n}]
      <3>3. /\ p \in AlertRequest /\ p.pc = q.pc /\ p.name = q.name /\ p.alert = q.alert /\ p.op = q.op
            /\ p.ready = q.ready
        BY <1>1 DEF AlertRequest
      <3>4. A!Set(r, p) /\ q.pc = "delete"
        BY <1>16, <2>3 DEF A!DeleteAlerts
      <3> HIDE DEF p
      <3> QED
        BY <3>2, <3>3, <3>4, AlertGoesOn
    <2> QED
      BY <1>16, <2>1, <2>2, <2>3 DEF A!DeleteAlerts
  <1> QED
    BY <1>6, <1>7, <1>8, <1>9, <1>10, <1>12, <1>13, <1>14, <1>15, <1>16 DEF A!Step

(* Every step of the requests and of the operator keeps the invariant.     *)
LEMMA AlertStep == AlertInv /\ [A!Next]_(A!vars) => AlertInv'
  <1> SUFFICES ASSUME AlertInv, [A!Next]_(A!vars) PROVE AlertInv'
    OBVIOUS
  <1>1. CASE UNCHANGED A!vars
    BY <1>1 DEF A!vars, AlertInv, AlertTypeOK
  <1>2. ASSUME NEW r \in Requests, A!Submit(r) \/ A!Step(r) PROVE AlertInv'
    BY <1>2, AlertSubmit, AlertStepOfRequest
  <1>3. ASSUME AlertMoves, alertRequests' = alertRequests PROVE AlertInv'
    <2>1. AlertTypeOK'
      BY <1>3 DEF AlertInv, AlertTypeOK, AlertMoves
    <2>2. \A r \in Requests : AlertRequestInv(alertRequests'[r], reconciled')
      BY <1>3, AlertRequestKept
    <2> QED
      BY <1>3, <2>1, <2>2 DEF AlertInv, AlertMoves
  <1>4. ASSUME NEW n \in A!Names, A!Reconcile(n) PROVE AlertInv'
    <2> DEFINE a == alerts[n]
    <2>1. /\ a \in Alert /\ a.generation \in Nat /\ a.spec \in Nat /\ Sound(a, reconciled) /\ reconciled \subseteq Nat
          /\ secret \in Nat /\ revision + 1 \in Nat /\ revision + 1 # 0
      BY DEF AlertInv, AlertTypeOK, Alert
    <2>2. PICK succeeds \in BOOLEAN :
            /\ alerts' = [alerts EXCEPT ![n] = [@ EXCEPT !.observed = alerts[n].generation,
                                                   !.version = revision + 1, !.succeeded = succeeds]]
            /\ reconciled' = IF succeeds THEN reconciled \cup {alerts[n].spec} ELSE reconciled
      BY <1>4 DEF A!Reconcile
    <2> DEFINE b == [a EXCEPT !.observed = a.generation, !.version = revision + 1, !.succeeded = succeeds]
    <2>3. /\ b \in Alert /\ b.observed = a.generation /\ b.generation = a.generation /\ b.spec = a.spec
          /\ b.version = revision + 1 /\ b.succeeded = succeeds
      BY <2>1 DEF Alert
    <2>4. alerts' = [alerts EXCEPT ![n] = b] /\ revision' = revision + 1 /\ UNCHANGED <<secret, alertRequests>>
      BY <1>4, <2>2 DEF A!Reconcile
    <2>5. reconciled \subseteq reconciled' /\ reconciled' \subseteq Nat /\ (succeeds => a.spec \in reconciled')
      BY <2>1, <2>2
    <2> HIDE DEF b, a
    <2>6. Sound(b, reconciled') /\ Versioned(b)
      BY <2>1, <2>3, <2>5 DEF Sound, Versioned, A!Ready
    <2> QED
      BY <1>3, <2>1, <2>3, <2>4, <2>5, <2>6, OneAlertMoves
  <1>5. CASE A!SyncSecret
    <2>1. secret' \in Nat /\ revision' \in Nat /\ UNCHANGED <<alerts, reconciled, alertRequests>>
      BY <1>5 DEF A!SyncSecret, AlertInv, AlertTypeOK
    <2> QED
      BY <1>3, <2>1, AlertsKept
  <1> QED
    BY <1>1, <1>2, <1>4, <1>5 DEF A!Next

(* The invariant of the alert configuration.                               *)
THEOREM AlertInvariant == AllSpec => []AlertInv
  <1>1. AlertInv /\ [AllNext]_allVars => AlertInv'
    BY AlertStep, StepOfParts
  <1> QED
    BY <1>1, AlertInitially, PTL DEF AllSpec

(* A configuration shown as ready is one that the operator has brought     *)
(* into effect (getAlertingConfigFromRadixAlert).                          *)
THEOREM ReadyTheorem == AllSpec => []ReadyIsReconciled
  <1>1. AlertInv => ReadyIsReconciled
    BY DEF AlertInv, AlertRequestInv, ReadyIsReconciled, A!ReadyIsReconciled
  <1> QED
    BY <1>1, AlertInvariant, PTL

(* Only enabling makes a RadixAlert, and the default one: no update that   *)
(* was under way brings disabled alerting back (applyRadixAlert).          *)
THEOREM EnablingTheorem == AllSpec => OnlyEnablingEnables
  <1>1. ASSUME AlertInv, [A!Next]_(A!vars), NEW n \in A!Names, alerts[n] = A!NoAlert, alerts'[n] # A!NoAlert
        PROVE  n = A!Default /\ \E r \in Requests : alertRequests[r].pc = "create" /\ alertRequests[r].op = "Enable"
    <2>1. alerts \in [A!Names -> Alert]
      BY <1>1 DEF AlertInv, AlertTypeOK
    <2>2. n \notin A!Existing /\ alerts' # alerts
      BY <1>1 DEF A!Existing
    <2>3. ASSUME NEW r \in Requests, A!Create(r)
          PROVE  n = A!Default /\ alertRequests[r].pc = "create" /\ alertRequests[r].op = "Enable"
      <3> DEFINE q == alertRequests[r]
      <3>1. q.pc = "create" /\ q.alert.version = 0 /\ alerts' = [alerts EXCEPT ![q.name] = A!Written(A!NoAlert)]
        BY <2>2, <2>3 DEF A!Create, A!Creatable
      <3>2. n = q.name
        BY <1>1, <2>1, <3>1
      <3>3. AlertRequestInv(q, reconciled)
        BY <1>1 DEF AlertInv
      <3> QED
        BY <3>1, <3>2, <3>3 DEF AlertRequestInv, Writing
    <2>4. ASSUME NEW r \in Requests, A!UpdateAlert(r) PROVE FALSE
      <3>1. alertRequests[r].name # n /\ alerts' = [alerts EXCEPT ![alertRequests[r].name] = A!Written(@)]
        BY <1>1, <2>2, <2>4 DEF A!UpdateAlert
      <3> QED
        BY <1>1, <2>1, <3>1
    <2>5. ASSUME NEW r \in Requests, A!DeleteAlerts(r) PROVE FALSE
      BY <1>1, <2>1, <2>5 DEF A!DeleteAlerts
    <2>6. ASSUME NEW m \in A!Names, A!Reconcile(m) PROVE FALSE
      BY <1>1, <2>1, <2>2, <2>6 DEF A!Reconcile
    <2>7. ASSUME NEW r \in Requests, A!Submit(r) PROVE FALSE
      BY <2>2, <2>7
      DEF A!Submit, A!UpdateEnvironmentAlertingConfig, A!GetEnvironmentAlertingConfig,
          A!EnableEnvironmentAlerting, A!DisableEnvironmentAlerting, A!UpdateApplicationAlertingConfig,
          A!GetApplicationAlertingConfig, A!EnableApplicationAlerting, A!DisableApplicationAlerting,
          A!EnvironmentRouteAccessCheck, A!Malformed, A!Begin, A!Kept
    <2>8. ASSUME NEW r \in Requests, A!Step(r) PROVE A!Create(r) \/ A!UpdateAlert(r) \/ A!DeleteAlerts(r)
      BY <2>2, <2>8 DEF A!Step, A!List, A!Validate, A!GetConfigSecret, A!UpdateConfigSecret, A!Apply,
                        A!WaitForReconciled, A!AnswerConfig, A!Kept
    <2>9. ~A!SyncSecret /\ ~UNCHANGED A!vars
      BY <2>2 DEF A!SyncSecret, A!vars
    <2> QED
      BY <1>1, <2>3, <2>4, <2>5, <2>6, <2>7, <2>8, <2>9 DEF A!Next
  <1>2. AlertInv /\ [AllNext]_allVars =>
          [\A n \in A!Names : alerts[n] = A!NoAlert /\ alerts'[n] # A!NoAlert =>
              n = A!Default /\ \E r \in Requests : alertRequests[r].pc = "create" /\ alertRequests[r].op = "Enable"]_(A!vars)
    BY <1>1, StepOfParts
  <1> QED
    BY <1>2, AlertInvariant, PTL DEF AllSpec, OnlyEnablingEnables, A!OnlyEnablingEnables
-----------------------------------------------------------------------------
(***************************************************************************)
(* The environment variables                                               *)
(***************************************************************************)

Values == [Variables -> Words \cup {E!None}]
Changes == UNION {[V -> Words] : V \in SUBSET UNION {ChangesOf[r] : r \in Requests}}

VariablePhases == {"idle", "read", "data", "metadata", "done"}
VariableAnswers == {E!None, "OK", "Error"}

VariableRequest ==
  [pc : VariablePhases, change : Changes \cup {<<>>}, data : Values \cup {<<>>}, metadata : Values \cup {<<>>},
   answer : VariableAnswers]

(* The variables there are never change, and what a request has read was   *)
(* there.                                                                  *)
SameVariables(d) == \A v \in Variables : d[v] = E!None <=> config[v] = E!None

HasRead(q) ==
  /\ q.pc \in {"read", "data", "metadata"} => q.change \in Changes
  /\ q.pc \in {"data", "metadata"} => q.data \in Values /\ q.metadata \in Values /\ SameVariables(q.data)

VariableInv ==
  /\ data \in Values /\ metadata \in Values /\ config \in Values /\ alone \in BOOLEAN
  /\ variableRequests \in [Requests -> VariableRequest]
  /\ SameVariables(data)
  /\ \A r \in Requests : HasRead(variableRequests[r])

(* A request before its first step.                                        *)
LEMMA VariableIdleFacts ==
  /\ E!Idle \in VariableRequest /\ E!Idle.pc = "idle"
  BY DEF E!Idle, VariableRequest, VariablePhases, VariableAnswers

(* The values after a change: the same variables are there.                *)
LEMMA DesiredDataFacts ==
  ASSUME NEW c \in Changes, NEW d \in Values, SameVariables(d)
  PROVE  E!DesiredData(c, d) \in Values /\ SameVariables(E!DesiredData(c, d))
  <1> DEFINE b == E!DesiredData(c, d)
  <1>1. \A v \in DOMAIN c : c[v] \in Words
    BY DEF Changes
  <1>2. \A v \in Variables : b[v] = IF v \in E!Known(c, d) THEN c[v] ELSE d[v]
    BY DEF E!DesiredData
  <1>3. \A v \in Variables : v \in E!Known(c, d) => c[v] \in Words /\ d[v] # E!None
    BY <1>1 DEF E!Known, E!Changed
  <1>4. b \in Values
    BY <1>1, <1>3 DEF E!DesiredData, Values
  <1> HIDE DEF b
  <1>5. SameVariables(b)
    BY <1>2, <1>3, WordsAssumption DEF SameVariables
  <1> QED
    BY <1>4, <1>5 DEF b

(* And so they are when only the differences are written.                  *)
LEMMA PatchedFacts ==
  ASSUME NEW d \in Values, NEW read \in Values, NEW new \in Values,
         SameVariables(d), SameVariables(read), SameVariables(new)
  PROVE  E!Patched(d, read, new) \in Values /\ SameVariables(E!Patched(d, read, new))
  BY DEF E!Patched, Values, SameVariables

(* The metadata after a change.                                            *)
LEMMA DesiredMetadataFacts ==
  ASSUME NEW c \in Changes, NEW d \in Values, NEW m \in Values
  PROVE  E!DesiredMetadata(c, d, m) \in Values
  BY DEF E!DesiredMetadata, Values

(* The ConfigMaps change and one request does.                             *)
LEMMA VariableChanges ==
  ASSUME VariableInv, NEW r \in Requests, NEW q \in VariableRequest, E!Set(r, q), HasRead(q),
         data' \in Values, SameVariables(data'), metadata' \in Values, config' = config, alone' \in BOOLEAN
  PROVE  VariableInv'
  <1>1. variableRequests' \in [Requests -> VariableRequest]
    BY DEF VariableInv, E!Set
  <1>2. ASSUME NEW s \in Requests PROVE HasRead(variableRequests'[s])
    BY DEF VariableInv, E!Set
  <1>3. \A s \in Requests : HasRead(variableRequests[s])'
    BY <1>2 DEF HasRead, SameVariables
  <1>4. SameVariables(data)'
    BY DEF SameVariables
  <1> QED
    BY <1>1, <1>3, <1>4 DEF VariableInv

(* A request that is answered.                                             *)
LEMMA VariableAnswered ==
  ASSUME VariableInv, NEW r \in Requests, NEW a \in VariableAnswers, E!Answer(r, a),
         data' \in Values, SameVariables(data'), metadata' \in Values, config' = config, alone' \in BOOLEAN
  PROVE  VariableInv'
  <1> DEFINE q == [E!Idle EXCEPT !.pc = "done", !.answer = a]
  <1>1. q \in VariableRequest /\ q.pc = "done"
    BY VariableIdleFacts DEF VariableRequest, VariablePhases
  <1>2. E!Set(r, q)
    BY DEF E!Answer
  <1> HIDE DEF q
  <1>3. HasRead(q)
    BY <1>1 DEF HasRead
  <1> QED
    BY <1>1, <1>2, <1>3, VariableChanges

(* The values at first are those of radixconfig.yaml.                      *)
LEMMA VariableInitially == AllInit => VariableInv
  <1> SUFFICES ASSUME AllInit PROVE VariableInv
    OBVIOUS
  <1>1. config \in Values /\ data = config /\ metadata = [v \in Variables |-> E!None] /\ alone = TRUE
        /\ variableRequests = [r \in Requests |-> E!Idle]
    BY DEF AllInit, E!Init, Values
  <1>2. metadata \in Values /\ SameVariables(data)
    BY <1>1 DEF Values, SameVariables
  <1>3. \A r \in Requests : HasRead(variableRequests[r])
    BY <1>1, VariableIdleFacts DEF HasRead
  <1> QED
    BY <1>1, <1>2, <1>3, VariableIdleFacts DEF VariableInv

(* Every step of a change keeps the invariant.                             *)
LEMMA VariableStep == VariableInv /\ [E!Next]_(E!vars) => VariableInv'
  <1> SUFFICES ASSUME VariableInv, [E!Next]_(E!vars) PROVE VariableInv'
    OBVIOUS
  <1>1. CASE UNCHANGED E!vars
    BY <1>1 DEF E!vars, VariableInv, HasRead, SameVariables
  <1>2. ASSUME NEW r \in Requests, E!ChangeEnvVar(r) \/ E!Step(r) PROVE VariableInv'
    <2> DEFINE q == variableRequests[r]
    <2>1. /\ data \in Values /\ metadata \in Values /\ config \in Values /\ alone \in BOOLEAN
          /\ SameVariables(data) /\ HasRead(q) /\ q \in VariableRequest
      BY DEF VariableInv
    <2>2. CASE E!ChangeEnvVar(r)
      <3>1. PICK change \in UNION {[V -> Words] : V \in SUBSET ChangesOf[r]} :
              E!Set(r, [E!Idle EXCEPT !.pc = "read", !.change = change])
        BY <2>2 DEF E!ChangeEnvVar
      <3>2. change \in Changes
        BY DEF Changes
      <3> DEFINE p == [E!Idle EXCEPT !.pc = "read", !.change = change]
      <3>3. p \in VariableRequest /\ p.pc = "read" /\ p.change = change
        BY <3>2, VariableIdleFacts DEF VariableRequest, VariablePhases
      <3>4. E!Set(r, p) /\ UNCHANGED <<data, metadata, config>> /\ alone' \in BOOLEAN
        BY <2>1, <2>2, <3>1 DEF E!ChangeEnvVar
      <3> HIDE DEF p
      <3>5. HasRead(p)
        BY <3>2, <3>3 DEF HasRead
      <3> QED
        BY <2>1, <3>3, <3>4, <3>5, VariableChanges
    <2>3. CASE E!Read(r)
      <3>1. UNCHANGED <<data, metadata, config, alone>> /\ q.pc = "read"
        BY <2>3 DEF E!Read
      <3>2. CASE E!Answer(r, "Error") \/ E!Answer(r, "OK")
        BY <2>1, <3>1, <3>2, VariableAnswered DEF VariableAnswers
      <3>3. CASE E!Set(r, [q EXCEPT !.pc = "data", !.data = data, !.metadata = metadata])
        <4> DEFINE p == [q EXCEPT !.pc = "data", !.data = data, !.metadata = metadata]
        <4>1. p \in VariableRequest /\ p.pc = "data" /\ p.change = q.change /\ p.data = data /\ p.metadata = metadata
          BY <2>1 DEF VariableRequest, VariablePhases
        <4>2. E!Set(r, p)
          BY <3>3
        <4> HIDE DEF p
        <4>3. HasRead(p)
          BY <2>1, <3>1, <4>1 DEF HasRead
        <4> QED
          BY <2>1, <3>1, <4>1, <4>2, <4>3, VariableChanges
      <3> QED
        BY <2>3, <3>2, <3>3 DEF E!Read
    <2>4. CASE E!ApplyConfigMap(r)
      <3>1. UNCHANGED <<metadata, config>> /\ q.pc = "data" /\ alone' \in BOOLEAN
        BY <2>1, <2>4 DEF E!ApplyConfigMap
      <3>2. data' \in Values /\ SameVariables(data')
        <4>1. CASE data' = data
          BY <2>1, <4>1
        <4>2. CASE data' = E!Patched(data, q.data, E!DesiredData(q.change, q.data))
          <5>1. q.change \in Changes /\ q.data \in Values /\ SameVariables(q.data)
            BY <2>1, <3>1 DEF HasRead
          <5> QED
            BY <2>1, <4>2, <5>1, DesiredDataFacts, PatchedFacts
        <4> QED
          BY <2>4, <4>1, <4>2 DEF E!ApplyConfigMap
      <3>3. CASE E!Answer(r, "Error")
        BY <2>1, <3>1, <3>2, <3>3, VariableAnswered DEF VariableAnswers
      <3>4. CASE E!Set(r, [q EXCEPT !.pc = "metadata"])
        <4> DEFINE p == [q EXCEPT !.pc = "metadata"]
        <4>1. /\ p \in VariableRequest /\ p.pc = "metadata" /\ p.change = q.change /\ p.data = q.data
              /\ p.metadata = q.metadata
          BY <2>1 DEF VariableRequest, VariablePhases
        <4>2. E!Set(r, p)
          BY <3>4
        <4> HIDE DEF p
        <4>3. HasRead(p)
          BY <2>1, <3>1, <4>1 DEF HasRead
        <4> QED
          BY <2>1, <3>1, <3>2, <4>1, <4>2, <4>3, VariableChanges
      <3> QED
        BY <2>4, <3>3, <3>4 DEF E!ApplyConfigMap
    <2>5. CASE E!ApplyMetadata(r)
      <3>1. UNCHANGED <<data, config>> /\ q.pc = "metadata" /\ alone' \in BOOLEAN
        BY <2>1, <2>5 DEF E!ApplyMetadata
      <3>2. metadata' \in Values
        <4>1. q.change \in Changes /\ q.data \in Values /\ q.metadata \in Values
          BY <2>1, <3>1 DEF HasRead
        <4>2. E!DesiredMetadata(q.change, q.data, q.metadata) \in Values
          BY <4>1, DesiredMetadataFacts
        <4> QED
          BY <2>1, <2>5, <4>2 DEF E!ApplyMetadata
      <3>3. E!Answer(r, "OK") \/ E!Answer(r, "Error")
        BY <2>5 DEF E!ApplyMetadata
      <3> QED
        BY <2>1, <3>1, <3>2, <3>3, VariableAnswered DEF VariableAnswers
    <2> QED
      BY <1>2, <2>2, <2>3, <2>4, <2>5 DEF E!Step
  <1> QED
    BY <1>1, <1>2 DEF E!Next

(* The invariant of the environment variables.                             *)
THEOREM VariableInvariant == AllSpec => []VariableInv
  <1>1. VariableInv /\ [AllNext]_allVars => VariableInv'
    BY VariableStep, StepOfParts
  <1> QED
    BY <1>1, VariableInitially, PTL DEF AllSpec

(* A variable only ever gets a value that a request under way has for it;  *)
(* those of Radix and unknown ones never change (ChangeEnvVar).            *)
THEOREM NamedChangeTheorem == AllSpec => OnlyNamedChange
  <1>1. ASSUME VariableInv, [E!Next]_(E!vars), NEW v \in Variables, data'[v] # data[v]
        PROVE  /\ v \notin Reserved /\ data[v] # E!None
               /\ \E r \in E!UnderWay :
                     v \in DOMAIN variableRequests[r].change /\ data'[v] = variableRequests[r].change[v]
    <2>1. PICK r \in Requests : E!ApplyConfigMap(r)
      BY <1>1 DEF E!Next, E!Step, E!vars, E!ChangeEnvVar, E!Read, E!ApplyMetadata
    <2> DEFINE q == variableRequests[r]
               new == E!DesiredData(q.change, q.data)
    <2>2. q.pc = "data" /\ data' = E!Patched(data, q.data, new)
      BY <1>1, <2>1 DEF E!ApplyConfigMap
    <2>3. q.change \in Changes /\ q.data \in Values /\ SameVariables(q.data) /\ SameVariables(data)
      BY <1>1, <2>2 DEF VariableInv, HasRead
    <2>4. r \in E!UnderWay
      BY <2>2 DEF E!UnderWay
    <2>5. new[v] = IF v \in E!Known(q.change, q.data) THEN q.change[v] ELSE q.data[v]
      BY DEF E!DesiredData
    <2> HIDE DEF new
    <2>6. new[v] # q.data[v] /\ data'[v] = new[v]
      BY <1>1, <2>2 DEF E!Patched
    <2>7. v \in E!Known(q.change, q.data) /\ data'[v] = q.change[v]
      BY <2>5, <2>6
    <2>8. v \in DOMAIN q.change /\ v \notin Reserved /\ q.data[v] # E!None
      BY <2>7 DEF E!Known, E!Changed
    <2>9. data[v] # E!None
      BY <2>3, <2>8 DEF SameVariables
    <2> QED
      BY <2>4, <2>7, <2>8, <2>9
  <1>2. VariableInv /\ [AllNext]_allVars =>
          [\A v \in Variables : data'[v] # data[v] =>
              /\ v \notin Reserved /\ data[v] # E!None
              /\ \E r \in E!UnderWay :
                    v \in DOMAIN variableRequests[r].change /\ data'[v] = variableRequests[r].change[v]]_(E!vars)
    BY <1>1, StepOfParts
  <1> QED
    BY <1>2, VariableInvariant, PTL DEF AllSpec, OnlyNamedChange, E!OnlyNamedChange
-----------------------------------------------------------------------------
(* What is shown of the variables, where no two values differ by case      *)
(* only: with such values it is not so (see ConfigValueIsTrue).            *)

NoTwoSpellings == \A a, b \in Words : Folded[a] = Folded[b] => a = b

Shows(d, m) == \A v \in Variables : m[v] = IF d[v] # config[v] THEN config[v] ELSE E!None

(* A change that is alone finds the ConfigMaps as it left them.            *)
Undisturbed(q) ==
  /\ q.pc = "read" => Shows(data, metadata)
  /\ q.pc = "data" => q.data = data /\ q.metadata = metadata /\ Shows(data, metadata)
  /\ q.pc = "metadata" =>
       q.metadata = metadata /\ data = E!DesiredData(q.change, q.data) /\ Shows(q.data, q.metadata)

ShownInv ==
  NoTwoSpellings /\ alone =>
    /\ \A r, s \in E!UnderWay : r = s
    /\ E!UnderWay = {} => Shows(data, metadata)
    /\ \A r \in Requests : Undisturbed(variableRequests[r])

(* A change that ends is shown.                                            *)
LEMMA ChangeIsShown ==
  ASSUME NoTwoSpellings, NEW c \in Changes, NEW d \in Values, NEW m \in Values, config \in Values,
         SameVariables(d), Shows(d, m)
  PROVE  Shows(E!DesiredData(c, d), E!DesiredMetadata(c, d, m))
  <1> DEFINE e == E!DesiredData(c, d)
             n == E!DesiredMetadata(c, d, m)
  <1>1. SUFFICES ASSUME NEW v \in Variables
                 PROVE  n[v] = IF e[v] # config[v] THEN config[v] ELSE E!None
    BY DEF Shows
  <1>2. /\ m[v] = IF d[v] # config[v] THEN config[v] ELSE E!None
        /\ d[v] = E!None <=> config[v] = E!None
        /\ config[v] \in Words \cup {E!None}
    BY DEF Shows, SameVariables, Values
  <1>3. e[v] = IF v \in E!Known(c, d) THEN c[v] ELSE d[v]
    BY DEF E!DesiredData
  <1>4. n[v] = IF v \notin E!Changed(c) THEN m[v]
               ELSE IF d[v] = E!None THEN E!None
               ELSE IF m[v] # E!None THEN (IF Folded[m[v]] = Folded[c[v]] THEN E!None ELSE m[v])
               ELSE IF Folded[d[v]] # Folded[c[v]] THEN d[v]
               ELSE E!None
    BY DEF E!DesiredMetadata
  <1> HIDE DEF e, n
  <1>5. CASE v \notin E!Changed(c)
    BY <1>2, <1>3, <1>4, <1>5 DEF E!Known
  <1>6. CASE v \in E!Changed(c) /\ d[v] = E!None
    BY <1>2, <1>3, <1>4, <1>6 DEF E!Known
  <1>7. CASE v \in E!Changed(c) /\ d[v] # E!None
    <2>1. e[v] = c[v] /\ c[v] \in Words /\ config[v] \in Words
      BY <1>2, <1>3, <1>7 DEF E!Known, E!Changed, Changes
    <2>2. Folded[config[v]] = Folded[c[v]] <=> config[v] = c[v]
      BY <2>1 DEF NoTwoSpellings
    <2> QED
      BY <1>2, <1>4, <1>7, <2>1, <2>2, WordsAssumption
  <1> QED
    BY <1>5, <1>6, <1>7

(* Nothing was changed at first, and nothing is shown.                     *)
LEMMA ShownInitially == AllInit => ShownInv
  <1> SUFFICES ASSUME AllInit PROVE ShownInv
    OBVIOUS
  <1>1. data = config /\ metadata = [v \in Variables |-> E!None] /\ variableRequests = [r \in Requests |-> E!Idle]
    BY DEF AllInit, E!Init
  <1>2. Shows(data, metadata)
    BY <1>1 DEF Shows
  <1> QED
    BY <1>1, <1>2, VariableIdleFacts DEF ShownInv, Undisturbed, E!UnderWay

(* Every step of a change that is alone keeps it shown.                    *)
LEMMA ShownStep == VariableInv /\ ShownInv /\ [E!Next]_(E!vars) => ShownInv'
  <1> SUFFICES ASSUME VariableInv, ShownInv, [E!Next]_(E!vars), NoTwoSpellings, alone'
               PROVE  /\ \A r, s \in E!UnderWay' : r = s
                      /\ E!UnderWay' = {} => Shows(data, metadata)'
                      /\ \A r \in Requests : Undisturbed(variableRequests[r])'
    BY DEF ShownInv
  <1>1. CASE UNCHANGED E!vars
    BY <1>1 DEF E!vars, ShownInv, Undisturbed, Shows, E!UnderWay
  <1>2. ASSUME NEW r \in Requests, E!ChangeEnvVar(r) \/ E!Step(r)
        PROVE  /\ \A s, t \in E!UnderWay' : s = t
               /\ E!UnderWay' = {} => Shows(data, metadata)'
               /\ \A s \in Requests : Undisturbed(variableRequests[s])'
    <2> DEFINE q == variableRequests[r]
               p == variableRequests'[r]
    <2>1. /\ data \in Values /\ metadata \in Values /\ config \in Values /\ alone \in BOOLEAN
          /\ SameVariables(data) /\ HasRead(q) /\ q \in VariableRequest
          /\ variableRequests \in [Requests -> VariableRequest]
      BY DEF VariableInv
    <2>2. alone /\ config' = config
      BY <1>2, <2>1 DEF E!ChangeEnvVar, E!Step, E!Read, E!ApplyConfigMap, E!ApplyMetadata
    <2>3. /\ \A s, t \in E!UnderWay : s = t
          /\ E!UnderWay = {} => Shows(data, metadata)
          /\ Undisturbed(q)
      BY <2>2 DEF ShownInv
    <2>4. r \in E!UnderWay \/ E!UnderWay = {}
      BY <1>2 DEF E!ChangeEnvVar, E!Step, E!Read, E!ApplyConfigMap, E!ApplyMetadata, E!UnderWay
    <2>5. \A s \in Requests \ {r} : variableRequests'[s] = variableRequests[s] /\ s \notin E!UnderWay
      BY <1>2, <2>1, <2>3, <2>4
      DEF E!ChangeEnvVar, E!Step, E!Read, E!ApplyConfigMap, E!ApplyMetadata, E!Answer, E!Set
    <2>6. SUFFICES /\ p.pc \in {"idle", "done"} => Shows(data', metadata')
                   /\ p.pc = "read" => Shows(data', metadata')
                   /\ p.pc = "data" => p.data = data' /\ p.metadata = metadata' /\ Shows(data', metadata')
                   /\ p.pc = "metadata" =>
                        /\ p.metadata = metadata' /\ data' = E!DesiredData(p.change, p.data)
                        /\ Shows(p.data, p.metadata)
      <3>1. \A s \in Requests \ {r} : variableRequests'[s].pc \in {"idle", "done"}
        BY <2>5 DEF E!UnderWay
      <3>2. \A s \in E!UnderWay' : s = r
        BY <3>1 DEF E!UnderWay
      <3>3. E!UnderWay' = {} => p.pc \in {"idle", "done"}
        BY DEF E!UnderWay
      <3>4. \A s \in Requests \ {r} : Undisturbed(variableRequests[s])'
        BY <3>1 DEF Undisturbed
      <3>5. Undisturbed(variableRequests[r])'
        BY <2>2 DEF Undisturbed, Shows
      <3> QED
        BY <2>2, <3>2, <3>3, <3>4, <3>5 DEF Shows
    <2>7. ASSUME NEW a, E!Answer(r, a) PROVE p.pc = "done"
      BY <2>1, <2>7, VariableIdleFacts DEF E!Answer, E!Set, VariableRequest
    <2>8. CASE E!ChangeEnvVar(r)
      <3>1. p.pc = "read" /\ data' = data /\ metadata' = metadata /\ E!UnderWay = {}
        BY <2>1, <2>8, VariableIdleFacts DEF E!ChangeEnvVar, E!Set, VariableRequest
      <3> QED
        BY <2>3, <3>1
    <2>9. CASE E!Read(r)
      <3>1. q.pc = "read" /\ data' = data /\ metadata' = metadata
        BY <2>9 DEF E!Read
      <3>2. Shows(data, metadata)
        BY <2>3, <3>1 DEF Undisturbed
      <3>3. CASE E!Answer(r, "Error") \/ E!Answer(r, "OK")
        BY <2>7, <3>1, <3>2, <3>3
      <3>4. CASE E!Set(r, [q EXCEPT !.pc = "data", !.data = data, !.metadata = metadata])
        <4>1. p.pc = "data" /\ p.data = data /\ p.metadata = metadata
          BY <2>1, <3>4 DEF E!Set, VariableRequest
        <4> QED
          BY <3>1, <3>2, <4>1
      <3> QED
        BY <2>9, <3>3, <3>4 DEF E!Read
    <2>10. CASE E!ApplyConfigMap(r)
      <3>1. q.pc = "data" /\ metadata' = metadata
        BY <2>10 DEF E!ApplyConfigMap
      <3>2. q.data = data /\ q.metadata = metadata /\ Shows(data, metadata)
        BY <2>3, <3>1 DEF Undisturbed
      <3>3. CASE E!Answer(r, "Error") /\ data' = data
        BY <2>7, <3>1, <3>2, <3>3
      <3>4. CASE E!Set(r, [q EXCEPT !.pc = "metadata"]) /\ data' = E!Patched(data, q.data, E!DesiredData(q.change, q.data))
        <4>1. p.pc = "metadata" /\ p.data = q.data /\ p.metadata = q.metadata /\ p.change = q.change
          BY <2>1, <3>4 DEF E!Set, VariableRequest
        <4>2. q.change \in Changes
          BY <2>1, <3>1 DEF HasRead
        <4>3. E!DesiredData(q.change, data) \in Values
          BY <2>1, <4>2, DesiredDataFacts
        <4>4. ASSUME NEW new \in Values PROVE E!Patched(data, data, new) = new
          BY <2>1 DEF E!Patched, Values
        <4> QED
          BY <3>1, <3>2, <3>4, <4>1, <4>3, <4>4
      <3> QED
        BY <2>10, <3>3, <3>4 DEF E!ApplyConfigMap
    <2>11. CASE E!ApplyMetadata(r)
      <3> DEFINE new == E!DesiredMetadata(q.change, q.data, q.metadata)
      <3>1. q.pc = "metadata" /\ data' = data /\ metadata' = (IF new # q.metadata THEN new ELSE metadata) /\ p.pc = "done"
        BY <2>7, <2>11 DEF E!ApplyMetadata
      <3>2. q.metadata = metadata /\ data = E!DesiredData(q.change, q.data) /\ Shows(q.data, q.metadata)
        BY <2>3, <3>1 DEF Undisturbed
      <3>3. q.change \in Changes /\ q.data \in Values /\ q.metadata \in Values /\ SameVariables(q.data)
        BY <2>1, <3>1 DEF HasRead
      <3>4. Shows(data, new)
        BY <2>1, <3>2, <3>3, ChangeIsShown
      <3> QED
        BY <3>1, <3>2, <3>4
    <2> QED
      BY <1>2, <2>8, <2>9, <2>10, <2>11 DEF E!Step
  <1> QED
    BY <1>1, <1>2 DEF E!Next

(* Between changes made alone and to their end, a variable is shown with   *)
(* the value of radixconfig.yaml exactly when that is another, wherever no *)
(* two values differ by case only (ChangeEnvVar, GetComponentEnvVars).     *)
THEOREM ShownTheorem == AllSpec => [](NoTwoSpellings => ConfigValueIsShown)
  <1>1. VariableInv /\ ShownInv /\ [AllNext]_allVars => ShownInv'
    BY ShownStep, StepOfParts
  <1>2. ShownInv => (NoTwoSpellings => ConfigValueIsShown)
    BY DEF ShownInv, Shows, ConfigValueIsShown, E!ConfigValueIsShown, E!Shown
  <1> QED
    BY <1>1, <1>2, VariableInvariant, ShownInitially, PTL DEF AllSpec
-----------------------------------------------------------------------------
(***************************************************************************)
(* The restart of a proxy                                                  *)
(***************************************************************************)

RestartPhases == {"idle", "list", "get", "update", "done"}
RestartAnswers == {"none", "OK", "Error", "Forbidden", "Invalid", "NotFound", "CannotRestart", "Conflict"}

Deployment == [version : Nat, replicas : Nat, stamp : Requests \cup {R!NoStamp}]
RestartRequest == [pc : RestartPhases, copy : Deployment, tries : Nat, answer : RestartAnswers]

RestartTypeOK ==
  /\ deployment \in Deployment /\ versions \in Nat
  /\ restarts \in [Requests -> RestartRequest]

(* A copy with the version of the Deployment is the Deployment, stamped:   *)
(* no version is given out twice.                                          *)
RestartRequestInv(r, q, d, n) ==
  /\ q.copy.version <= n
  /\ q.pc = "update" /\ d # R!Missing /\ d.version = q.copy.version => q.copy = R!Stamped(r, d)

RestartInv ==
  /\ RestartTypeOK /\ deployment.version <= versions
  /\ \A r \in Requests : RestartRequestInv(r, restarts[r], deployment, versions)

(* No Deployment at all is older than any.                                 *)
LEMMA MissingFacts ==
  R!Missing \in Deployment /\ R!Missing.version = 0
  BY DEF R!Missing, Deployment

(* A request before its first step.                                        *)
LEMMA RestartIdleFacts ==
  R!Idle \in RestartRequest /\ R!Idle.copy = R!Missing
  BY MissingFacts DEF R!Idle, RestartRequest, RestartPhases, RestartAnswers

(* What the others do to the Deployment: a new version, or none at all.    *)
RestartMoves ==
  \/ UNCHANGED <<deployment, versions>>
  \/ /\ versions' = versions + 1 /\ deployment' \in Deployment
     /\ deployment' = R!Missing \/ deployment'.version = versions + 1

(* What the others do leaves a copy the Deployment, or makes it outdated.  *)
LEMMA RestartKept ==
  ASSUME RestartInv, RestartMoves, NEW r \in Requests
  PROVE  RestartRequestInv(r, restarts[r], deployment', versions')
  <1> DEFINE p == restarts[r]
  <1>1. p \in RestartRequest /\ RestartRequestInv(r, p, deployment, versions) /\ versions \in Nat
    BY DEF RestartInv, RestartTypeOK
  <1>2. p.copy.version \in Nat
    BY <1>1 DEF RestartRequest, Deployment
  <1> HIDE DEF p
  <1>3. RestartRequestInv(r, p, deployment', versions')
    BY <1>1, <1>2 DEF RestartRequestInv, RestartMoves
  <1> QED
    BY <1>3 DEF p

(* The Deployment changes and one request does.                            *)
LEMMA RestartChanges ==
  ASSUME RestartInv, RestartMoves, NEW r \in Requests, NEW q \in RestartRequest, R!Set(r, q),
         RestartRequestInv(r, q, deployment', versions')
  PROVE  RestartInv'
  <1>1. RestartTypeOK' /\ deployment'.version <= versions'
    BY MissingFacts DEF RestartInv, RestartTypeOK, RestartMoves, R!Set
  <1>2. ASSUME NEW s \in Requests PROVE RestartRequestInv(s, restarts'[s], deployment', versions')
    <2>1. restarts'[s] = IF s = r THEN q ELSE restarts[s]
      BY DEF RestartInv, RestartTypeOK, R!Set
    <2> QED
      BY <2>1, RestartKept
  <1> QED
    BY <1>1, <1>2 DEF RestartInv

(* A request that is answered.                                             *)
LEMMA RestartAnswered ==
  ASSUME RestartInv, RestartMoves, NEW r \in Requests, NEW a \in RestartAnswers, R!Answer(r, a)
  PROVE  RestartInv'
  <1> DEFINE q == [R!Idle EXCEPT !.pc = "done", !.answer = a]
  <1>1. q \in RestartRequest /\ q.pc = "done" /\ q.copy = R!Missing
    BY RestartIdleFacts DEF RestartRequest, RestartPhases
  <1>2. R!Set(r, q)
    BY DEF R!Answer
  <1> HIDE DEF q
  <1>3. RestartRequestInv(r, q, deployment', versions')
    BY <1>1, MissingFacts DEF RestartRequestInv, RestartMoves, RestartInv, RestartTypeOK
  <1> QED
    BY <1>1, <1>2, <1>3, RestartChanges

(* No copy was made at first.                                              *)
LEMMA RestartInitially == AllInit => RestartInv
  <1> SUFFICES ASSUME AllInit PROVE RestartInv
    OBVIOUS
  <1>1. [version |-> 1, replicas |-> 1, stamp |-> R!NoStamp] \in Deployment
    BY DEF Deployment
  <1>2. deployment \in Deployment /\ versions = 1 /\ deployment.version <= 1
    BY <1>1, MissingFacts DEF AllInit, R!Init
  <1>3. R!Idle.pc = "idle"
    BY DEF R!Idle
  <1>4. restarts = [r \in Requests |-> R!Idle]
    BY DEF AllInit, R!Init
  <1> QED
    BY <1>2, <1>3, <1>4, MissingFacts, RestartIdleFacts DEF RestartInv, RestartTypeOK, RestartRequestInv

(* Every step of the operator and of a restart keeps the invariant.        *)
LEMMA RestartStep == RestartInv /\ [R!Next]_(R!vars) => RestartInv'
  <1> SUFFICES ASSUME RestartInv, [R!Next]_(R!vars) PROVE RestartInv'
    OBVIOUS
  <1>1. CASE UNCHANGED R!vars
    BY <1>1 DEF R!vars, RestartInv, RestartTypeOK
  <1>2. CASE R!SyncDeployment
    <2>1. deployment.stamp \in Requests \cup {R!NoStamp} /\ versions \in Nat
      BY DEF RestartInv, RestartTypeOK, Deployment
    <2>2. RestartMoves
      <3>1. ASSUME NEW n \in {0, 1} PROVE [version |-> versions + 1, replicas |-> n, stamp |-> deployment.stamp] \in Deployment
        BY <2>1 DEF Deployment
      <3> QED
        BY <1>2, <3>1, MissingFacts DEF R!SyncDeployment, RestartMoves
    <2>3. restarts' = restarts
      BY <1>2 DEF R!SyncDeployment
    <2>4. \A s \in Requests : RestartRequestInv(s, restarts'[s], deployment', versions')
      BY <2>2, <2>3, RestartKept
    <2>5. RestartTypeOK' /\ deployment'.version <= versions'
      BY <2>2, <2>3, MissingFacts DEF RestartInv, RestartTypeOK, RestartMoves
    <2> QED
      BY <2>4, <2>5 DEF RestartInv
  <1>3. ASSUME NEW r \in Requests, R!RestartOAuthAuxiliaryResource(r) \/ R!Step(r) PROVE RestartInv'
    <2> DEFINE q == restarts[r]
    <2>1. q \in RestartRequest /\ RestartRequestInv(r, q, deployment, versions)
          /\ deployment \in Deployment /\ deployment.version <= versions /\ versions \in Nat
      BY DEF RestartInv, RestartTypeOK
    <2>2. R!Kept => RestartMoves /\ deployment' = deployment /\ versions' = versions
      BY DEF R!Kept, RestartMoves
    <2>3. CASE R!RestartOAuthAuxiliaryResource(r)
      <3>1. R!Kept
        BY <2>3 DEF R!RestartOAuthAuxiliaryResource
      <3>2. CASE \E a \in {"Error", "Forbidden", "Invalid", "NotFound"} : R!Answer(r, a)
        BY <2>2, <3>1, <3>2, RestartAnswered DEF RestartAnswers
      <3>3. CASE R!Set(r, [R!Idle EXCEPT !.pc = "list"])
        <4> DEFINE p == [R!Idle EXCEPT !.pc = "list"]
        <4>1. p \in RestartRequest /\ p.pc = "list" /\ p.copy = R!Missing
          BY RestartIdleFacts DEF RestartRequest, RestartPhases
        <4>2. R!Set(r, p)
          BY <3>3
        <4> HIDE DEF p
        <4>3. RestartRequestInv(r, p, deployment', versions')
          BY <2>1, <2>2, <3>1, <4>1, MissingFacts DEF RestartRequestInv
        <4> QED
          BY <2>2, <3>1, <4>1, <4>2, <4>3, RestartChanges
      <3> QED
        BY <2>3, <3>2, <3>3 DEF R!RestartOAuthAuxiliaryResource
    <2>4. CASE R!ListDeployments(r)
      <3>1. R!Kept
        BY <2>4 DEF R!ListDeployments
      <3>2. CASE \E a \in RestartAnswers : R!Answer(r, a)
        BY <2>2, <3>1, <3>2, RestartAnswered
      <3>3. CASE R!Set(r, [q EXCEPT !.pc = "get", !.copy = deployment])
        <4> DEFINE p == [q EXCEPT !.pc = "get", !.copy = deployment]
        <4>1. p \in RestartRequest /\ p.pc = "get" /\ p.copy = deployment
          BY <2>1 DEF RestartRequest, RestartPhases
        <4>2. R!Set(r, p)
          BY <3>3
        <4> HIDE DEF p
        <4>3. RestartRequestInv(r, p, deployment', versions')
          BY <2>1, <2>2, <3>1, <4>1 DEF RestartRequestInv
        <4> QED
          BY <2>2, <3>1, <4>1, <4>2, <4>3, RestartChanges
      <3> QED
        BY <2>4, <3>2, <3>3 DEF R!ListDeployments, RestartAnswers
    <2>5. CASE R!GetDeployment(r)
      <3>1. R!Kept
        BY <2>5 DEF R!GetDeployment
      <3>2. CASE \E a \in RestartAnswers : R!Answer(r, a)
        BY <2>2, <3>1, <3>2, RestartAnswered
      <3>3. CASE R!Set(r, [q EXCEPT !.pc = "update", !.copy = R!Stamped(r, deployment)])
        <4> DEFINE c == R!Stamped(r, deployment)
                   p == [q EXCEPT !.pc = "update", !.copy = c]
        <4>1. c \in Deployment /\ c.version = deployment.version
          BY <2>1 DEF R!Stamped, Deployment
        <4>2. R!Set(r, p)
          BY <3>3
        <4> HIDE DEF c
        <4>3. p \in RestartRequest /\ p.pc = "update" /\ p.copy = c
          BY <2>1, <4>1 DEF RestartRequest, RestartPhases
        <4> HIDE DEF p
        <4>4. RestartRequestInv(r, p, deployment', versions')
          BY <2>1, <2>2, <3>1, <4>1, <4>3 DEF RestartRequestInv, c
        <4> QED
          BY <2>2, <3>1, <4>2, <4>3, <4>4, RestartChanges
      <3> QED
        BY <2>5, <3>2, <3>3 DEF R!GetDeployment, RestartAnswers
    <2>6. CASE R!UpdateDeployment(r)
      <3>1. CASE /\ deployment' = [q.copy EXCEPT !.version = versions + 1]
                 /\ versions' = versions + 1
                 /\ \E a \in {"OK", "Error"} : R!Answer(r, a)
        <4>1. deployment' \in Deployment /\ deployment'.version = versions + 1
          BY <2>1, <3>1 DEF RestartRequest, Deployment
        <4>2. RestartMoves
          BY <3>1, <4>1 DEF RestartMoves
        <4> QED
          BY <3>1, <4>2, RestartAnswered DEF RestartAnswers
      <3>2. CASE R!Set(r, [q EXCEPT !.pc = "get", !.tries = @ + 1]) /\ R!Kept
        <4> DEFINE p == [q EXCEPT !.pc = "get", !.tries = @ + 1]
        <4>0. q.tries + 1 \in Nat
          BY <2>1 DEF RestartRequest
        <4>1. p \in RestartRequest /\ p.pc = "get" /\ p.copy = q.copy
          BY <2>1, <4>0 DEF RestartRequest, RestartPhases
        <4>2. R!Set(r, p)
          BY <3>2
        <4> HIDE DEF p
        <4>3. RestartRequestInv(r, p, deployment', versions')
          BY <2>1, <2>2, <3>2, <4>1 DEF RestartRequestInv
        <4> QED
          BY <2>2, <3>2, <4>1, <4>2, <4>3, RestartChanges
      <3>3. CASE \E a \in RestartAnswers : R!Answer(r, a) /\ R!Kept
        BY <2>2, <3>3, RestartAnswered
      <3>4. R!Answer(r, IF R!Exists THEN "Conflict" ELSE "NotFound") \/ R!Answer(r, "Error") =>
              \E a \in RestartAnswers : R!Answer(r, a)
        BY DEF RestartAnswers
      <3> QED
        BY <2>6, <3>1, <3>2, <3>3, <3>4 DEF R!UpdateDeployment
    <2> QED
      BY <1>3, <2>3, <2>4, <2>5, <2>6 DEF R!Step
  <1> QED
    BY <1>1, <1>2, <1>3 DEF R!Next

(* The invariant of the restart.                                           *)
THEOREM RestartInvariant == AllSpec => []RestartInv
  <1>1. RestartInv /\ [AllNext]_allVars => RestartInv'
    BY RestartStep, StepOfParts
  <1> QED
    BY <1>1, RestartInitially, PTL DEF AllSpec

(* A restart writes its stamp and nothing else, whatever the operator and  *)
(* other restarts did since the Deployment was judged                      *)
(* (patchDeploymentForRestart).                                            *)
THEOREM RestartTheorem == AllSpec => RestartOnlyStamps
  <1>1. ASSUME RestartInv, NEW r \in Requests, R!UpdateDeployment(r), versions' # versions
        PROVE  deployment' = [deployment EXCEPT !.stamp = r, !.version = versions']
    <2> DEFINE q == restarts[r]
    <2>1. /\ q.pc = "update" /\ deployment # R!Missing /\ deployment.version = q.copy.version
          /\ deployment' = [q.copy EXCEPT !.version = versions + 1] /\ versions' = versions + 1
      BY <1>1 DEF R!UpdateDeployment, R!Exists, R!Kept
    <2>2. q.copy = [deployment EXCEPT !.stamp = r] /\ deployment \in Deployment
      BY <1>1, <2>1 DEF RestartInv, RestartTypeOK, RestartRequestInv, R!Stamped
    <2> HIDE DEF q
    <2> QED
      BY <2>1, <2>2 DEF Deployment
  <1>2. RestartInv /\ [AllNext]_allVars =>
          [\A r \in Requests : R!UpdateDeployment(r) /\ versions' # versions =>
              deployment' = [deployment EXCEPT !.stamp = r, !.version = versions']]_(R!vars)
    BY <1>1
  <1> QED
    BY <1>2, RestartInvariant, PTL DEF AllSpec, RestartOnlyStamps, R!RestartOnlyStamps
==============================================================================
