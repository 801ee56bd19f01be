------------------------------ MODULE Alerting ------------------------------
(***************************************************************************)
(* The alert configuration of an application or an environment: a          *)
(* RadixAlert and a secret with the addresses of its receivers             *)
(* (api/alerting/handler.go and alerting_controller.go).                   *)
(*                                                                         *)
(* Enabling makes the RadixAlert and waits for the operator; an update     *)
(* writes the secret and then the RadixAlert; every answer says whether    *)
(* the operator has brought the configuration it shows into effect.        *)
(***************************************************************************)
EXTENDS Naturals, FiniteSets

CONSTANTS
    Requests,   \* concurrent requests
    OpsOf       \* bound: the operations each request may ask for

Default == "alerting"           \* defaultAlertConfigName
Foreign == "foreign"            \* a RadixAlert that somebody else made
Names == {Default, Foreign}
Ops == {"Enable", "Update", "Disable", "Get"}

\* spec identifies a configuration: the revision with which it was written.
NoAlert == [version |-> 0, generation |-> 0, spec |-> 0, observed |-> 0, succeeded |-> FALSE]

VARIABLES
    alerts,       \* the RadixAlerts of the namespace
    secret,       \* the version of the default RadixAlert's secret, 0 is none;
                  \* the other RadixAlert has none
    revision,     \* the latest resourceVersion given out
    reconciled,   \* the configurations the operator has brought into effect
    requests      \* the requests under way

vars == <<alerts, secret, revision, reconciled, requests>>

Existing == {n \in Names : alerts[n] # NoAlert}

Idle == [op |-> "none", pc |-> "idle", names |-> {}, alert |-> NoAlert, name |-> Default,
         secretRead |-> 0, answer |-> "none", ready |-> FALSE]

Set(r, q) == requests' = [requests EXCEPT ![r] = q]
Answer(r, a) == Set(r, [Idle EXCEPT !.pc = "done", !.answer = a])
Kept == UNCHANGED <<alerts, secret, revision, reconciled>>

-----------------------------------------------------------------------------
(* The requests *)

Begin(r, op) ==
    /\ requests[r].pc = "idle" /\ op \in OpsOf[r]
    /\ Set(r, [Idle EXCEPT !.op = op, !.pc = "list"])
    /\ Kept

\* An update whose body cannot be read.
Malformed(r) == requests[r].pc = "idle" /\ "Update" \in OpsOf[r] /\ Answer(r, "Error") /\ Kept

\* A request for an environment that is not there is refused.
EnvironmentRouteAccessCheck(r) ==
    requests[r].pc = "idle" /\ \E a \in {"NotFound", "Error"} : Answer(r, a) /\ Kept

UpdateEnvironmentAlertingConfig(r) ==
    EnvironmentRouteAccessCheck(r) \/ Malformed(r) \/ Begin(r, "Update")
GetEnvironmentAlertingConfig(r) == EnvironmentRouteAccessCheck(r) \/ Begin(r, "Get")
EnableEnvironmentAlerting(r) == EnvironmentRouteAccessCheck(r) \/ Begin(r, "Enable")
DisableEnvironmentAlerting(r) == EnvironmentRouteAccessCheck(r) \/ Begin(r, "Disable")

UpdateApplicationAlertingConfig(r) == Malformed(r) \/ Begin(r, "Update")
GetApplicationAlertingConfig(r) == Begin(r, "Get")
EnableApplicationAlerting(r) == Begin(r, "Enable")
DisableApplicationAlerting(r) == Begin(r, "Disable")

\* getExistingRadixAlerts, and what each operation makes of the list.
List(r) ==
    LET q == requests[r]
        found(n, pc) == Set(r, [q EXCEPT !.pc = pc, !.name = n, !.alert = alerts[n]])
    IN  /\ q.pc = "list"
        /\ \/ /\ Cardinality(Existing) > 1 /\ q.op \in {"Get", "Update"}
              /\ Answer(r, "Multiple")
           \/ Existing = {} /\ q.op = "Update" /\ Answer(r, "NotEnabled")
           \/ Existing = {} /\ q.op = "Get" /\ Answer(r, "Disabled")
           \/ \E n \in Names : Existing = {n} /\ q.op = "Update" /\ found(n, "validate")
           \/ \E n \in Names : Existing = {n} /\ q.op = "Get" /\ found(n, "answer")
           \/ Existing # {} /\ q.op = "Enable" /\ Answer(r, "AlreadyEnabled")
           \/ Existing = {} /\ q.op = "Enable" /\ Set(r, [q EXCEPT !.pc = "apply"])
           \/ Answer(r, "Error")
           \/ q.op = "Disable" /\ Set(r, [q EXCEPT !.pc = "delete", !.names = Existing])
        /\ Kept

\* The receivers of alerts and of secrets are among those of the request, the
\* alerts have names of this scope and the addresses use https, or the request
\* is refused; without new addresses the secret is left alone.
Validate(r) ==
    /\ requests[r].pc = "validate"
    /\ \/ Answer(r, "Invalid")
       \/ \E pc \in {"getSecret", "apply"} : Set(r, [requests[r] EXCEPT !.pc = pc])
    /\ Kept

GetConfigSecret(r) ==
    /\ requests[r].pc = "getSecret"
    /\ IF requests[r].name = Default /\ secret # 0
       THEN Set(r, [requests[r] EXCEPT !.pc = "secret", !.secretRead = secret])
       ELSE Answer(r, "Error")
    /\ Kept

UpdateConfigSecret(r) ==
    LET q == requests[r]
    IN  /\ q.pc = "secret"
        /\ IF secret = q.secretRead
           THEN /\ secret' = revision + 1 /\ revision' = revision + 1
                /\ Set(r, [q EXCEPT !.pc = "apply"])
           ELSE Answer(r, "Error") /\ UNCHANGED <<secret, revision>>
        /\ UNCHANGED <<alerts, reconciled>>

-----------------------------------------------------------------------------
(* applyRadixAlert *)

Written(alert) ==
    [alert EXCEPT !.version = revision + 1, !.generation = @ + 1, !.spec = revision + 1]

After(q) == IF q.op = "Enable" THEN "wait" ELSE "answer"

\* mutant: what is created is made anew, and has no version
MutantCreatable(q) == TRUE

\* The API server creates nothing that bears a version already: the RadixAlert
\* of an update was read, and cannot be made again once it is gone.
Creatable(q) == q.alert.version = 0

Create(r) ==
    LET q == requests[r]
    IN  /\ q.pc = "create"
        /\ IF Creatable(q) /\ q.name \notin Existing
           THEN /\ alerts' = [alerts EXCEPT ![q.name] = Written(NoAlert)]
                /\ revision' = revision + 1
                /\ Set(r, [q EXCEPT !.pc = After(q), !.alert = alerts'[q.name]])
           ELSE Answer(r, "Error") /\ UNCHANGED <<alerts, revision>>
        /\ UNCHANGED <<secret, reconciled>>

Apply(r) ==
    LET q == requests[r]
    IN  /\ q.pc = "apply"
        /\ \/ q.name \notin Existing /\ Set(r, [q EXCEPT !.pc = "create"])
           \/ q.name \in Existing /\ Set(r, [q EXCEPT !.pc = "update", !.alert = alerts[q.name]])
           \/ Answer(r, "Error")
        /\ Kept

\* The configuration replaces the one of the copy just read, and is refused
\* when that has changed since.
UpdateAlert(r) ==
    LET q == requests[r]
    IN  /\ q.pc = "update"
        /\ IF alerts[q.name] # NoAlert /\ alerts[q.name].version = q.alert.version
           THEN /\ alerts' = [alerts EXCEPT ![q.name] = Written(@)]
                /\ revision' = revision + 1
                /\ Set(r, [q EXCEPT !.pc = After(q), !.alert = alerts'[q.name]])
           ELSE Answer(r, "Error") /\ UNCHANGED <<alerts, revision>>
        /\ UNCHANGED <<secret, reconciled>>

-----------------------------------------------------------------------------
(* The answer *)

\* mutant: a configuration reconciled once is taken for one that is
MutantReady(alert) == alert.succeeded

Ready(alert) == alert.succeeded /\ alert.observed = alert.generation

\* After enabling: the RadixAlert as reconciled, or as it was written when a look
\* at it fails or five seconds are over.
WaitForReconciled(r) ==
    LET q == requests[r]
    IN  /\ q.pc = "wait"
        /\ \/ /\ q.name \in Existing /\ Ready(alerts[q.name])
              /\ Set(r, [q EXCEPT !.pc = "answer", !.alert = alerts[q.name]])
           \/ Set(r, [q EXCEPT !.pc = "answer"])
        /\ Kept

\* getAlertingConfigFromRadixAlert; a secret that is missing is no error.
AnswerConfig(r) ==
    LET q == requests[r]
    IN  /\ q.pc = "answer"
        /\ \/ Set(r, [Idle EXCEPT !.pc = "done", !.answer = "OK", !.alert = q.alert, !.ready = Ready(q.alert)])
           \/ Answer(r, "Error")
        /\ Kept

\* Disabling deletes the RadixAlerts it found, one after the other.
DeleteAlerts(r) ==
    LET q == requests[r]
    IN  /\ q.pc = "delete"
        /\ \/ q.names = {} /\ Answer(r, "OK") /\ UNCHANGED alerts
           \/ \E n \in q.names :
                 \/ /\ n \in Existing
                    /\ alerts' = [alerts EXCEPT ![n] = NoAlert]
                    /\ Set(r, [q EXCEPT !.names = @ \ {n}])
                 \/ Answer(r, "Error") /\ UNCHANGED alerts
        /\ UNCHANGED <<secret, revision, reconciled>>

-----------------------------------------------------------------------------
(* The operator *)

Reconcile(n) ==
    /\ n \in Existing /\ alerts[n].observed # alerts[n].generation
    /\ \E succeeds \in BOOLEAN :
          /\ alerts' = [alerts EXCEPT ![n] = [@ EXCEPT !.observed = alerts[n].generation,
                                                 !.version = revision + 1, !.succeeded = succeeds]]
          /\ reconciled' = IF succeeds THEN reconciled \cup {alerts[n].spec} ELSE reconciled
    /\ revision' = revision + 1
    /\ UNCHANGED <<secret, requests>>

\* The secret comes and goes with the RadixAlert.
SyncSecret ==
    /\ (secret # 0) # (Default \in Existing)
    /\ secret' = IF secret = 0 THEN revision + 1 ELSE 0
    /\ revision' = revision + 1
    /\ UNCHANGED <<alerts, reconciled, requests>>

Init ==
    /\ \E S \in SUBSET Names :
          alerts = [n \in Names |-> IF n \in S THEN [version |-> 1, generation |-> 1, spec |-> 1,
                                                     observed |-> 1, succeeded |-> TRUE] ELSE NoAlert]
    /\ secret \in {0, 1} /\ revision = 1 /\ reconciled = {1}
    /\ requests = [r \in Requests |-> Idle]

Submit(r) ==
    \/ UpdateEnvironmentAlertingConfig(r) \/ GetEnvironmentAlertingConfig(r)
    \/ EnableEnvironmentAlerting(r) \/ DisableEnvironmentAlerting(r)
    \/ UpdateApplicationAlertingConfig(r) \/ GetApplicationAlertingConfig(r)
    \/ EnableApplicationAlerting(r) \/ DisableApplicationAlerting(r)
Step(r) ==
    \/ List(r) \/ Validate(r) \/ GetConfigSecret(r) \/ UpdateConfigSecret(r) \/ Apply(r) \/ Create(r)
    \/ UpdateAlert(r) \/ WaitForReconciled(r) \/ AnswerConfig(r) \/ DeleteAlerts(r)
Next ==
    \/ \E r \in Requests : Submit(r) \/ Step(r)
    \/ \E n \in Names : Reconcile(n)
    \/ SyncSecret
Spec == Init /\ [][Next]_vars

-----------------------------------------------------------------------------
(* Properties *)

\* A user who is told that the alerts are ready is shown a configuration that
\* the operator has brought into effect: the one just written, or a later one,
\* never the success of an earlier one (getAlertingConfigFromRadixAlert).
ReadyIsReconciled ==
    \A r \in Requests : requests[r].ready => requests[r].alert.spec \in reconciled

\* Alerting that was disabled is enabled again only by enabling it: no update
\* that was under way brings the RadixAlert back (applyRadixAlert).
OnlyEnablingEnables ==
    [][\A n \in Names : alerts[n] = NoAlert /\ alerts'[n] # NoAlert =>
          n = Default /\ \E r \in Requests : requests[r].pc = "create" /\ requests[r].op = "Enable"]_vars
=============================================================================
