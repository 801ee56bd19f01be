------------------------------ MODULE DeployKey ------------------------------
(***************************************************************************)
(* The private deploy key of an application: a secret in the application's *)
(* namespace that RegenerateDeployKey deletes, for the operator to create  *)
(* a new one, or updates with a key the user brought                       *)
(* (api/applications/applications_handler.go).                             *)
(***************************************************************************)
EXTENDS Naturals, FiniteSets

CONSTANTS
    Requests,   \* concurrent requests
    Retries,    \* retry.DefaultRetry.Steps
    Polls,      \* how often the secret is looked for in ten seconds
    MaxKeys     \* bound: the operator makes no more keys once there were this many

NoSecret == 0   \* keys are numbered as they appear; the secret may be missing

VARIABLES
    key,        \* the key in the secret
    version,    \* the version of the secret object
    made,       \* how many keys there have been
    requests    \* the requests under way

vars == <<key, version, made, requests>>

Idle == [pc |-> "idle", old |-> NoSecret, read |-> 0, tries |-> 0, answer |-> "none", found |-> NoSecret]

Set(r, q) == requests' = [requests EXCEPT ![r] = q]
Answer(r, a) == Set(r, [requests[r] EXCEPT !.pc = "done", !.answer = a, !.found = key])
Kept == UNCHANGED <<key, version, made>>

\* A request without a key deletes the secret; one with a key, if it is valid,
\* stores it.
RegenerateDeployKey(r) ==
    /\ requests[r].pc = "idle"
    /\ \E pc \in {"delete", "get"} : Set(r, [Idle EXCEPT !.pc = pc, !.old = made])
    /\ Kept

InvalidKey(r) ==
    /\ requests[r].pc = "get" /\ requests[r].tries = 0
    /\ Answer(r, "Error")
    /\ Kept

\* mutant: any error of the deletion is taken for a secret that is not there
MutantDeleteSecret(r) ==
    /\ requests[r].pc = "delete"
    /\ \/ key' = NoSecret /\ Set(r, [requests[r] EXCEPT !.pc = "poll"])
       \/ key' = key /\ Set(r, [requests[r] EXCEPT !.pc = "poll"])
    /\ UNCHANGED <<version, made>>

\* A secret that is gone already is as good as deleted. An error may come without
\* the deletion or after it.
DeleteSecret(r) ==
    /\ requests[r].pc = "delete"
    /\ \/ key' = NoSecret /\ Set(r, [requests[r] EXCEPT !.pc = "poll"])
       \/ key' \in {key, NoSecret} /\ Answer(r, "Error")
    /\ UNCHANGED <<version, made>>

\* mutant: the wait for the secret has no end
MutantPoll(r) ==
    /\ requests[r].pc = "poll"
    /\ \/ key # NoSecret /\ Answer(r, "OK")
       \/ key = NoSecret /\ UNCHANGED requests
    /\ Kept

\* The secret is looked for at once and every second, ten seconds long. When
\* the time is over the request is answered like one that found the new key.
Poll(r) ==
    LET q == requests[r]
    IN  /\ q.pc = "poll"
        /\ \/ key # NoSecret /\ Answer(r, "OK")
           \/ key = NoSecret /\ q.tries < Polls /\ Set(r, [q EXCEPT !.tries = @ + 1])
           \/ key = NoSecret /\ q.tries = Polls /\ Answer(r, "TimedOut")
           \/ Answer(r, "Error")
        /\ Kept

GetSecret(r) ==
    LET q == requests[r]
    IN  /\ q.pc = "get"
        /\ \/ key # NoSecret /\ Set(r, [q EXCEPT !.pc = "update", !.read = version])
           \/ Answer(r, "Error")     \* it is missing, or the call failed
        /\ Kept

\* Only a conflict is tried again. The answer to an update may be lost.
UpdateSecret(r) ==
    LET q == requests[r]
    IN  /\ q.pc = "update"
        /\ \/ /\ key # NoSecret /\ version = q.read
              /\ key' = made + 1 /\ version' = version + 1 /\ made' = made + 1
              /\ \E a \in {"OK", "Error"} : Set(r, [q EXCEPT !.pc = "done", !.answer = a, !.found = made + 1])
           \/ /\ key # NoSecret /\ version # q.read /\ q.tries + 1 < Retries
              /\ Set(r, [q EXCEPT !.pc = "get", !.tries = @ + 1])
              /\ Kept
           \/ Answer(r, "Error") /\ Kept

\* The operator makes a new key where there is none.
OperatorMakesKey ==
    /\ key = NoSecret /\ made < MaxKeys
    /\ key' = made + 1 /\ version' = version + 1 /\ made' = made + 1
    /\ UNCHANGED requests

Init ==
    /\ key \in {NoSecret, 1} /\ made = 1 /\ version = 1
    /\ requests = [r \in Requests |-> Idle]

Step(r) == InvalidKey(r) \/ DeleteSecret(r) \/ Poll(r) \/ GetSecret(r) \/ UpdateSecret(r)
Next == OperatorMakesKey \/ \E r \in Requests : RegenerateDeployKey(r) \/ Step(r)

\* A goroutine that can take a step takes it; the operator need not.
Fairness == \A r \in Requests : WF_vars(Step(r))
Spec == Init /\ [][Next]_vars /\ Fairness

\* A request that is answered with success, other than by running out of time,
\* found a key that was made after it came: never the old key that it was to
\* replace, whatever other requests do (RegenerateDeployKey).
AnsweredKeyIsNew ==
    \A r \in Requests : requests[r].answer = "OK" => requests[r].found > requests[r].old

\* The wait for a new key ends, also when the operator never makes one.
EveryRegenerationEnds ==
    \A r \in Requests : requests[r].pc \in {"delete", "poll", "get", "update"} ~> requests[r].pc = "done"
==============================================================================
