-------------------------- MODULE ApplicationSetup --------------------------
(***************************************************************************)
(* The parts of an application's setup: its registration, its deploy key,  *)
(* its alert configuration, its environment variables and the restart of   *)
(* its proxies. They share no state; a behaviour is one of a single part.  *)
(***************************************************************************)
EXTENDS RegistrationUpdates

CONSTANTS
    Polls, MaxKeys,                                   \* DeployKey
    AlertOpsOf,                                       \* Alerting
    Variables, Reserved, ChangesOf, Words, Folded,    \* EnvironmentVariables
    MaxVersion                                        \* AuxiliaryRestart

VARIABLES part,
    key, version, made, keyRequests,
    alerts, secret, revision, reconciled, alertRequests,
    data, metadata, config, alone, variableRequests,
    deployment, versions, restarts

K == INSTANCE DeployKey WITH requests <- keyRequests
A == INSTANCE Alerting WITH requests <- alertRequests, OpsOf <- AlertOpsOf
E == INSTANCE EnvironmentVariables WITH requests <- variableRequests
R == INSTANCE AuxiliaryRestart WITH requests <- restarts

\* A value is told from no value.
ASSUME WordsAssumption == E!None \notin Words

keyVars == <<key, version, made, keyRequests>>
alertVars == <<alerts, secret, revision, reconciled, alertRequests>>
variableVars == <<data, metadata, config, alone, variableRequests>>
restartVars == <<deployment, versions, restarts>>

AllInit ==
    /\ part \in {"registration", "key", "alert", "variable", "restart"}
    /\ Init /\ K!Init /\ A!Init /\ E!Init /\ R!Init
AllNext ==
    \/ part = "registration" /\ Next /\ UNCHANGED <<part, keyVars, alertVars, variableVars, restartVars>>
    \/ part = "key" /\ K!Next /\ UNCHANGED <<part, vars, alertVars, variableVars, restartVars>>
    \/ part = "alert" /\ A!Next /\ UNCHANGED <<part, vars, keyVars, variableVars, restartVars>>
    \/ part = "variable" /\ E!Next /\ UNCHANGED <<part, vars, keyVars, alertVars, restartVars>>
    \/ part = "restart" /\ R!Next /\ UNCHANGED <<part, vars, keyVars, alertVars, variableVars>>
allVars == <<part, vars, keyVars, alertVars, variableVars, restartVars>>
AllSpec == AllInit /\ [][AllNext]_allVars /\ K!Fairness

\* DeployKey.AnsweredKeyIsNew: a request that replaced the deploy key never
\* reports the old one as the new one.
AnsweredKeyIsNew == K!AnsweredKeyIsNew

\* DeployKey.EveryRegenerationEnds: the wait for a new deploy key ends.
EveryRegenerationEnds == K!EveryRegenerationEnds

\* Alerting.ReadyIsReconciled: a configuration shown as ready is in effect.
ReadyIsReconciled == A!ReadyIsReconciled

\* Alerting.OnlyEnablingEnables: no update brings disabled alerting back.
OnlyEnablingEnables == A!OnlyEnablingEnables

\* EnvironmentVariables.ConfigValueIsShown: a variable is shown with the value
\* of radixconfig.yaml exactly when that is another.
ConfigValueIsShown == E!ConfigValueIsShown

\* EnvironmentVariables.ConfigValueIsTrue: what is shown as the value of
\* radixconfig.yaml is that value.
ConfigValueIsTrue == E!ConfigValueIsTrue

\* EnvironmentVariables.OnlyNamedChange: requests undo none of each other's values.
OnlyNamedChange == E!OnlyNamedChange

\* AuxiliaryRestart.RestartOnlyStamps: a restart writes its stamp and nothing else.
RestartOnlyStamps == R!RestartOnlyStamps
==============================================================================
