------------------------- MODULE MCApplicationSetup -------------------------
(***************************************************************************)
(* Two requests of one part of the setup, and few initial states.          *)
(***************************************************************************)
EXTENDS ApplicationSetup, TLC

CONSTANTS
    r1, r2, v, w, x, info, debug, INFO, folded

OpsOfRequests == r1 :> Ops @@ r2 :> {"RegenerateSecret", "Delete", "Modify"}
PatchesOfRequests == r1 :> {"adGroups", "adUsers", "owner"} @@ r2 :> {"owner"}
AlertOpsOfRequests == [r \in Requests |-> {"Enable", "Update", "Disable", "Get"}]
VariablesOfComponent == {v, w, x}
ReservedVariables == {x}
ChangesOfRequests == r1 :> {v, x} @@ r2 :> {v, w}
FoldedWords == info :> info @@ debug :> debug @@ INFO :> folded

\* A part that is not under way has one initial state; v may have any value in
\* radixconfig.yaml, or none.
SetupInit ==
    /\ AllInit
    /\ part # "registration" => registration = NoRegistration
    /\ part # "key" => key = K!NoSecret
    /\ part # "alert" => secret = 0 /\ A!Existing = {}
    /\ config[w] = info /\ config[x] = info /\ (part # "variable" => config[v] = info)
    /\ part # "restart" => ~R!Exists
VariableSpec == SetupInit /\ part = "variable" /\ [][AllNext]_allVars
SetupSpec == SetupInit /\ [][AllNext]_allVars /\ K!Fairness
==============================================================================
