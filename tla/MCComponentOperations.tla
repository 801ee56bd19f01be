------------------------ MODULE MCComponentOperations ------------------------
(***************************************************************************)
(* Instances of ComponentOperations for TLC.                               *)
(***************************************************************************)
EXTENDS ComponentOperations, TLC

CONSTANTS e1, e2, web, api, cron

Op(verb, scope, env, target, replicas) ==
  [verb |-> verb, scope |-> scope, env |-> env, target |-> target, replicas |-> replicas]

OneEnvironment == {e1}
TwoEnvironments == {e1, e2}
OneComponent == {web}
TwoComponents == {web, api}
NoJobs == {}
OneJob == {cron}
Always == {TwoComponents}
AlwaysOne == {OneComponent}
Shrinking == {TwoComponents, {web}}

\* api scales to zero by itself (a KEDA trigger); web does not
ScaleToZero == (web :> {2}) @@ (api :> {0, 1})
AlwaysIdle == (web :> {2}) @@ (api :> {0})
AlwaysTwo == web :> {2}

\* a scale at each bound, one beyond each, and every operation on a component
SingleOperations ==
  {Op("scale", "component", e1, web, k) : k \in {-1, 20, 21}}
    \union {Op(v, "component", e1, web, 0) : v \in {"stop", "reset", "restart"}}
    \union {Op(v, "component", e1, cron, 0) : v \in {"stop", "restart"}}
    \union {Op("scale", "component", e1, api, 0)}

LoopOperations ==
  {Op(v, "environment", e1, web, 0) : v \in {"stop", "reset", "restart"}}
    \union {Op("reset", "component", e1, api, 0), Op("scale", "component", e1, api, 3)}

\* every operation, alone with the operator and the pipeline
AllOperations == SingleOperations \union LoopOperations

\* the loops against each other and against the restart of a job
MixedOperations ==
  {Op(v, "environment", e1, web, 0) : v \in {"stop", "reset"}}
    \union {Op("scale", "component", e1, api, 3), Op("restart", "component", e1, cron, 0)}

ApplicationOperations ==
  {Op(v, "application", e1, web, 0) : v \in {"stop", "reset", "restart"}}
    \union {Op("stop", "environment", e2, web, 0)}

\* the requests differ only in the operation they start with, which is arbitrary
RequestSymmetry == Permutations(Requests)
=============================================================================
