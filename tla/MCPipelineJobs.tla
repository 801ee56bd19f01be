---------------------------- MODULE MCPipelineJobs ----------------------------
(***************************************************************************)
(* Instances of PipelineJobs for TLC.                                      *)
(***************************************************************************)
EXTENDS PipelineJobs, TLC

CONSTANTS main, release, dev, first, second, ending

Ask(verb, ref, refType, env, tag, job, deployment) ==
  [verb |-> verb, ref |-> ref, refType |-> refType, env |-> env, tag |-> tag, job |-> job,
   deployment |-> deployment]

Job(verb, d) == Ask(verb, NoRef, "", NoEnv, NoTag, d, first)

\* a build and any mixture of stops and reruns of its job
StopsAndReruns ==
  {Ask("build", main, "branch", NoEnv, NoTag, 1, first), Job("stop", 1), Job("rerun", 1)}

\* every trigger, with and without a type, an environment and an image tag
Triggers ==
  {Ask("build", release, "", dev, NoTag, 1, first),
   Ask("build", release, "tag", NoEnv, CHOOSE t \in UserTags : TRUE, 1, first),
   Ask("build", NoRef, "", NoEnv, NoTag, 1, first),
   Ask("deploy", NoRef, "", dev, NoTag, 1, first), Job("deploy", 1),
   Ask("promote", NoRef, "", dev, NoTag, 1, first),
   Ask("promote", NoRef, "", dev, NoTag, 1, ending),
   Job("apply-config", 1), Job("rerun", 1)}

EndingInTheSame == [n \in {first, second, ending} |->
  IF n = ending THEN Deployments ELSE {n} \intersect Deployments]

RequestSymmetry == Permutations(Requests)
=============================================================================
