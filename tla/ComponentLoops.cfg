SPECIFICATION Spec
CONSTANTS
  e1 = e1
  e2 = e2
  web = web
  api = api
  cron = cron
  NoOverride = NoOverride
  Environments <- OneEnvironment
  Components <- TwoComponents
  JobComponents <- OneJob
  DeployedSets <- Always
  MaxDeployments = 1
  Requests = {r1, r2}
  Operations <- MixedOperations
  Autoscale <- AlwaysIdle
CHECK_DEADLOCK FALSE
SYMMETRY RequestSymmetry
INVARIANTS CopyIsCurrent
PROPERTIES SoloEffect BystandersKept ArraysIndependent
