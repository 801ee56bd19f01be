SPECIFICATION Spec
CONSTANTS
  e1 = e1
  e2 = e2
  web = web
  api = api
  cron = cron
  NoOverride = NoOverride
  Environments <- OneEnvironment
  Components <- TwoComponents
  JobComponents <- OneJob
  DeployedSets <- Shrinking
  MaxDeployments = 2
  Requests = {r1}
  Operations <- AllOperations
  Autoscale <- ScaleToZero
CHECK_DEADLOCK FALSE
INVARIANTS TypeOK OverrideInRange
