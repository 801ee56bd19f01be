SPECIFICATION Spec
CONSTANTS
  e1 = e1
  e2 = e2
  web = web
  api = api
  cron = cron
  NoOverride = NoOverride
  Environments <- TwoEnvironments
  Components <- OneComponent
  JobComponents <- NoJobs
  DeployedSets <- AlwaysOne
  MaxDeployments = 1
  Requests = {r1}
  Operations <- ApplicationOperations
  Autoscale <- AlwaysTwo
CHECK_DEADLOCK FALSE
PROPERTIES SoloEffect EveryRequestIsAnswered
