SPECIFICATION Spec
CONSTANTS
  main = main
  release = release
  dev = dev
  first = first
  second = second
  ending = ending
  MaxJobs = 2
  MaxVersion = 4
  Refs = {main}
  ConfigBranch = main
  NoRef = NoRef
  Envs = {}
  NoEnv = NoEnv
  UserTags = {}
  Deployments = {}
  NoDeployment = NoDeployment
  EndingIn <- EndingInTheSame
  Requests = {r1, r2, r3}
  Commands <- StopsAndReruns
SYMMETRY RequestSymmetry
CHECK_DEADLOCK FALSE
INVARIANTS StopsOnce AcceptedStopShows RerunsAreFresh
PROPERTIES StopInTime
