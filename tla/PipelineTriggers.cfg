SPECIFICATION Spec
CONSTANTS
  main = main
  release = release
  dev = dev
  first = first
  second = second
  ending = ending
  MaxJobs = 2
  MaxVersion = 2
  Refs = {main, release}
  ConfigBranch = main
  NoRef = NoRef
  Envs = {dev}
  NoEnv = NoEnv
  UserTags = {9}
  Deployments = {first, second}
  NoDeployment = NoDeployment
  EndingIn <- EndingInTheSame
  Requests = {r1, r2}
  Commands <- Triggers
SYMMETRY RequestSymmetry
CHECK_DEADLOCK FALSE
INVARIANTS ImagesAreApart
