CONSTANTS
    MaxLines = 3
    MaxTicks = 3
    component = component  job = job  step = step
    oldJob = oldJob  newJob = newJob  proxy = proxy  stepPod = stepPod
    Requests = {r1}
    Pods = {oldJob, newJob, proxy, stepPod}
    Owners = {component, job, step}
    Kind <- PodKinds
    Owner <- PodOwners
    Created <- CreatedAt
    Apps = {a1, a2}
    Envs = {e1, e2}
    AccessLimit = 1
    OuterLimit = 2
    InnerLimit = 1
    Servers = {api, metrics, profiler}
SPECIFICATION AllSpec
INVARIANTS OneWriter CompletedIsComplete  NothingLeftBehind EndsInOrder
PROPERTIES GoroutinesEnd ReadersAreClosed EveryOverviewEnds ShutdownEnds
CHECK_DEADLOCK FALSE
