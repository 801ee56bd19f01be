CONSTANTS
    r1 = r1  r2 = r2  c1 = c1  c2 = c2  d1 = d1  d2 = d2
    Requests = {r1, r2}
    Components = {c1, c2}
    JobComponents <- JobComponentsOf
    BatchNames <- Names
    JobNames = {"x", "y"}
    Payloads <- PayloadsOf
    Initial <- InitialBatches
    OpsOf <- OpsOfRequests
SPECIFICATION Spec
INVARIANTS TypeOK StoppedUnlessReported ListedIsReachable
PROPERTY OnlyTheNamed
CHECK_DEADLOCK FALSE
