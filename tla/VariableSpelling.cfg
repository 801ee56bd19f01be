CONSTANTS
    r1 = r1  r2 = r2
    Requests = {r1, r2}
    OpsOf <- OpsOfRequests
    PatchesOf <- PatchesOfRequests
    Retries = 2
    Polls = 2
    MaxKeys = 3
    v = v  w = w  x = x  info = info  debug = debug  INFO = INFO
    AlertOpsOf <- AlertOpsOfRequests
    Variables <- VariablesOfComponent
    Reserved <- ReservedVariables
    ChangesOf <- ChangesOfRequests
    Words = {info, debug, INFO}
    Folded <- FoldedWords
    folded = info
    MaxVersion = 3
SPECIFICATION VariableSpec
INVARIANT ConfigValueIsTrue
CHECK_DEADLOCK FALSE
