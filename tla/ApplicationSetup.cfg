CONSTANTS
    r1 = r1  r2 = r2
    Requests = {r1, r2}
    OpsOf <- OpsOfRequests
    PatchesOf <- PatchesOfRequests
    Retries = 2
    Polls = 2
    MaxKeys = 3
    v = v  w = w  x = x  info = info  debug = debug  INFO = INFO
    AlertOpsOf <- AlertOpsOfRequests
    Variables <- VariablesOfComponent
    Reserved <- ReservedVariables
    ChangesOf <- ChangesOfRequests
    Words = {info, debug, INFO}
    Folded <- FoldedWords
    folded = INFO
    MaxVersion = 3
SPECIFICATION SetupSpec
INVARIANTS RolesAreRemoved AnsweredKeyIsNew ReadyIsReconciled ConfigValueIsShown
PROPERTIES OnlyRequested WarningsAreAcknowledged EveryRegenerationEnds OnlyEnablingEnables OnlyNamedChange RestartOnlyStamps
CHECK_DEADLOCK FALSE
