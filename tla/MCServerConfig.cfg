CONSTANTS
    MaxStatements = 4
    MaxInt = 524287
    Leading <- MCLeading
    Configs <- MCConfigs
SPECIFICATION Spec
INVARIANTS PortChosen DefaultInstalled HandlersAsConfigured TableShowsHandlersIfLegal
CHECK_DEADLOCK FALSE
