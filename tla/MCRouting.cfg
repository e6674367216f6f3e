CONSTANTS
    MaxUri = 4
    MaxKey = 4
    MaxBody = 4
    ScriptCodes = {203, 999}
    Char <- MCChar
    Paths <- MCPaths
    Configs <- MCConfigs
    Requests <- MCRequests
    Roots <- MCRoots
    Scripted <- MCScripted
SPECIFICATION RoutingSpec
INVARIANTS LongestBoundaryMatch FileUnderRoot ScriptsNotSentRaw FileAndQuery RemoteUriStripped FormAsFields
PROPERTIES LoopProgresses
CHECK_DEADLOCK FALSE
