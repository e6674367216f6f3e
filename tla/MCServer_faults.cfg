CONSTANTS
    c1 = c1 c2 = c2 Conns = {c1, c2}
    Nobody = Nobody
    Handlers = {"EchoHandler", "NotFoundHandler", "StaticFileHandler", "ReverseProxyHandler", "StatusHandler"}
    Disconnects = {"fin", "rst"}
    MaxParts = 2
    MaxDepth = 2
    MaxFrames = 2
    MaxFds = 9
    MaxThreads = 1
    ScriptCodes = {203, 999}
    RemoteCodes = {0, 500, 503}
    Uninit = {0}
SPECIFICATION Spec
SYMMETRY Symmetry
INVARIANTS LockDiscipline HistoryMatchesSessions ResponseAsRecorded FinishedIsShutDown
CHECK_DEADLOCK FALSE
