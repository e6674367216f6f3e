CONSTANTS
    c1 = c1 c2 = c2 Conns = {c1, c2}
    Nobody = Nobody
    Handlers = {"EchoHandler", "StatusHandler", "ReverseProxyHandler"}
    Disconnects = {"fin"}
    MaxParts = 1
    MaxDepth = 2
    MaxFrames = 9
    MaxFds = 9
    MaxThreads = 9
    ScriptCodes = {}
    RemoteCodes = {200}
    Uninit = {}
SPECIFICATION FairSpec
PROPERTIES RequestsAnswered SessionsEnd
CHECK_DEADLOCK FALSE
