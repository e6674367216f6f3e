CONSTANTS
    c1 = c1 c2 = c2 c3 = c3 Conns = {c1, c2, c3}
    Nobody = Nobody
    Handlers = {"EchoHandler", "StatusHandler"}
    Disconnects = {}
    MaxParts = 0
    MaxDepth = 2
    MaxFrames = 9
    MaxFds = 3
    MaxThreads = 2
    ScriptCodes = {}
    RemoteCodes = {}
    Uninit = {}
SPECIFICATION Spec
SYMMETRY Symmetry
INVARIANTS StatusPageConsistent StatusSeesEarlier
PROPERTIES ImplementsRequestLog
CHECK_DEADLOCK FALSE
