CONSTANTS
    c1 = c1 c2 = c2 Conns = {c1, c2}
    Nobody = Nobody
    Handlers = {"EchoHandler"}
    Disconnects = {"rst"}
    MaxParts = 0
    MaxDepth = 1
    MaxFrames = 9
    MaxFds = 9
    MaxThreads = 9
    ScriptCodes = {}
    RemoteCodes = {}
    Uninit = {}
SPECIFICATION Spec
INVARIANT ClientsEndThreadsOnly
CHECK_DEADLOCK FALSE
