CONSTANTS
    c1 = c1 c2 = c2 c3 = c3 Conns = {c1, c2, c3}
    Nobody = Nobody
    Handlers = {"EchoHandler"}
    Disconnects = {}
    MaxParts = 0
    MaxDepth = 1
    MaxFrames = 9
    MaxFds = 2
    MaxThreads = 9
    ScriptCodes = {}
    RemoteCodes = {}
    Uninit = {}
SPECIFICATION Spec
INVARIANT AcceptsContinuously
CHECK_DEADLOCK FALSE
