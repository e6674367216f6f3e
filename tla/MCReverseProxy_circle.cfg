CONSTANTS
    a = a b = b c = c d = d Junk = Junk NoHost = NoHost
    Threads = {1}
    Hosts = {a, b, c, d}
    Origin = a
    Ports = {"http"}
    Lacking = {}
    Faults = {}
    Replies <- Circle
    Shorter <- Names
    ScriptCodes = {}
    RemoteCodes = {0, 3, 30, 302}
    Uninit = {77}
SPECIFICATION FairSpec
PROPERTY RequestsEnd
CHECK_DEADLOCK FALSE
