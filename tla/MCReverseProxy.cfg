CONSTANTS
    a = a b = b c = c d = d Junk = Junk NoHost = NoHost
    Threads = {1, 2}
    Hosts = {a, b, c, d}
    Origin = a
    Ports = {"http", "https", "bad"}
    Lacking = {"Host", "HTTP/1"}
    Faults = {"resolve", "empty", "refused", "handshake", "reset"}
    Replies <- Chain
    Shorter <- Names
    ScriptCodes = {}
    RemoteCodes = {0, 2, 20, 200, 3, 30, 301, 302, 4, 40, 404, 5, 50, 500}
    Uninit = {77}
SPECIFICATION BoundedSpec
INVARIANTS HostsReachable  OnlyRacesAbort ForwardedIsFinal StatusKnown
PROPERTIES RequestsEnd
CHECK_DEADLOCK FALSE
