SPECIFICATION FairUsbhSpec
CONSTANTS
    p1 = p1
    p2 = p2
    p3 = p3
    c1 = c1
    c2 = c2
    NoPipe = NoPipe
    NoTask = NoTask
    PortTask = PortTask
    Pipes = {p1, p2}
    Clients = {c1}
    MAX_PIPES = 2
    MaxConnections = 2
    QueueLen = 10
    Faults = {"unplug"}
    Rules = {}
PROPERTIES SetAddrReturns
CHECK_DEADLOCK FALSE
