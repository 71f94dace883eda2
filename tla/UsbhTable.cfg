SPECIFICATION UsbhSpec
CONSTANTS
    p1 = p1
    p2 = p2
    p3 = p3
    c1 = c1
    c2 = c2
    NoPipe = NoPipe
    NoTask = NoTask
    PortTask = PortTask
    Pipes = {p1, p2, p3}
    Clients = {c1, c2}
    MAX_PIPES = 3
    MaxConnections = 2
    QueueLen = 10
    Faults = {"unplug", "bus"}
    Rules = {"own", "prompt", "slow", "alone"}
SYMMETRY HandleSymmetry
INVARIANTS UsbhTypeOK TableExact OneControlPipe AddressAgrees ConnectedIsValid
CHECK_DEADLOCK FALSE
