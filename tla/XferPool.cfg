SPECIFICATION XferSpec
CONSTANTS
    p1 = p1
    p2 = p2
    i1 = i1
    i2 = i2
    c1 = c1
    c2 = c2
    NoPipe = NoPipe
    NoIrp = NoIrp
    NoTask = NoTask
    EventTask = EventTask
    PortTask = PortTask
    Pipes = {p1}
    Irps = {i1, i2}
    Clients = {c1, c2}
    Tasks = {c1, c2, EventTask, PortTask}
    Addrs = {0}
    Submits <- Pooled
    Uses <- SharedPipes
    QueueLen = 10
    PipeCmds = {"RESET"}
    ErrorEvents = {"ERROR_STALL"}
    TaskPortStates = {}
    LossPortStates = {"RECOVERY"}
    Rules = {}
INVARIANTS XferTypeOK PoolSound EventTaskNeverBlocks
CHECK_DEADLOCK FALSE
