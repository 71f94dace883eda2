SPECIFICATION PipeSpec
CONSTANTS
    p1 = p1
    p2 = p2
    i1 = i1
    i2 = i2
    i3 = i3
    t1 = t1
    t2 = t2
    NoPipe = NoPipe
    NoIrp = NoIrp
    NoTask = NoTask
    Pipes = {p1}
    Irps = {i1, i3}
    Tasks = {t1, t2}
    Addrs = {0}
    Submits <- Owned
    PipeCmds = {}
    ErrorEvents = {}
    TaskPortStates = {}
    LossPortStates = {}
    Rules = {"quiet"}
INVARIANTS IdleHasNoIrps
CHECK_DEADLOCK FALSE
