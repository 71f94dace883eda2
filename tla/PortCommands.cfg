SPECIFICATION Spec
CONSTANTS
    p1 = p1
    p2 = p2
    i1 = i1
    i2 = i2
    i3 = i3
    t1 = t1
    t2 = t2
    NoPipe = NoPipe
    NoIrp = NoIrp
    NoTask = NoTask
    Pipes = {p1}
    Irps = {i1, i3}
    Tasks = {t1, t2}
    Addrs = {0}
    Submits <- Owned
    PipeCmds = {"CLEAR"}
    ErrorEvents = {"ERROR_STALL"}
    TaskPortStates = {"NOT_POWERED", "DISCONNECTED", "DISABLED", "RESETTING", "SUSPENDED", "RESUMING"}
    LossPortStates = {"NOT_POWERED", "DISABLED", "RESETTING", "RECOVERY"}
    Rules = {}
    PortTasks = {t1}
    PortCmds = {"POWER_ON", "POWER_OFF", "RESET", "SUSPEND", "RESUME", "DISABLE"}
    BusFaults = {"unplug", "error", "overcurrent"}
INVARIANTS PortTypeOK EnabledHasDevice
PROPERTIES IsPipeSpec
CHECK_DEADLOCK FALSE
