SPECIFICATION FairRequestsSpec
CONSTANTS
    c1 = c1
    c2 = c2
    ctrl = ctrl
    bulk = bulk
    i1 = i1
    i2 = i2
    NoIrp = NoIrp
    NoPipe = NoPipe
    Pipes = {ctrl, bulk}
    Irps = {i1, i2}
    EpType <- Endpoints
    Setups <- Packets
    Sizes <- Lengths
    ChanErrors = {"STALL"}
    Clients = {c1, c2}
    Requests <- Tasks
    Devices <- Connected
    MaxPieces = 4
    Layouts <- LayoutSet
    Garbage <- BehindSet
    Strings = {256}
INVARIANTS RequestsTypeOK SlotIffInFlight DirectionAgrees ParsedAsMeant CutIsPrefix HeapBalanced
PROPERTIES IsControlTransfer TransfersEnd
