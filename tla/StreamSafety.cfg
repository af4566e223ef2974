SPECIFICATION Spec
CONSTANTS
    Payload = {a, b}
    NoData = NoData
    WindowSize = 3
    RxWindowSize = 3
    SackBits = 4
    MaxRetry = 1
    RetryCounts = 2
    PnMax = 4
    DeliverCanFail = FALSE
SYMMETRY PayloadSymmetry
INVARIANTS
    TypeOK
    DeliveredInOrder
    OnePayloadPerPacketNumber
    NoSilentLoss
    WindowAccounting
    ReceiverHasRoom
PROPERTY ImplementsChannel
