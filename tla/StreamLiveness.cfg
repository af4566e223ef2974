SPECIFICATION FairSpec
CONSTANTS
    Payload = {a}
    NoData = NoData
    WindowSize = 3
    RxWindowSize = 2
    SackBits = 4
    MaxRetry = 1
    RetryCounts = 2
    PnMax = 3
    DeliverCanFail = TRUE
    AckTicks = 1
PROPERTIES
    QueueDrains
    DeliveredUnlessGivenUp
