SPECIFICATION Spec
CONSTANTS
    ClockSize = 64
    BootReadings = {61}
    DefaultRto = 2
    MinRto = 1
    MaxRto = 10
    BackoffCap = 6
    MaxRetry = 1
    FragmentTimeout = 3
    IdleTimeout = 3
    PollInterval = 5
    SendTimeouts = {0, 3}
    RttSamples = {0, 1, 3, 9, 40}
    MaxTime = 6
    MaxPackets = 2
    MaxEvents = 4
INVARIANTS
    TypeOK
    DeadlineCovers
    ExpiryOnTime
    EstimatorSound
CHECK_DEADLOCK FALSE
