SPECIFICATION Spec
CONSTANTS
    CacheSize = 64
    Node <- Nodes
    Line <- Lines
    Route <- Routes
    Traffic <- Packets
    AuthSettings <- Settings
    ReadSizes = {20, 64}
    Ttl = 3
    ZeroCopyTtl = 4
    Flips = {1, 64}
    Noise <- NoiseBytes
    MaxFaults = 1
    MaxEvents = 2
INVARIANTS
    TypeOK
    OnlySentFrames
    CleanLineComplete
    DeliveredAsSent
    HopsBounded
    AuthenticationEndToEnd
CHECK_DEADLOCK FALSE
