SPECIFICATION FairSpec
CONSTANTS
    Source = {s1, s2}
    DataType = {t}
    MessageLen = {2, 5}
    ChunkLen = {1, 2}
    MaxMessages = 2
    MaxBuffers = 2
    MaxMessageSize = 5
    MaxBytes = 7
    MaxRanges = 2
    SenderRestarts = TRUE
    NoBuffer = NoBuffer
    NoByte = NoByte
    FragmentTicks = 1
INVARIANTS
    TypeOK
    RangesTrackBytes
    BudgetExact
    CompletedWhole
PROPERTY BuffersReleased
