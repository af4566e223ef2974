CONSTANTS
    Scope = {s1, s2, s3}
    WindowCount = 2
    WindowSize = 2
    BitmapBits = 3
    PnMax = 5
    NoWindow = NoWindow
SPECIFICATION Spec
INVARIANTS
    TypeOK
    NewOnce
    DuplicatesWereAccepted
    WindowTracks
