CONSTANTS
    Scope = {s1}
    WindowCount = 1
    WindowSize = 4
    BitmapBits = 4
    PnMax = 3
    NoWindow = NoWindow
    Bitmap = {{1}, {1, 2}}
    MaxPackets = 3
SPECIFICATION LinkSpec
INVARIANT NewPacketsEnter
