CONSTANTS
    Digit = 8
    ProbScale = 16
    ProbRate = 4
    UBins = 2
    MaxPrefix = 4
    OverLimit = 3
    MbW = 3
    MbH = 2
    MaxSample = 15
    MvMax = 6
    Frac = 1
    Quality <- MCQuality
    PicW = 5
    PicH = 3
    Tile = 4
    Colours = 16
    Alphas = 2
    MaxRun = 3
    HashSize = 4
    Settings <- MCSettings
    MaxFrames = 3
    Pictures <- MCPictures
    Stills <- MCStills
    Decisions <- MCDecisions
    Order = "left behind"
    QpStep = 1
    KeyBonus = 1
SPECIFICATION Spec
INVARIANT FrameShown
INVARIANT UndamagedDecodes
INVARIANT NoDrift
INVARIANT ImageComesBack
CHECK_DEADLOCK FALSE
