SPECIFICATION Spec
CONSTANTS
    None = None
    Lanes = 3
    MaxTemps = 16
    MaxCode = 64
    MaxPool = 6
    MaxDepth = 3
    MaxPatch = 4
    MaxIterations = 4
    MaxUniforms = 8
    MaxUnits = 1
    MaxAttribs = 6
    MaxVaryings = 3
    MaxSkips = 1
    Functions <- MCFunctions
    DefaultLocation <- MCDefaultLocation
    Heads <- MCHeads
    Lines <- MCLines
    MaxLines <- MCMaxLines
    Inputs = {1, 2}
    Given <- MCGiven
INVARIANTS
    Agrees
    FinishedIsSound
CHECK_DEADLOCK FALSE
