SPECIFICATION Spec
CONSTANTS
    MaxRegionId = 1
    MaxHeight = 4
    Picture = {wall}
    Size <- WideSizes
    White = White
    Blank = Blank
    NoTexture = NoTexture
    Unknown = Unknown
    Nothing = Nothing
    DebugChecks = TRUE
INVARIANT SetRegionSucceeds
