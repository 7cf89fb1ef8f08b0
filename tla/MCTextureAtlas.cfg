SPECIFICATION Spec
CONSTANTS
    MaxRegionId = 1
    MaxHeight = 4
    Picture = {wall, floor}
    Size <- Sizes
    White = White
    Blank = Blank
    NoTexture = NoTexture
    Unknown = Unknown
    Nothing = Nothing
    DebugChecks = FALSE
INVARIANTS
    TypeOK
    RegionsAreApart
    RegionsHoldPictures
    WhitePixelStaysWhite
    TextureShowsImage
PROPERTY ImplementsPictureTable
SYMMETRY AnyPicture
