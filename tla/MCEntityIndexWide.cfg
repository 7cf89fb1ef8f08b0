SPECIFICATION Spec
CONSTANTS
    ChunkWidth = 2
    ChunksPerAxis = 4
    MaxEntityId = 0
    Tag = {}
    Sprite = {NoSprite}
    NoSprite = NoSprite
    Bounds <- EdgeBounds
    SearchBounds <- WideSearches
INVARIANT WideSearchFindsEveryEntity
