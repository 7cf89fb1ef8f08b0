SPECIFICATION Spec
CONSTANTS
    ChunkWidth = 2
    ChunksPerAxis = 4
    MaxEntityId = 1
    Tag = {fire}
    Sprite = {NoSprite}
    NoSprite = NoSprite
    Bounds <- SharedBounds
    SearchBounds <- SharedSearches
INVARIANT SearchReportsOnlyMatches
