SPECIFICATION Spec
CONSTANTS
    ChunkWidth = 2
    ChunksPerAxis = 4
    MaxEntityId = 1
    Tag = {fire}
    Sprite = {NoSprite}
    NoSprite = NoSprite
    Bounds <- ScatteredBounds
    SearchBounds <- ScatteredSearches
INVARIANTS
    SearchReportsEachEntityOnce
    FirstFindsSomething
