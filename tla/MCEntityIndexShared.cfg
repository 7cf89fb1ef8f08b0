SPECIFICATION Spec
CONSTANTS
    ChunkWidth = 2
    ChunksPerAxis = 4
    MaxEntityId = 1
    Tag = {fire}
    Sprite = {NoSprite, flame}
    NoSprite = NoSprite
    Bounds <- SharedBounds
    SearchBounds <- SharedSearches
INVARIANTS
    TypeOK
    ChunkArraysParallel
    ChunksCoverColliders
    NoCheckFails
    VerticesFollowEntities
PROPERTIES
    UpdatesAreLocal
    ImplementsStore
