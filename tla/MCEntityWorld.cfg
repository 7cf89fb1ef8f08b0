SPECIFICATION Spec
CONSTANTS
    MaxEntityId = 3
    Object = {o1, o2, o3, o4}
    Tag = {fresh_water, fire}
    IndexedTag = {fresh_water, fire}
    ResourceTag = fresh_water
    Bounds = {nothing, here}
    NoBounds = nothing
SYMMETRY TableSymmetry
INVARIANTS
    TypeOK
    TagArraysExact
    PlacesInverse
    IdsAgree
    IndexFollowsEntities
    ImagesFollowTags
PROPERTIES
    LiveEntitiesStay
    ReindexChangesNothing
    ImplementsTable
