---------------------------- MODULE TextureAtlas ----------------------------
(***************************************************************************)
(* The texture atlas: client/src/od/engine/atlas.cpp packs pictures into   *)
(* regions of one growing image, texture_atlas.cpp keeps a texture of that *)
(* image, and the resources of the window the texture is of may go.        *)
(*                                                                         *)
(* Of a picture only its identity matters: its pixel at x, y is the tuple  *)
(* of the picture, x and y.  Sizes fit a float (odInt32_fits_float).       *)
(***************************************************************************)
EXTENDS Integers, Sequences, Geometry, Arrays

CONSTANTS
    MaxRegionId,  \* bound on the region ids used: the code grows without one
    MaxHeight,    \* bound on the height of the image: the code has none
    Picture,      \* the pictures
    Size,         \* the widths and heights pictures come in
    White, Blank, \* the pixel odAtlas_init sets; a pixel nothing was drawn to
    NoTexture,    \* the texture after odTexture_destroy, or of a destroyed window
    Unknown,      \* a texture OpenGL reported an error for
    Nothing,      \* what a region shows that has no area
    DebugChecks   \* whether the build evaluates OD_DEBUG_CHECK

ASSUME MaxRegionIdAssumption == MaxRegionId \in Nat
ASSUME SizeAssumption == Size \subseteq (Nat \ {0}) \X (Nat \ {0})
ASSUME DebugChecksAssumption == DebugChecks \in BOOLEAN

RegionId == 0 .. MaxRegionId
Pixel == (Picture \X Nat \X Nat) \cup {White, Blank}

Points(width, height) == (0 .. width - 1) \X (0 .. height - 1)

IsImage(image) ==
    /\ image.width \in Nat /\ image.height \in Nat
    /\ image.pixels \in [Points(image.width, image.height) -> Pixel]
Region == [x1 : Nat, y1 : Nat, x2 : Nat, y2 : Nat]

VARIABLES
    atlas,    \* the odAtlas: image, regions by id from 0, free regions
    texture,  \* the image last uploaded to the texture, NoTexture or Unknown
    ok        \* FALSE once a call failed that neither the window nor OpenGL failed

vars == <<atlas, texture, ok>>

IsAtlas(a) ==
    /\ IsImage(a.image)
    /\ \E n \in 0 .. MaxRegionId + 1 : a.regions \in [0 .. n - 1 -> Region]
    /\ a.free_regions \in Seq(Region)

TypeOK == IsAtlas(atlas) /\ ok \in BOOLEAN

-----------------------------------------------------------------------------
(***************************************************************************)
(* The image.                                                              *)
(***************************************************************************)
BlankImage(width, height) ==
    [width |-> width, height |-> height,
     pixels |-> [p \in Points(width, height) |-> Blank]]

\* Resized that copies no pixel (a mutated form).
ResizedBlank(image, width, height) == BlankImage(width, height)

\* odImage_resize, as the atlas uses it: never smaller.
Resized(image, width, height) ==
    [width |-> width, height |-> height,
     pixels |-> [p \in Points(width, height) |->
                    IF p \in DOMAIN image.pixels THEN image.pixels[p] ELSE Blank]]

\* odColor_blit of a whole picture to the pixels of a region.
Blit(image, region, picture) ==
    [width |-> image.width, height |-> image.height,
     pixels |-> [p \in DOMAIN image.pixels |->
                    IF Covers(region, p)
                      THEN <<picture, p[1] - region.x1, p[2] - region.y1>>
                      ELSE image.pixels[p]]]

-----------------------------------------------------------------------------
(***************************************************************************)
(* Regions.  Each operator is a function of the C++ file from the odAtlas  *)
(* before it to the odAtlas after it.                                      *)
(***************************************************************************)

\* odAtlasRegion_can_allocate.
Fits(region, width, height) ==
    region.x2 - region.x1 >= width /\ region.y2 - region.y1 >= height

\* EnsuredRegions that leaves a gap below the id (a mutated form).
GappedRegions(a, id) ==
    [i \in DOMAIN a.regions \cup {id} |->
        IF i \in DOMAIN a.regions THEN a.regions[i] ELSE ZeroBounds]

\* odAtlas_ensure_count.
EnsuredRegions(a, id) ==
    [i \in DOMAIN a.regions \cup 0 .. id |->
        IF i \in DOMAIN a.regions THEN a.regions[i] ELSE ZeroBounds]

WithFreed(free_regions, region) ==
    IF HasArea(region) THEN Append(free_regions, region) ELSE free_regions

\* Reset that leaves the region in place (a mutated form).
ResetKeepingRegion(a, id) ==
    [image |-> a.image,
     regions |-> EnsuredRegions(a, id),
     free_regions |-> WithFreed(a.free_regions, EnsuredRegions(a, id)[id])]

\* odAtlas_reset_region: the region, if it has area, is free again.
Reset(a, id) ==
    [image |-> a.image,
     regions |-> [EnsuredRegions(a, id) EXCEPT ![id] = ZeroBounds],
     free_regions |-> WithFreed(a.free_regions, EnsuredRegions(a, id)[id])]

CanAllocate(a, width, height) ==
    \E i \in 1 .. Len(a.free_regions) : Fits(a.free_regions[i], width, height)

NewWidth(a, width) == IF width > a.image.width THEN width ELSE a.image.width

\* WithNewRow with the row at the top (a mutated form).
WithRowAtTop(a, width, height) ==
    [image |-> Resized(a.image, NewWidth(a, width), a.image.height + height),
     regions |-> a.regions,
     free_regions |-> Append(a.free_regions, Box(0, 0, NewWidth(a, width), height))]

\* odAtlas_allocate_free_region: the image grows by a row of the height asked for.
WithNewRow(a, width, height) ==
    [image |-> Resized(a.image, NewWidth(a, width), a.image.height + height),
     regions |-> a.regions,
     free_regions |-> Append(a.free_regions,
                             Box(0, a.image.height,
                                 NewWidth(a, width), a.image.height + height))]

\* odAtlas_get_free_region: a row is added unless a free region fits ...
GrownFor(a, width, height) ==
    IF CanAllocate(a, width, height) THEN a ELSE WithNewRow(a, width, height)

\* ... and the first free region that fits is taken.
FirstFit(free_regions, width, height) ==
    CHOOSE i \in 1 .. Len(free_regions) :
        /\ Fits(free_regions[i], width, height)
        /\ \A j \in 1 .. i - 1 : ~Fits(free_regions[j], width, height)

\* The top-left corner of a region, which odAtlasRegion_allocate takes.
Corner(region, width, height) ==
    Box(region.x1, region.y1, region.x1 + width, region.y1 + height)

OneIfArea(region) == IF HasArea(region) THEN <<region>> ELSE << >>

\* Split with both remainders reaching the far corner (a mutated form).
OverlappingSplit(region, width, height) ==
    OneIfArea(Box(region.x1 + width, region.y1, region.x2, region.y2))
        \o OneIfArea(Box(region.x1, region.y1 + height, region.x2, region.y2))

\* odAtlasRegion_allocate: what is left to the right of the corner it takes, and what
\* is left below, stay free.
Split(region, width, height) ==
    OneIfArea(Box(region.x1 + width, region.y1, region.x2, region.y1 + height))
        \o OneIfArea(Box(region.x1, region.y1 + height, region.x2, region.y2))

\* odAtlas_set_region_size after its reset: take, extend, swap_pop.
Take(a, id, width, height, i) ==
    LET free == a.free_regions[i]
    IN  [image |-> a.image,
         regions |-> [a.regions EXCEPT ![id] = Corner(free, width, height)],
         free_regions |-> SwapPop(a.free_regions \o Split(free, width, height), i)]

Allocated(a, id, width, height) ==
    LET grown == GrownFor(a, width, height)
    IN  Take(grown, id, width, height, FirstFit(grown.free_regions, width, height))

\* odImage_get's debug check of the corner: "(y >= 0) && (x < image->height)".
CornerChecks(a, id) == DebugChecks => a.regions[id].x1 < a.image.height

-----------------------------------------------------------------------------
(***************************************************************************)
(* The operations of odTextureAtlas.                                       *)
(***************************************************************************)
WhiteImage == [width |-> 1, height |-> 1, pixels |-> [p \in Points(1, 1) |-> White]]
NoRegions == [i \in {} |-> ZeroBounds]
InitialAtlas == [image |-> WhiteImage, regions |-> NoRegions, free_regions |-> << >>]
DestroyedAtlas ==
    [image |-> BlankImage(0, 0), regions |-> NoRegions, free_regions |-> << >>]

\* UpdateTexture that uploads only when the image grew (a mutated form).
UpdateGrownTexture ==
    \/ texture' = (IF atlas'.image.height = atlas.image.height THEN texture ELSE atlas'.image)
    \/ texture' \in {NoTexture, Unknown}

\* odTextureAtlas_update_texture: a new texture of the whole image.  Binding the
\* window may fail, which leaves no texture, and OpenGL may report an error, which
\* leaves one of unknown content; either way the call returns false.
UpdateTexture ==
    \/ texture' = atlas'.image
    \/ texture' \in {NoTexture, Unknown}

\* odTextureAtlas_check_valid: the texture has a window, a name and a size.
Valid == texture # NoTexture

Drawn(a, id, picture) ==
    [image |-> Blit(a.image, a.regions[id], picture),
     regions |-> a.regions,
     free_regions |-> a.free_regions]

\* odTextureAtlas_set_region, to the blit that ends odAtlas_set_region.
SetRegion(id, width, height, picture) ==
    LET sized == Allocated(Reset(atlas, id), id, width, height)
    IN  /\ Valid
        /\ sized.image.height <= MaxHeight
        /\ IF CornerChecks(sized, id)
             THEN /\ atlas' = Drawn(sized, id, picture)
                  /\ UpdateTexture
                  /\ UNCHANGED ok
             ELSE /\ atlas' = sized
                  /\ ok' = FALSE
                  /\ UNCHANGED texture

\* odTextureAtlas_reset_region.
ResetRegion(id) ==
    /\ Valid
    /\ atlas' = Reset(atlas, id)
    /\ UpdateTexture
    /\ UNCHANGED ok

\* odTextureAtlas_init.  When OpenGL fails it, the bindings raise an error and the atlas
\* is never used: as if destroyed.
InitTextureAtlas ==
    /\ atlas' = InitialAtlas
    /\ texture' = WhiteImage
    /\ UNCHANGED ok

\* odTextureAtlas_destroy.
DestroyTextureAtlas ==
    /\ atlas' = DestroyedAtlas
    /\ texture' = NoTexture
    /\ UNCHANGED ok

\* odWindow_destroy takes the window from every resource it has.
DestroyWindow ==
    /\ texture' = NoTexture
    /\ UNCHANGED <<atlas, ok>>

Init ==
    /\ atlas = InitialAtlas
    /\ texture = WhiteImage
    /\ ok = TRUE

Next ==
    \/ \E id \in RegionId, size \in Size, picture \in Picture :
          SetRegion(id, size[1], size[2], picture)
    \/ \E id \in RegionId : ResetRegion(id)
    \/ InitTextureAtlas
    \/ DestroyTextureAtlas
    \/ DestroyWindow

Spec == Init /\ [][Next]_vars

-----------------------------------------------------------------------------
(***************************************************************************)
(* Properties.                                                             *)
(***************************************************************************)
Inside(region, image) ==
    0 <= region.x1 /\ 0 <= region.y1 /\ region.x2 <= image.width /\ region.y2 <= image.height

Used(a) == {i \in DOMAIN a.regions : HasArea(a.regions[i])}

Taken(a, region) ==
    HasArea(region) /\ Inside(region, a.image) /\ ~Covers(region, <<0, 0>>)

AreApart(a) ==
    LET free == a.free_regions
    IN  /\ \A k \in 1 .. Len(free) : Taken(a, free[k])
        /\ \A i \in Used(a) : Taken(a, a.regions[i])
        /\ \A k, l \in 1 .. Len(free) : k # l => ~Collides(free[k], free[l])
        /\ \A i \in Used(a), k \in 1 .. Len(free) : ~Collides(a.regions[i], free[k])
        /\ \A i, j \in Used(a) : i # j => ~Collides(a.regions[i], a.regions[j])

\* Boxes given out and free boxes take no other's pixels: they are in the image, no
\* two overlap, and none has the white pixel that primitives without a picture are
\* drawn with.  Growth, splits and the holes that resets leave must all keep this.
RegionsAreApart == AreApart(atlas)

HoldsPicture(image, region) ==
    \E picture \in Picture :
        \A p \in DOMAIN image.pixels :
            Covers(region, p) =>
                image.pixels[p] = <<picture, p[1] - region.x1, p[2] - region.y1>>

\* Every region given out holds one whole picture, pixel for pixel, whatever was
\* set and reset since, and however the image grew under it.
RegionsHoldPictures == \A i \in Used(atlas) : HoldsPicture(atlas.image, atlas.regions[i])

\* The white pixel stays white until the atlas is destroyed.
WhitePixelStaysWhite ==
    atlas.image.height > 0 => atlas.image.pixels[<<0, 0>>] = White

\* What is drawn with is what the atlas holds: a texture that uploaded is the image
\* as it is now, not as it was some region ago.
TextureShowsImage == texture \in {NoTexture, Unknown} \/ texture = atlas.image

\* Setting a region of a legal size succeeds unless OpenGL or the window fails: what
\* the tests of the atlas assert of every odAtlas_set_region.
SetRegionSucceeds == ok

\* The atlas implements the table of PictureTable: whatever else happens to a region,
\* what its bounds show changes only when it is itself set or reset.
ShownBy(image, region) ==
    IF HasArea(region)
      THEN <<image.pixels[<<region.x1, region.y1>>][1],
             region.x2 - region.x1, region.y2 - region.y1>>
      ELSE Nothing
Pictures == INSTANCE PictureTable WITH
    table <- [i \in DOMAIN atlas.regions |-> ShownBy(atlas.image, atlas.regions[i])],
    Shown <- {<<picture, size[1], size[2]>> : picture \in Picture, size \in Size},
    None <- Nothing
ImplementsPictureTable == Pictures!TableSpec
=============================================================================
