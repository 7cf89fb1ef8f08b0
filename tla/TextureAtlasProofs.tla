------------------------- MODULE TextureAtlasProofs -------------------------
(***************************************************************************)
(* The texture atlas, for every number of regions, set of pictures and set *)
(* of sizes: boxes stay apart through resets, growth and splits, and so    *)
(* drawing one region never changes what another shows.                    *)
(***************************************************************************)
EXTENDS TextureAtlas, ArrayLemmas, TLAPS

USE MaxRegionIdAssumption, SizeAssumption, DebugChecksAssumption

-----------------------------------------------------------------------------
(***************************************************************************)
(* Boxes.                                                                  *)
(***************************************************************************)
Within(box, outer) ==
    /\ outer.x1 <= box.x1 /\ box.x2 <= outer.x2
    /\ outer.y1 <= box.y1 /\ box.y2 <= outer.y2

\* What is apart from a box is apart from every part of the box.
LEMMA PartsAreApart ==
    ASSUME NEW outer \in Region, NEW box \in Region, NEW other \in Region,
           Within(box, outer)
    PROVE  /\ ~Collides(outer, other) => ~Collides(box, other)
           /\ ~Collides(other, outer) => ~Collides(other, box)
BY DEF Within, Collides, Region

\* What a box holds, the image holds; and a part has no pixel the box has not.
LEMMA PartsAreTaken ==
    ASSUME NEW a, IsAtlas(a), NEW outer \in Region, NEW box \in Region,
           Within(box, outer), HasArea(box), Taken(a, outer)
    PROVE  Taken(a, box)
BY SMTT(30) DEF Within, Taken, HasArea, Inside, Covers, Region, IsAtlas, IsImage

\* Boxes that share no area share no pixel.
LEMMA ApartSharesNoPixel ==
    ASSUME NEW box \in Region, NEW other \in Region, ~Collides(box, other),
           NEW p \in Nat \X Nat, Covers(box, p)
    PROVE  ~Covers(other, p)
BY DEF Covers, Collides, Region

\* Whether two boxes collide does not depend on which is asked.
LEMMA CollidesSymmetric ==
    ASSUME NEW box \in Region, NEW other \in Region
    PROVE  Collides(box, other) <=> Collides(other, box)
BY DEF Collides, Region

\* odAtlasRegion_allocate: the corner has the size asked for, the pieces have area,
\* lie in the region, and are apart from the corner and from each other.
LEMMA SplitPieces ==
    ASSUME NEW region \in Region, NEW width \in Nat \ {0}, NEW height \in Nat \ {0},
           Fits(region, width, height)
    PROVE  LET corner == Corner(region, width, height)
               pieces == Split(region, width, height)
           IN  /\ corner \in Region /\ HasArea(corner) /\ Within(corner, region)
               /\ corner.x2 - corner.x1 = width /\ corner.y2 - corner.y1 = height
               /\ pieces \in Seq(Region)
               /\ \A k \in 1 .. Len(pieces) :
                     /\ HasArea(pieces[k]) /\ Within(pieces[k], region)
                     /\ ~Collides(corner, pieces[k])
               /\ \A k, l \in 1 .. Len(pieces) :
                     k # l => ~Collides(pieces[k], pieces[l])
<1> DEFINE corner == Corner(region, width, height)
           right == Box(region.x1 + width, region.y1, region.x2, region.y1 + height)
           below == Box(region.x1, region.y1 + height, region.x2, region.y2)
           pieces == Split(region, width, height)
           Piece(box) == /\ HasArea(box) /\ Within(box, region)
                         /\ ~Collides(corner, box)
<1>1. /\ corner \in Region /\ HasArea(corner) /\ Within(corner, region)
      /\ corner.x2 - corner.x1 = width /\ corner.y2 - corner.y1 = height
  BY DEF Corner, Box, Region, HasArea, Within, Fits
<1>2. right \in Region /\ (HasArea(right) => Piece(right))
  BY DEF Corner, Box, Region, HasArea, Within, Fits, Collides
<1>3. below \in Region /\ (HasArea(below) => Piece(below))
  BY DEF Corner, Box, Region, HasArea, Within, Fits, Collides
<1>4. ~Collides(right, below) /\ ~Collides(below, right)
  BY DEF Box, Region, Fits, Collides
<1>5. pieces = (IF HasArea(right) THEN <<right>> ELSE << >>)
                  \o (IF HasArea(below) THEN <<below>> ELSE << >>)
  BY DEF Split, OneIfArea
<1> HIDE DEF corner, right, below, pieces, Piece
<1>6. /\ pieces \in Seq(Region)
      /\ \A k \in 1 .. Len(pieces) : Piece(pieces[k])
      /\ \A k, l \in 1 .. Len(pieces) : k # l => ~Collides(pieces[k], pieces[l])
  <2>1. CASE HasArea(right) /\ HasArea(below)
    <3>1. pieces = <<right, below>>
      BY <1>2, <1>3, <1>5, <2>1, PairConcat
    <3>2. QED
      BY <1>2, <1>3, <1>4, <2>1, <3>1
  <2>2. CASE HasArea(right) /\ ~HasArea(below)
    <3>1. pieces = <<right>>
      BY <1>5, <2>2
    <3>2. QED
      BY <1>2, <2>2, <3>1
  <2>3. CASE ~HasArea(right) /\ HasArea(below)
    <3>1. pieces = <<below>>
      BY <1>5, <2>3
    <3>2. QED
      BY <1>3, <2>3, <3>1
  <2>4. CASE ~HasArea(right) /\ ~HasArea(below)
    <3>1. pieces = << >>
      BY <1>5, <2>4
    <3>2. QED
      BY <3>1
  <2>5. QED
    BY <2>1, <2>2, <2>3, <2>4
<1>7. QED
  BY <1>1, <1>6 DEF Piece, corner, pieces

-----------------------------------------------------------------------------
(***************************************************************************)
(* The steps of odAtlas_set_region_size, one lemma each.                   *)
(***************************************************************************)

\* Every box the atlas keeps is one of the regions.
LEMMA AtlasElements ==
    ASSUME NEW a, IsAtlas(a)
    PROVE  /\ a.image.width \in Nat /\ a.image.height \in Nat
           /\ \A i \in DOMAIN a.regions : a.regions[i] \in Region
           /\ Len(a.free_regions) \in Nat
           /\ \A k \in 1 .. Len(a.free_regions) : a.free_regions[k] \in Region
<1>1. \A i \in DOMAIN a.regions : a.regions[i] \in Region
  BY DEF IsAtlas
<1>2. a.free_regions \in Seq(Region)
  BY DEF IsAtlas
<1>3. QED
  BY <1>1, <1>2 DEF IsAtlas, IsImage

\* odAtlas_ensure_count: the ids stay an initial segment, new regions have no area.
LEMMA EnsuredKeeps ==
    ASSUME NEW a, IsAtlas(a), NEW id \in RegionId
    PROVE  /\ \E n \in 0 .. MaxRegionId + 1 :
                 EnsuredRegions(a, id) \in [0 .. n - 1 -> Region]
           /\ id \in DOMAIN EnsuredRegions(a, id)
           /\ DOMAIN EnsuredRegions(a, id) = DOMAIN a.regions \cup 0 .. id
           /\ \A i \in DOMAIN EnsuredRegions(a, id) :
                 /\ EnsuredRegions(a, id)[i] \in Region
                 /\ HasArea(EnsuredRegions(a, id)[i]) =>
                       i \in Used(a) /\ EnsuredRegions(a, id)[i] = a.regions[i]
           /\ \A i \in Used(a) :
                 i \in DOMAIN EnsuredRegions(a, id) /\ EnsuredRegions(a, id)[i] = a.regions[i]
<1> DEFINE grown == EnsuredRegions(a, id)
<1>1. PICK n \in 0 .. MaxRegionId + 1 : a.regions \in [0 .. n - 1 -> Region]
  BY DEF IsAtlas
<1>2. ZeroBounds \in Region /\ ~HasArea(ZeroBounds)
  BY DEF ZeroBounds, Box, Region, HasArea
<1>3. /\ DOMAIN grown = DOMAIN a.regions \cup 0 .. id
      /\ \A i \in DOMAIN grown :
            grown[i] = IF i \in DOMAIN a.regions THEN a.regions[i] ELSE ZeroBounds
  BY DEF EnsuredRegions
<1>4. \A i \in DOMAIN grown : grown[i] \in Region
  BY <1>1, <1>2, <1>3
<1>5. \E m \in 0 .. MaxRegionId + 1 : grown \in [0 .. m - 1 -> Region]
  <2> DEFINE m == IF id < n THEN n ELSE id + 1
  <2>1. m \in 0 .. MaxRegionId + 1 /\ 0 .. m - 1 = 0 .. n - 1 \cup 0 .. id
    BY DEF RegionId
  <2>2. DOMAIN grown = 0 .. m - 1
    BY <1>1, <1>3, <2>1
  <2>3. grown \in [DOMAIN grown -> Region]
    BY <1>4 DEF EnsuredRegions
  <2>4. QED
    BY <2>1, <2>2, <2>3
<1>6. id \in DOMAIN grown
  BY <1>3 DEF RegionId
<1>7. QED
  BY <1>2, <1>3, <1>4, <1>5, <1>6 DEF Used

\* odAtlas_reset_region: the region goes to the free ones, all stay apart.
LEMMA ResetKeeps ==
    ASSUME NEW a, IsAtlas(a), AreApart(a), NEW id \in RegionId
    PROVE  LET b == Reset(a, id)
           IN  /\ IsAtlas(b) /\ AreApart(b)
               /\ b.image = a.image
               /\ id \in DOMAIN b.regions
               /\ DOMAIN b.regions = DOMAIN a.regions \cup 0 .. id
               /\ Used(b) = Used(a) \ {id}
               /\ \A i \in Used(b) : b.regions[i] = a.regions[i]
<1> DEFINE b == Reset(a, id)
           grown == EnsuredRegions(a, id)
           free == a.free_regions
<1>1. /\ b.image = a.image
      /\ b.regions = [grown EXCEPT ![id] = ZeroBounds]
      /\ b.free_regions = WithFreed(free, grown[id])
  BY DEF Reset
<1>2. ZeroBounds \in Region /\ ~HasArea(ZeroBounds)
  BY DEF ZeroBounds, Box, Region, HasArea
<1>3. /\ DOMAIN grown = DOMAIN a.regions \cup 0 .. id
      /\ id \in DOMAIN grown
      /\ \A i \in DOMAIN grown :
            HasArea(grown[i]) => i \in Used(a) /\ grown[i] = a.regions[i]
      /\ \A i \in Used(a) : i \in DOMAIN grown /\ grown[i] = a.regions[i]
  BY EnsuredKeeps
<1>4. \E n \in 0 .. MaxRegionId + 1 : b.regions \in [0 .. n - 1 -> Region]
  <2>1. PICK n \in 0 .. MaxRegionId + 1 : grown \in [0 .. n - 1 -> Region]
    BY EnsuredKeeps
  <2>2. b.regions \in [0 .. n - 1 -> Region]
    BY <1>1, <1>2, <2>1
  <2>3. QED
    BY <2>2
<1> HIDE DEF b, grown
<1>5. /\ DOMAIN b.regions = DOMAIN grown
      /\ \A i \in DOMAIN grown : b.regions[i] = IF i = id THEN ZeroBounds ELSE grown[i]
  BY <1>1
<1>6. /\ Used(b) = Used(a) \ {id}
       /\ \A i \in Used(b) : b.regions[i] = a.regions[i]
  <2>1. ASSUME NEW i \in Used(b)
        PROVE  i \in Used(a) \ {id} /\ b.regions[i] = a.regions[i]
    BY <1>2, <1>3, <1>5, <2>1 DEF Used
  <2>2. ASSUME NEW i \in Used(a) \ {id}
        PROVE  i \in Used(b)
    BY <1>3, <1>5, <2>2 DEF Used
  <2>3. QED
    BY <2>1, <2>2
<1>7. free \in Seq(Region)
  BY DEF IsAtlas
<1>8. CASE HasArea(grown[id])
  <2>1. id \in Used(a) /\ grown[id] = a.regions[id] /\ grown[id] \in Region
    BY <1>8, EnsuredKeeps DEF grown
  <2>2. b.free_regions = Append(free, a.regions[id])
    BY <1>1, <1>8, <2>1 DEF WithFreed
  <2>3. /\ b.free_regions \in Seq(Region)
        /\ Len(b.free_regions) = Len(free) + 1
        /\ \A k \in 1 .. Len(free) + 1 :
              b.free_regions[k] = IF k = Len(free) + 1 THEN a.regions[id] ELSE free[k]
    BY <1>7, <2>1, <2>2, AppendElements
  <2>4. IsAtlas(b)
    BY <1>1, <1>4, <2>3 DEF IsAtlas
  <2>5. Len(free) \in Nat /\ \A k \in 1 .. Len(free) : free[k] \in Region
    BY <1>7
  <2>6. \A k \in 1 .. Len(free) : /\ ~Collides(a.regions[id], free[k])
                                  /\ ~Collides(free[k], a.regions[id])
    BY <2>1, <2>5, CollidesSymmetric DEF AreApart
  <2>7. /\ \A k \in 1 .. Len(b.free_regions) : Taken(b, b.free_regions[k])
        /\ \A i \in Used(b) : Taken(b, b.regions[i])
    BY <1>1, <1>6, <2>1, <2>3, <2>5 DEF AreApart, Taken
  <2>8. \A k, l \in 1 .. Len(b.free_regions) :
           k # l => ~Collides(b.free_regions[k], b.free_regions[l])
    <3>1. SUFFICES ASSUME NEW k \in 1 .. Len(free) + 1, NEW l \in 1 .. Len(free) + 1,
                          k # l
                   PROVE  ~Collides(b.free_regions[k], b.free_regions[l])
      BY <2>3
    <3>2. CASE k = Len(free) + 1
      BY <2>3, <2>5, <2>6, <3>1, <3>2
    <3>3. CASE l = Len(free) + 1
      BY <2>3, <2>5, <2>6, <3>1, <3>3
    <3>4. CASE k \in 1 .. Len(free) /\ l \in 1 .. Len(free)
      BY <2>3, <2>5, <3>1, <3>4 DEF AreApart
    <3>5. QED
      BY <2>5, <3>2, <3>3, <3>4
  <2>9. \A i \in Used(b), k \in 1 .. Len(b.free_regions) :
           ~Collides(b.regions[i], b.free_regions[k])
    BY <1>6, <2>1, <2>3, <2>5 DEF AreApart
  <2>10. \A i, j \in Used(b) : i # j => ~Collides(b.regions[i], b.regions[j])
    BY <1>6 DEF AreApart
  <2>11. AreApart(b)
    BY <2>7, <2>8, <2>9, <2>10 DEF AreApart
  <2>12. QED
    BY <1>1, <1>3, <1>5, <1>6, <2>4, <2>11 DEF b
<1>9. CASE ~HasArea(grown[id])
  <2>1. b.free_regions = free
    BY <1>1, <1>9 DEF WithFreed
  <2>2. IsAtlas(b)
    BY <1>1, <1>4, <1>7, <2>1 DEF IsAtlas
  <2>3. AreApart(b)
    BY <1>1, <1>6, <2>1 DEF AreApart, Taken
  <2>4. QED
    BY <1>1, <1>3, <1>5, <1>6, <2>2, <2>3 DEF b
<1>10. QED
  BY <1>8, <1>9

\* An image that grew: wherever there was a pixel it is as it was.
GrowsTo(image, bigger) ==
    \A p \in DOMAIN image.pixels :
        p \in DOMAIN bigger.pixels /\ bigger.pixels[p] = image.pixels[p]

\* A larger image has the old pixels where they were.
LEMMA ResizedGrows ==
    ASSUME NEW image, IsImage(image), NEW w \in Nat, NEW h \in Nat,
           w >= image.width, h >= image.height
    PROVE  GrowsTo(image, Resized(image, w, h))
<1>1. /\ image.width \in Nat /\ image.height \in Nat
      /\ DOMAIN image.pixels = Points(image.width, image.height)
  BY DEF IsImage
<1>2. Points(image.width, image.height) \subseteq Points(w, h)
  BY <1>1 DEF Points
<1>3. QED
  BY <1>1, <1>2 DEF GrowsTo, Resized

\* odAtlas_allocate_free_region: the row is below every other box, and the image only
\* grows, so all boxes stay in it.
LEMMA RowKeeps ==
    ASSUME NEW a, IsAtlas(a), AreApart(a), a.image.height > 0,
           NEW width \in Nat \ {0}, NEW height \in Nat \ {0}
    PROVE  LET b == WithNewRow(a, width, height)
           IN  /\ IsAtlas(b) /\ AreApart(b)
               /\ b.regions = a.regions
               /\ CanAllocate(b, width, height)
               /\ b.image.height > 0
               /\ b.image.width >= a.image.width
               /\ GrowsTo(a.image, b.image)
<1> DEFINE b == WithNewRow(a, width, height)
           w == NewWidth(a, width)
           h == a.image.height + height
           row == Box(0, a.image.height, w, h)
           free == a.free_regions
<1>1. /\ a.image.width \in Nat /\ a.image.height \in Nat
      /\ \A i \in DOMAIN a.regions : a.regions[i] \in Region
      /\ Len(free) \in Nat /\ free \in Seq(Region)
      /\ \A k \in 1 .. Len(free) : free[k] \in Region
  BY AtlasElements DEF IsAtlas
<1>2. /\ w \in Nat /\ w >= a.image.width /\ w >= width
      /\ h \in Nat /\ h > a.image.height
  BY <1>1 DEF NewWidth
<1>3. /\ b.image = Resized(a.image, w, h)
      /\ b.regions = a.regions
      /\ b.free_regions = Append(free, row)
  BY DEF WithNewRow
<1>4. /\ b.image.width = w /\ b.image.height = h
  BY <1>3 DEF Resized
<1> HIDE DEF b, w, h
<1>5. /\ row \in Region /\ HasArea(row) /\ Fits(row, width, height)
      /\ ~Covers(row, <<0, 0>>) /\ Inside(row, b.image)
  <2>1. h = a.image.height + height
    BY DEF h
  <2>2. QED
    BY <1>1, <1>2, <1>4, <2>1 DEF Box, Region, HasArea, Fits, Covers, Inside
<1> HIDE DEF row
<1>6. /\ b.free_regions \in Seq(Region)
      /\ Len(b.free_regions) = Len(free) + 1
      /\ \A k \in 1 .. Len(free) + 1 :
            b.free_regions[k] = IF k = Len(free) + 1 THEN row ELSE free[k]
  BY <1>1, <1>3, <1>5, AppendElements
<1>7. ASSUME NEW box \in Region, Taken(a, box)
      PROVE  Taken(b, box) /\ ~Collides(box, row) /\ ~Collides(row, box)
  <2>1. row.y1 = a.image.height
    BY DEF row, Box
  <2>2. QED
    BY <1>1, <1>2, <1>4, <1>5, <1>7, <2>1, SMTT(30) DEF Taken, Inside, Collides, Region
<1>8. IsImage(b.image)
  <2>1. a.image.pixels \in [Points(a.image.width, a.image.height) -> Pixel]
    BY DEF IsAtlas, IsImage
  <2>2. b.image.pixels \in [Points(w, h) -> Pixel]
    BY <1>3, <2>1 DEF Resized, Pixel
  <2>3. QED
    BY <1>2, <1>4, <2>2 DEF IsImage
<1>9. IsAtlas(b)
  BY <1>3, <1>6, <1>8 DEF IsAtlas
<1>10. /\ \A i \in Used(a) : Taken(a, a.regions[i]) /\ a.regions[i] \in Region
       /\ \A k \in 1 .. Len(free) : Taken(a, free[k])
       /\ Used(b) = Used(a)
  BY <1>1, <1>3 DEF AreApart, Used
<1>11. AreApart(b)
  <2>1. \A k \in 1 .. Len(b.free_regions) : Taken(b, b.free_regions[k])
    BY <1>1, <1>5, <1>6, <1>7, <1>10, SMTT(30) DEF Taken
  <2>2. \A i \in Used(b) : Taken(b, b.regions[i])
    BY <1>3, <1>7, <1>10
  <2>3. \A k, l \in 1 .. Len(b.free_regions) :
           k # l => ~Collides(b.free_regions[k], b.free_regions[l])
    <3>1. SUFFICES ASSUME NEW k \in 1 .. Len(free) + 1, NEW l \in 1 .. Len(free) + 1,
                          k # l
                   PROVE  ~Collides(b.free_regions[k], b.free_regions[l])
      BY <1>6
    <3>2. CASE k = Len(free) + 1
      BY <1>1, <1>6, <1>7, <1>10, <3>1, <3>2
    <3>3. CASE l = Len(free) + 1
      BY <1>1, <1>6, <1>7, <1>10, <3>1, <3>3, SMTT(30)
    <3>4. CASE k \in 1 .. Len(free) /\ l \in 1 .. Len(free)
      BY <1>1, <1>6, <3>1, <3>4 DEF AreApart
    <3>5. QED
      BY <1>1, <3>2, <3>3, <3>4
  <2>4. \A i \in Used(b), k \in 1 .. Len(b.free_regions) :
           ~Collides(b.regions[i], b.free_regions[k])
    <3>1. SUFFICES ASSUME NEW i \in Used(a), NEW k \in 1 .. Len(free) + 1
                   PROVE  ~Collides(a.regions[i], b.free_regions[k])
      BY <1>3, <1>6, <1>10
    <3>2. CASE k = Len(free) + 1
      BY <1>6, <1>7, <1>10, <3>2
    <3>3. CASE k \in 1 .. Len(free)
      BY <1>1, <1>6, <3>3 DEF AreApart
    <3>4. QED
      BY <1>1, <3>2, <3>3
  <2>5. \A i, j \in Used(b) : i # j => ~Collides(b.regions[i], b.regions[j])
    BY <1>3, <1>10 DEF AreApart
  <2>6. QED
    BY <2>1, <2>2, <2>3, <2>4, <2>5 DEF AreApart
<1>12. CanAllocate(b, width, height)
  BY <1>1, <1>5, <1>6 DEF CanAllocate
<1>13. GrowsTo(a.image, b.image)
  BY <1>1, <1>2, <1>3, ResizedGrows DEF IsAtlas
<1>14. QED
  BY <1>1, <1>2, <1>3, <1>4, <1>9, <1>11, <1>12, <1>13 DEF b

\* odAtlas_set_region_size, once it has a free region to take: extend by the pieces,
\* then swap_pop.
LEMMA TakeKeeps ==
    ASSUME NEW a, IsAtlas(a), AreApart(a),
           NEW id \in DOMAIN a.regions, ~HasArea(a.regions[id]),
           NEW width \in Nat \ {0}, NEW height \in Nat \ {0},
           NEW i \in 1 .. Len(a.free_regions), Fits(a.free_regions[i], width, height)
    PROVE  LET b == Take(a, id, width, height, i)
               corner == Corner(a.free_regions[i], width, height)
           IN  /\ IsAtlas(b) /\ AreApart(b)
               /\ b.image = a.image
               /\ corner \in Region /\ HasArea(corner)
               /\ corner.x2 - corner.x1 = width /\ corner.y2 - corner.y1 = height
               /\ b.regions = [a.regions EXCEPT ![id] = corner]
               /\ Used(b) = Used(a) \cup {id}
<1> DEFINE b == Take(a, id, width, height, i)
           free == a.free_regions
           outer == free[i]
           corner == Corner(outer, width, height)
           pieces == Split(outer, width, height)
           n == Len(free)
           all == free \o pieces
<1>1. /\ \A j \in DOMAIN a.regions : a.regions[j] \in Region
      /\ n \in Nat /\ free \in Seq(Region)
      /\ \A k \in 1 .. n : free[k] \in Region
      /\ outer \in Region
  BY AtlasElements DEF IsAtlas
<1>2. /\ corner \in Region /\ HasArea(corner) /\ Within(corner, outer)
      /\ corner.x2 - corner.x1 = width /\ corner.y2 - corner.y1 = height
      /\ pieces \in Seq(Region)
      /\ \A k \in 1 .. Len(pieces) :
            HasArea(pieces[k]) /\ Within(pieces[k], outer) /\ ~Collides(corner, pieces[k])
      /\ \A k, l \in 1 .. Len(pieces) : k # l => ~Collides(pieces[k], pieces[l])
  BY <1>1, SplitPieces
<1>3. /\ b.image = a.image
      /\ b.regions = [a.regions EXCEPT ![id] = corner]
      /\ b.free_regions = SwapPop(all, i)
  BY DEF Take
<1>4. /\ \A k \in 1 .. n : Taken(a, free[k])
      /\ \A k \in 1 .. n : k # i => ~Collides(free[k], outer) /\ ~Collides(outer, free[k])
      /\ \A k, l \in 1 .. n : k # l => ~Collides(free[k], free[l])
      /\ \A j \in Used(a) : /\ a.regions[j] \in Region /\ Taken(a, a.regions[j])
                            /\ ~Collides(a.regions[j], outer)
      /\ \A j \in Used(a), k \in 1 .. n : ~Collides(a.regions[j], free[k])
  BY <1>1 DEF AreApart, Used
<1> HIDE DEF b, corner, pieces
<1>5. /\ all \in Seq(Region) /\ Len(pieces) \in Nat
      /\ Len(all) = n + Len(pieces)
      /\ \A k \in 1 .. n + Len(pieces) :
            all[k] = IF k <= n THEN free[k] ELSE pieces[k - n]
  BY <1>1, <1>2, ConcatProperties
<1> HIDE DEF free, outer, all, n
<1>6. \A box \in Region : Within(box, outer) /\ HasArea(box) => Taken(a, box)
  BY <1>1, <1>4, PartsAreTaken DEF outer, n, free
<1>7. \A box, other \in Region : Within(box, outer) =>
         /\ ~Collides(outer, other) => ~Collides(box, other)
         /\ ~Collides(other, outer) => ~Collides(other, box)
  BY <1>1, PartsAreApart
<1>8. ASSUME NEW k \in (1 .. Len(all)) \ {i}
      PROVE  /\ all[k] \in Region /\ Taken(a, all[k]) /\ ~Collides(corner, all[k])
             /\ \A j \in Used(a) : ~Collides(a.regions[j], all[k])
             /\ \/ k \in 1 .. n /\ all[k] = free[k]
                \/ k - n \in 1 .. Len(pieces) /\ all[k] = pieces[k - n]
  <2>1. CASE k \in 1 .. n
    <3>1. all[k] = free[k]
      BY <1>1, <1>5, <2>1
    <3>2. ~Collides(corner, free[k])
      BY <1>1, <1>2, <1>4, <1>7, <1>8, <2>1
    <3>3. QED
      BY <1>1, <1>4, <2>1, <3>1, <3>2
  <2>2. CASE k \notin 1 .. n
    <3>1. k - n \in 1 .. Len(pieces) /\ all[k] = pieces[k - n]
      BY <1>1, <1>5, <2>2
    <3>2. all[k] \in Region /\ HasArea(all[k]) /\ Within(all[k], outer)
      BY <1>2, <3>1
    <3>3. QED
      BY <1>2, <1>4, <1>6, <1>7, <3>1, <3>2
  <2>3. QED
    BY <2>1, <2>2
<1>9. ASSUME NEW k \in (1 .. Len(all)) \ {i}, NEW l \in (1 .. Len(all)) \ {i}, k # l
      PROVE  ~Collides(all[k], all[l])
  <2>1. CASE k \in 1 .. n /\ l \in 1 .. n
    BY <1>1, <1>4, <1>5, <1>9, <2>1, SMTT(30)
  <2>2. CASE k \in 1 .. n /\ l \notin 1 .. n
    <3>1. all[k] = free[k] /\ ~Collides(free[k], outer)
      BY <1>1, <1>4, <1>5, <1>9, <2>2
    <3>2. all[l] \in Region /\ Within(all[l], outer)
      BY <1>1, <1>2, <1>8, <2>2
    <3>3. QED
      BY <1>1, <1>7, <1>8, <3>1, <3>2
  <2>3. CASE k \notin 1 .. n /\ l \in 1 .. n
    <3>1. all[l] = free[l] /\ ~Collides(outer, free[l])
      BY <1>1, <1>4, <1>5, <1>9, <2>3
    <3>2. all[k] \in Region /\ Within(all[k], outer)
      BY <1>1, <1>2, <1>8, <2>3
    <3>3. QED
      BY <1>1, <1>7, <1>8, <3>1, <3>2
  <2>4. CASE k \notin 1 .. n /\ l \notin 1 .. n
    <3>1. /\ k - n \in 1 .. Len(pieces) /\ all[k] = pieces[k - n]
          /\ l - n \in 1 .. Len(pieces) /\ all[l] = pieces[l - n]
      BY <1>8, <2>4
    <3>2. k - n # l - n
      BY <1>1, <1>5, <1>9
    <3>3. QED
      BY <1>2, <3>1, <3>2
  <2>5. QED
    BY <2>1, <2>2, <2>3, <2>4
<1> DEFINE Source(k) == IF k = i THEN Len(all) ELSE k
           m == Len(all) - 1
<1>10. i \in 1 .. Len(all) /\ Len(all) \in Nat \ {0}
  BY <1>1, <1>5 DEF n, free
<1>11. /\ b.free_regions \in Seq(Region)
       /\ Len(b.free_regions) = m
       /\ \A k \in 1 .. m : /\ Source(k) \in (1 .. Len(all)) \ {i}
                            /\ b.free_regions[k] = all[Source(k)]
       /\ \A k, l \in 1 .. m : k # l => Source(k) # Source(l)
  <2>1. b.free_regions \in Seq(Region) /\ Len(b.free_regions) = m
    BY <1>3, <1>5, <1>10, SwapPopType
  <2>2. ASSUME NEW k \in 1 .. m
        PROVE  Source(k) \in (1 .. Len(all)) \ {i} /\ b.free_regions[k] = all[Source(k)]
    BY <1>3, <1>10 DEF SwapPop
  <2>3. \A k, l \in 1 .. m : k # l => Source(k) # Source(l)
    BY <1>10
  <2>4. QED
    BY <2>1, <2>2, <2>3
<1> HIDE DEF Source, m
<1>12. /\ Used(b) = Used(a) \cup {id}
       /\ b.regions[id] = corner
       /\ \A j \in Used(a) : j # id /\ b.regions[j] = a.regions[j]
  BY <1>2, <1>3 DEF Used
<1>13. Taken(a, corner)
  BY <1>2, <1>6
<1>14. \A j \in Used(a) : /\ ~Collides(a.regions[j], corner)
                          /\ ~Collides(corner, a.regions[j])
  BY <1>2, <1>4, <1>7, CollidesSymmetric
<1>15. IsAtlas(b)
  <2>1. \E r \in 0 .. MaxRegionId + 1 : b.regions \in [0 .. r - 1 -> Region]
    BY <1>2, <1>3 DEF IsAtlas
  <2>2. QED
    BY <1>3, <1>11, <2>1 DEF IsAtlas
<1>16. AreApart(b)
  <2>1. \A k \in 1 .. m : Taken(b, b.free_regions[k])
    BY <1>3, <1>8, <1>11 DEF Taken
  <2>2. \A j \in Used(b) : Taken(b, b.regions[j])
    BY <1>3, <1>4, <1>12, <1>13 DEF Taken
  <2>3. \A k, l \in 1 .. m : k # l => ~Collides(b.free_regions[k], b.free_regions[l])
    BY <1>9, <1>11
  <2>4. \A j \in Used(b), k \in 1 .. m : ~Collides(b.regions[j], b.free_regions[k])
    BY <1>8, <1>11, <1>12
  <2>5. \A j, k \in Used(b) : j # k => ~Collides(b.regions[j], b.regions[k])
    BY <1>12, <1>14 DEF AreApart
  <2>6. QED
    BY <1>11, <2>1, <2>2, <2>3, <2>4, <2>5 DEF AreApart
<1>17. QED
  BY <1>2, <1>3, <1>12, <1>15, <1>16 DEF b, corner, outer, free, Used

\* odAtlas_get_free_region finds the first free region that fits, if any does.
LEMMA FirstFitFits ==
    ASSUME NEW a, IsAtlas(a), NEW width \in Nat \ {0}, NEW height \in Nat \ {0},
           CanAllocate(a, width, height)
    PROVE  LET i == FirstFit(a.free_regions, width, height)
           IN  i \in 1 .. Len(a.free_regions) /\ Fits(a.free_regions[i], width, height)
<1> DEFINE free == a.free_regions
           T == {k \in 1 .. Len(free) : Fits(free[k], width, height)}
<1>1. Len(free) \in Nat
  BY AtlasElements
<1>2. T \in SUBSET Nat /\ T # {}
  BY <1>1 DEF CanAllocate
<1>3. PICK i \in T : \A j \in T : i <= j
  BY <1>2, FirstExists
<1>4. /\ i \in 1 .. Len(free) /\ Fits(free[i], width, height)
      /\ \A j \in 1 .. i - 1 : ~Fits(free[j], width, height)
  BY <1>1, <1>3
<1>5. QED
  BY <1>4 DEF FirstFit

\* odAtlas_set_region_size after its reset: a region of the size asked for, apart from
\* all that were there, in an image that at most grew.
LEMMA AllocatedKeeps ==
    ASSUME NEW a, IsAtlas(a), AreApart(a), a.image.height > 0, a.image.width > 0,
           NEW id \in DOMAIN a.regions, ~HasArea(a.regions[id]),
           NEW width \in Nat \ {0}, NEW height \in Nat \ {0}
    PROVE  LET b == Allocated(a, id, width, height)
           IN  /\ IsAtlas(b) /\ AreApart(b)
               /\ b.image.height > 0 /\ b.image.width > 0
               /\ b.regions[id] \in Region /\ HasArea(b.regions[id])
               /\ b.regions[id].x2 - b.regions[id].x1 = width
               /\ b.regions[id].y2 - b.regions[id].y1 = height
               /\ DOMAIN b.regions = DOMAIN a.regions
               /\ Used(b) = Used(a) \cup {id}
               /\ \A j \in DOMAIN a.regions : j # id => b.regions[j] = a.regions[j]
               /\ GrowsTo(a.image, b.image)
<1> DEFINE grown == GrownFor(a, width, height)
           i == FirstFit(grown.free_regions, width, height)
           b == Allocated(a, id, width, height)
<1>1. /\ IsAtlas(grown) /\ AreApart(grown)
      /\ grown.regions = a.regions
      /\ CanAllocate(grown, width, height)
      /\ grown.image.height > 0 /\ grown.image.width > 0
      /\ GrowsTo(a.image, grown.image)
  <2>1. CASE CanAllocate(a, width, height)
    BY <2>1 DEF GrownFor, GrowsTo
  <2>2. CASE ~CanAllocate(a, width, height)
    <3>1. grown = WithNewRow(a, width, height)
      BY <2>2 DEF GrownFor
    <3> HIDE DEF grown
    <3>2. /\ IsAtlas(grown) /\ AreApart(grown)
          /\ grown.regions = a.regions
          /\ CanAllocate(grown, width, height)
          /\ grown.image.height > 0 /\ grown.image.width >= a.image.width
          /\ GrowsTo(a.image, grown.image)
      BY <3>1, RowKeeps
    <3>3. a.image.width \in Nat /\ grown.image.width \in Nat
      BY <3>2 DEF IsAtlas, IsImage
    <3>4. QED
      BY <3>2, <3>3
  <2>3. QED
    BY <2>1, <2>2
<1> HIDE DEF grown
<1>2. i \in 1 .. Len(grown.free_regions) /\ Fits(grown.free_regions[i], width, height)
  BY <1>1, FirstFitFits
<1>3. b = Take(grown, id, width, height, i)
  BY DEF Allocated, grown
<1> HIDE DEF i, b
<1> DEFINE corner == Corner(grown.free_regions[i], width, height)
<1>4. /\ IsAtlas(b) /\ AreApart(b)
      /\ b.image = grown.image
      /\ corner \in Region /\ HasArea(corner)
      /\ corner.x2 - corner.x1 = width /\ corner.y2 - corner.y1 = height
      /\ b.regions = [grown.regions EXCEPT ![id] = corner]
      /\ Used(b) = Used(grown) \cup {id}
  BY <1>1, <1>2, <1>3, TakeKeeps, SMTT(30)
<1> HIDE DEF corner
<1>5. Used(grown) = Used(a)
  BY <1>1 DEF Used
<1>6. /\ b.regions[id] = corner
      /\ DOMAIN b.regions = DOMAIN a.regions
      /\ \A j \in DOMAIN a.regions : j # id => b.regions[j] = a.regions[j]
  BY <1>1, <1>4
<1>7. QED
  BY <1>1, <1>4, <1>5, <1>6 DEF b

\* odColor_blit: the pixels of the region, and no others.
LEMMA DrawnKeeps ==
    ASSUME NEW a, IsAtlas(a), AreApart(a), NEW id \in Used(a), NEW picture \in Picture
    PROVE  LET b == Drawn(a, id, picture)
           IN  /\ IsAtlas(b) /\ AreApart(b)
               /\ b.image.width = a.image.width /\ b.image.height = a.image.height
               /\ b.regions = a.regions
               /\ DOMAIN b.image.pixels = DOMAIN a.image.pixels
               /\ \A p \in DOMAIN a.image.pixels :
                     b.image.pixels[p] = IF Covers(a.regions[id], p)
                                           THEN <<picture, p[1] - a.regions[id].x1,
                                                           p[2] - a.regions[id].y1>>
                                           ELSE a.image.pixels[p]
<1> DEFINE b == Drawn(a, id, picture)
           region == a.regions[id]
           points == Points(a.image.width, a.image.height)
<1>1. /\ a.image.width \in Nat /\ a.image.height \in Nat
      /\ a.image.pixels \in [points -> Pixel]
      /\ region \in Region
  BY AtlasElements DEF IsAtlas, IsImage, Used
<1>2. /\ b.image.width = a.image.width /\ b.image.height = a.image.height
      /\ b.regions = a.regions /\ b.free_regions = a.free_regions
      /\ b.image.pixels = [p \in points |->
            IF Covers(region, p) THEN <<picture, p[1] - region.x1, p[2] - region.y1>>
                                 ELSE a.image.pixels[p]]
  BY <1>1 DEF Drawn, Blit
<1> HIDE DEF b
<1>3. ASSUME NEW p \in points, Covers(region, p)
      PROVE  <<picture, p[1] - region.x1, p[2] - region.y1>> \in Pixel
  <2>1. p[1] \in Nat /\ p[2] \in Nat
    BY <1>1 DEF Points
  <2>2. p[1] - region.x1 \in Nat /\ p[2] - region.y1 \in Nat
    BY <1>1, <1>3, <2>1 DEF Covers, Region
  <2>3. QED
    BY <2>2 DEF Pixel
<1> HIDE DEF points, region
<1>4. b.image.pixels \in [points -> Pixel]
  BY <1>1, <1>2, <1>3
<1>5. IsAtlas(b)
  BY <1>1, <1>2, <1>4 DEF IsAtlas, IsImage, points
<1>6. AreApart(b)
  BY <1>2 DEF AreApart, Used, Taken, Inside
<1>7. QED
  BY <1>1, <1>2, <1>5, <1>6 DEF b, region, points

-----------------------------------------------------------------------------
(***************************************************************************)
(* Safety.  A texture there is to upload to means an image with a row and  *)
(* a column, so that no new row can reach the white pixel.                 *)
(***************************************************************************)
IInv ==
    /\ TypeOK
    /\ RegionsAreApart
    /\ Valid => atlas.image.height > 0
    /\ atlas.image.height > 0 => atlas.image.width > 0
    /\ WhitePixelStaysWhite

\* A size a picture can have.
LEMMA SizeIsPositive ==
    ASSUME NEW size \in Size
    PROVE  size[1] \in Nat \ {0} /\ size[2] \in Nat \ {0}
OBVIOUS

\* odAtlas_set_region, up to the blit.
LEMMA SizedKeeps ==
    ASSUME IInv, Valid, NEW id \in RegionId,
           NEW width \in Nat \ {0}, NEW height \in Nat \ {0}
    PROVE  LET sized == Allocated(Reset(atlas, id), id, width, height)
           IN  /\ IsAtlas(sized) /\ AreApart(sized)
               /\ sized.image.height > 0 /\ sized.image.width > 0
               /\ id \in Used(sized) /\ sized.regions[id] \in Region
               /\ sized.regions[id].x2 - sized.regions[id].x1 = width
               /\ sized.regions[id].y2 - sized.regions[id].y1 = height
               /\ DOMAIN sized.regions = DOMAIN atlas.regions \cup 0 .. id
               /\ Used(sized) = Used(atlas) \cup {id}
               /\ \A j \in Used(atlas) : j # id => sized.regions[j] = atlas.regions[j]
               /\ GrowsTo(atlas.image, sized.image)
<1> DEFINE a == Reset(atlas, id)
           sized == Allocated(a, id, width, height)
<1>1. /\ IsAtlas(atlas) /\ AreApart(atlas)
      /\ atlas.image.height > 0 /\ atlas.image.width > 0
  BY DEF IInv, TypeOK, RegionsAreApart
<1>2. /\ IsAtlas(a) /\ AreApart(a)
      /\ a.image = atlas.image
      /\ id \in DOMAIN a.regions
      /\ DOMAIN a.regions = DOMAIN atlas.regions \cup 0 .. id
      /\ Used(a) = Used(atlas) \ {id}
      /\ \A j \in Used(a) : a.regions[j] = atlas.regions[j]
  BY <1>1, ResetKeeps
<1> HIDE DEF a
<1>3. ~HasArea(a.regions[id])
  BY <1>2 DEF Used
<1>4. /\ IsAtlas(sized) /\ AreApart(sized)
      /\ sized.image.height > 0 /\ sized.image.width > 0
      /\ sized.regions[id] \in Region /\ HasArea(sized.regions[id])
      /\ sized.regions[id].x2 - sized.regions[id].x1 = width
      /\ sized.regions[id].y2 - sized.regions[id].y1 = height
      /\ DOMAIN sized.regions = DOMAIN a.regions
      /\ Used(sized) = Used(a) \cup {id}
      /\ \A j \in DOMAIN a.regions : j # id => sized.regions[j] = a.regions[j]
      /\ GrowsTo(a.image, sized.image)
  BY <1>1, <1>2, <1>3, AllocatedKeeps
<1> HIDE DEF sized
<1>5. \A j \in Used(atlas) : j # id => sized.regions[j] = atlas.regions[j]
  BY <1>2, <1>4 DEF Used
<1>6. id \in Used(sized)
  BY <1>2, <1>4 DEF Used
<1>7. QED
  BY <1>2, <1>4, <1>5, <1>6 DEF sized, a

\* The pixel at the corner of the image, which no box has.
LEMMA WhitePixelIsAPoint ==
    ASSUME NEW a, IsAtlas(a), a.image.height > 0, a.image.width > 0
    PROVE  <<0, 0>> \in DOMAIN a.image.pixels
BY SMTT(30) DEF IsAtlas, IsImage, Points

\* The states odTextureAtlas_init and odTextureAtlas_destroy leave.
LEMMA InitialKeeps ==
    /\ IsAtlas(InitialAtlas) /\ AreApart(InitialAtlas)
    /\ InitialAtlas.image.height = 1 /\ InitialAtlas.image.width = 1
    /\ InitialAtlas.image.pixels[<<0, 0>>] = White
    /\ IsAtlas(DestroyedAtlas) /\ AreApart(DestroyedAtlas)
    /\ DestroyedAtlas.image.height = 0
<1>1. /\ DOMAIN NoRegions = {}
      /\ \E n \in 0 .. MaxRegionId + 1 : NoRegions \in [0 .. n - 1 -> Region]
      /\ << >> \in Seq(Region)
  <2>1. 0 \in 0 .. MaxRegionId + 1 /\ 0 .. 0 - 1 = {}
    OBVIOUS
  <2>2. NoRegions \in [{} -> Region]
    BY DEF NoRegions
  <2>3. NoRegions \in [0 .. 0 - 1 -> Region]
    BY <2>1, <2>2
  <2>4. \E n \in 0 .. MaxRegionId + 1 : NoRegions \in [0 .. n - 1 -> Region]
    BY <2>1, <2>3
  <2>5. QED
    BY <2>4 DEF NoRegions
<1>2. IsImage(WhiteImage) /\ IsImage(BlankImage(0, 0))
  BY DEF IsImage, WhiteImage, BlankImage, Points, Pixel
<1>3. <<0, 0>> \in Points(1, 1)
  BY DEF Points
<1>4. /\ InitialAtlas.image = WhiteImage /\ InitialAtlas.regions = NoRegions
      /\ InitialAtlas.free_regions = << >>
      /\ DestroyedAtlas.image = BlankImage(0, 0) /\ DestroyedAtlas.regions = NoRegions
      /\ DestroyedAtlas.free_regions = << >>
  BY DEF InitialAtlas, DestroyedAtlas
<1>5. IsAtlas(InitialAtlas) /\ IsAtlas(DestroyedAtlas)
  BY <1>1, <1>2, <1>4 DEF IsAtlas
<1>6. AreApart(InitialAtlas) /\ AreApart(DestroyedAtlas)
  BY <1>1, <1>4 DEF AreApart, Used
<1>7. QED
  BY <1>3, <1>4, <1>5, <1>6 DEF WhiteImage, BlankImage

\* One step of the atlas keeps the invariant.
LEMMA NextKeeps == IInv /\ [Next]_vars => IInv'
<1> SUFFICES ASSUME IInv, [Next]_vars PROVE IInv'
  OBVIOUS
<1>1. ASSUME NEW id \in RegionId, NEW size \in Size, NEW picture \in Picture,
             SetRegion(id, size[1], size[2], picture)
      PROVE  IInv'
  <2> DEFINE sized == Allocated(Reset(atlas, id), id, size[1], size[2])
  <2>1. /\ Valid /\ ok' \in BOOLEAN
        /\ atlas' = sized \/ atlas' = Drawn(sized, id, picture)
    BY <1>1 DEF SetRegion, IInv, TypeOK
  <2>2. size[1] \in Nat \ {0} /\ size[2] \in Nat \ {0}
    BY SizeIsPositive
  <2>3. /\ IsAtlas(sized) /\ AreApart(sized)
        /\ sized.image.height > 0 /\ sized.image.width > 0
        /\ id \in Used(sized)
        /\ GrowsTo(atlas.image, sized.image)
    BY <2>1, <2>2, SizedKeeps
  <2> HIDE DEF sized
  <2>4. sized.image.pixels[<<0, 0>>] = White
    <3>1. /\ IsAtlas(atlas) /\ atlas.image.height > 0 /\ atlas.image.width > 0
          /\ atlas.image.pixels[<<0, 0>>] = White
      BY <2>1 DEF IInv, TypeOK, WhitePixelStaysWhite
    <3>2. <<0, 0>> \in DOMAIN atlas.image.pixels
      BY <3>1, WhitePixelIsAPoint
    <3>3. QED
      BY <2>3, <3>1, <3>2 DEF GrowsTo
  <2>5. CASE atlas' = sized
    BY <2>1, <2>3, <2>4, <2>5 DEF IInv, TypeOK, RegionsAreApart, WhitePixelStaysWhite
  <2>6. CASE atlas' = Drawn(sized, id, picture)
    <3>1. <<0, 0>> \in DOMAIN sized.image.pixels
      BY <2>3, WhitePixelIsAPoint
    <3>2. ~Covers(sized.regions[id], <<0, 0>>)
      BY <2>3 DEF AreApart, Taken
    <3>3. /\ IsAtlas(atlas') /\ AreApart(atlas')
          /\ atlas'.image.width = sized.image.width
          /\ atlas'.image.height = sized.image.height
          /\ atlas'.image.pixels[<<0, 0>>] = sized.image.pixels[<<0, 0>>]
      BY <2>3, <2>6, <3>1, <3>2, DrawnKeeps
    <3>4. QED
      BY <2>1, <2>3, <2>4, <3>3 DEF IInv, TypeOK, RegionsAreApart, WhitePixelStaysWhite
  <2>7. QED
    BY <2>1, <2>5, <2>6
<1>2. ASSUME NEW id \in RegionId, ResetRegion(id)
      PROVE  IInv'
  <2>1. /\ atlas' = Reset(atlas, id) /\ ok' = ok /\ Valid
    BY <1>2 DEF ResetRegion
  <2>2. IsAtlas(atlas') /\ AreApart(atlas') /\ atlas'.image = atlas.image
    BY <2>1, ResetKeeps DEF IInv, TypeOK, RegionsAreApart
  <2>3. QED
    BY <2>1, <2>2 DEF IInv, TypeOK, RegionsAreApart, WhitePixelStaysWhite
<1>3. CASE InitTextureAtlas
  BY <1>3, InitialKeeps
     DEF InitTextureAtlas, IInv, TypeOK, RegionsAreApart, WhitePixelStaysWhite, Valid
<1>4. CASE DestroyTextureAtlas
  BY <1>4, InitialKeeps
     DEF DestroyTextureAtlas, IInv, TypeOK, RegionsAreApart, WhitePixelStaysWhite, Valid
<1>5. CASE DestroyWindow
  BY <1>5 DEF DestroyWindow, IInv, TypeOK, RegionsAreApart, WhitePixelStaysWhite, Valid
<1>6. CASE UNCHANGED vars
  BY <1>6 DEF vars, IInv, TypeOK, RegionsAreApart, WhitePixelStaysWhite, Valid
<1>7. QED
  BY <1>1, <1>2, <1>3, <1>4, <1>5, <1>6 DEF Next

\* The inductive invariant of the atlas holds of every run.
THEOREM Invariance == Spec => []IInv
<1>1. Init => IInv
  BY InitialKeeps DEF Init, IInv, TypeOK, RegionsAreApart, WhitePixelStaysWhite, Valid
<1>2. IInv /\ [Next]_vars => IInv'
  BY NextKeeps
<1>3. QED
  BY <1>1, <1>2, PTL DEF Spec

\* The image has a pixel for every point of its size; regions and free regions are
\* boxes of whole pixels; the region ids are an initial segment.
THEOREM TypeCorrect == Spec => []TypeOK
<1>1. IInv => TypeOK
  BY DEF IInv
<1>2. QED
  BY <1>1, Invariance, PTL

\* No two boxes of the atlas, given out or free, share a pixel, nor leave the image, nor
\* have the white pixel, whatever was set, reset, split and grown.
THEOREM BoxesStayApart == Spec => []RegionsAreApart
<1>1. IInv => RegionsAreApart
  BY DEF IInv
<1>2. QED
  BY <1>1, Invariance, PTL

\* Primitives without a picture are always drawn white.
THEOREM WhiteStaysWhite == Spec => []WhitePixelStaysWhite
<1>1. IInv => WhitePixelStaysWhite
  BY DEF IInv
<1>2. QED
  BY <1>1, Invariance, PTL

-----------------------------------------------------------------------------
(***************************************************************************)
(* What is drawn, in a build that does not evaluate debug checks: there    *)
(* every odAtlas_set_region ends in the blit.                              *)
(***************************************************************************)

\* What odAtlas_set_region does to each pixel that was there: it draws those of the
\* region it gives out, and leaves those that another region covers.
LEMMA SetRegionDraws ==
    ASSUME IInv, ~DebugChecks, NEW id \in RegionId, NEW size \in Size, NEW picture \in Picture,
           SetRegion(id, size[1], size[2], picture)
    PROVE  LET region == atlas'.regions[id]
           IN  /\ UpdateTexture /\ ok' = ok
               /\ region \in Region /\ HasArea(region) /\ Inside(region, atlas'.image)
               /\ region.x2 - region.x1 = size[1] /\ region.y2 - region.y1 = size[2]
               /\ DOMAIN atlas'.regions = DOMAIN atlas.regions \cup 0 .. id
               /\ Used(atlas') = Used(atlas) \cup {id}
               /\ \A p \in DOMAIN atlas'.image.pixels : Covers(region, p) =>
                     atlas'.image.pixels[p] = <<picture, p[1] - region.x1, p[2] - region.y1>>
               /\ \A j \in Used(atlas) : j # id =>
                     /\ atlas'.regions[j] = atlas.regions[j]
                     /\ \A p \in DOMAIN atlas.image.pixels :
                           Covers(atlas.regions[j], p) =>
                              /\ p \in DOMAIN atlas'.image.pixels
                              /\ atlas'.image.pixels[p] = atlas.image.pixels[p]
<1> DEFINE sized == Allocated(Reset(atlas, id), id, size[1], size[2])
           region == sized.regions[id]
<1>1. /\ Valid /\ UpdateTexture /\ ok' = ok
      /\ atlas' = Drawn(sized, id, picture)
  BY DEF SetRegion, CornerChecks
<1>2. size[1] \in Nat \ {0} /\ size[2] \in Nat \ {0}
  BY SizeIsPositive
<1>3. /\ IsAtlas(sized) /\ AreApart(sized)
      /\ id \in Used(sized) /\ region \in Region
      /\ region.x2 - region.x1 = size[1] /\ region.y2 - region.y1 = size[2]
      /\ DOMAIN sized.regions = DOMAIN atlas.regions \cup 0 .. id
      /\ Used(sized) = Used(atlas) \cup {id}
      /\ \A j \in Used(atlas) : j # id => sized.regions[j] = atlas.regions[j]
      /\ GrowsTo(atlas.image, sized.image)
  BY <1>1, <1>2, SizedKeeps
<1> HIDE DEF sized
<1>4. /\ atlas'.image.width = sized.image.width /\ atlas'.image.height = sized.image.height
      /\ atlas'.regions = sized.regions
      /\ DOMAIN atlas'.image.pixels = DOMAIN sized.image.pixels
      /\ \A p \in DOMAIN sized.image.pixels :
            atlas'.image.pixels[p] = IF Covers(region, p)
                                       THEN <<picture, p[1] - region.x1, p[2] - region.y1>>
                                       ELSE sized.image.pixels[p]
  BY <1>1, <1>3, DrawnKeeps
<1>5. HasArea(region) /\ Inside(region, atlas'.image)
  BY <1>3, <1>4 DEF AreApart, Taken, Used, Inside
<1>6. Used(atlas') = Used(sized)
  BY <1>4 DEF Used
<1>7. ASSUME NEW j \in Used(atlas), j # id, NEW p \in DOMAIN atlas.image.pixels,
             Covers(atlas.regions[j], p)
      PROVE  /\ p \in DOMAIN atlas'.image.pixels
             /\ atlas'.image.pixels[p] = atlas.image.pixels[p]
  <2>1. p \in DOMAIN sized.image.pixels /\ sized.image.pixels[p] = atlas.image.pixels[p]
    BY <1>3 DEF GrowsTo
  <2>2. p \in Nat \X Nat
    BY DEF IInv, TypeOK, IsAtlas, IsImage, Points
  <2>3. j \in Used(sized) /\ atlas.regions[j] = sized.regions[j] /\ sized.regions[j] \in Region
    BY <1>3, <1>7, AtlasElements DEF Used
  <2>4. ~Collides(sized.regions[j], region)
    BY <1>3, <1>7, <2>3 DEF AreApart
  <2>5. ~Covers(region, p)
    BY <1>3, <1>7, <2>2, <2>3, <2>4, ApartSharesNoPixel
  <2>6. QED
    BY <1>4, <2>1, <2>5
<1>8. QED
  BY <1>1, <1>3, <1>4, <1>5, <1>6, <1>7

\* The region of the next state, when what it was is what it is.
LEMMA PictureStays ==
    ASSUME NEW image, NEW next, IsImage(image), IsImage(next),
           NEW region \in Region, Inside(region, image), HoldsPicture(image, region),
           \A p \in DOMAIN image.pixels :
              Covers(region, p) => next.pixels[p] = image.pixels[p]
    PROVE  HoldsPicture(next, region)
<1>1. PICK picture \in Picture : \A p \in DOMAIN image.pixels :
         Covers(region, p) => image.pixels[p] = <<picture, p[1] - region.x1, p[2] - region.y1>>
  BY DEF HoldsPicture
<1>2. ASSUME NEW p \in DOMAIN next.pixels, Covers(region, p)
      PROVE  p \in DOMAIN image.pixels
  <2>1. p \in Nat \X Nat
    BY DEF IsImage, Points
  <2>2. QED
    BY <1>2, <2>1 DEF IsImage, Points, Covers, Inside, Region
<1>3. QED
  BY <1>1, <1>2 DEF HoldsPicture

\* What is drawn with is whole and current.
PInv == RegionsHoldPictures /\ TextureShowsImage

\* A step without debug checks keeps what the pictures say.
LEMMA PicturesKept ==
    ASSUME ~DebugChecks, IInv, IInv', PInv, [Next]_vars
    PROVE  PInv'
<1>1. ASSUME NEW id \in RegionId, NEW size \in Size, NEW picture \in Picture,
             SetRegion(id, size[1], size[2], picture)
      PROVE  PInv'
  <2>1. TextureShowsImage'
    BY <1>1, SetRegionDraws DEF UpdateTexture, TextureShowsImage
  <2>2. HoldsPicture(atlas'.image, atlas'.regions[id])
    BY <1>1, SetRegionDraws DEF HoldsPicture
  <2>3. ASSUME NEW j \in Used(atlas), j # id
        PROVE  HoldsPicture(atlas'.image, atlas'.regions[j])
    <3>1. /\ IsImage(atlas.image) /\ IsImage(atlas'.image)
          /\ atlas.regions[j] \in Region /\ Inside(atlas.regions[j], atlas.image)
      BY AtlasElements DEF IInv, TypeOK, RegionsAreApart, AreApart, Taken, IsAtlas, Used
    <3>2. HoldsPicture(atlas.image, atlas.regions[j])
      BY DEF PInv, RegionsHoldPictures
    <3>3. /\ atlas'.regions[j] = atlas.regions[j]
          /\ \A p \in DOMAIN atlas.image.pixels :
                Covers(atlas.regions[j], p) =>
                   atlas'.image.pixels[p] = atlas.image.pixels[p]
      BY <1>1, <2>3, SetRegionDraws
    <3>4. QED
      BY <3>1, <3>2, <3>3, PictureStays
  <2>4. Used(atlas') = Used(atlas) \cup {id}
    BY <1>1, SetRegionDraws
  <2>5. QED
    BY <2>1, <2>2, <2>3, <2>4 DEF PInv, RegionsHoldPictures
<1>2. ASSUME NEW id \in RegionId, ResetRegion(id)
      PROVE  PInv'
  <2>1. atlas' = Reset(atlas, id) /\ UpdateTexture
    BY <1>2 DEF ResetRegion
  <2>2. /\ atlas'.image = atlas.image
        /\ Used(atlas') = Used(atlas) \ {id}
        /\ \A j \in Used(atlas') : atlas'.regions[j] = atlas.regions[j]
    BY <2>1, ResetKeeps DEF IInv, TypeOK, RegionsAreApart
  <2>3. QED
    BY <2>1, <2>2 DEF PInv, RegionsHoldPictures, TextureShowsImage, UpdateTexture
<1>3. CASE InitTextureAtlas
  BY <1>3 DEF InitTextureAtlas, PInv, RegionsHoldPictures, TextureShowsImage, Used,
              InitialAtlas, NoRegions
<1>4. CASE DestroyTextureAtlas
  BY <1>4 DEF DestroyTextureAtlas, PInv, RegionsHoldPictures, TextureShowsImage, Used,
              DestroyedAtlas, NoRegions
<1>5. CASE DestroyWindow
  BY <1>5 DEF DestroyWindow, PInv, RegionsHoldPictures, TextureShowsImage
<1>6. CASE UNCHANGED vars
  BY <1>6 DEF vars, PInv, RegionsHoldPictures, TextureShowsImage
<1>7. QED
  BY <1>1, <1>2, <1>3, <1>4, <1>5, <1>6 DEF Next

\* What the pictures say holds as long as odImage_get does not check what it is
\* asked for.
LEMMA PicturesInvariance == ~DebugChecks /\ Spec => []PInv
<1>1. Init => PInv
  BY DEF Init, PInv, RegionsHoldPictures, TextureShowsImage, Used, InitialAtlas, NoRegions
<1>2. ~DebugChecks /\ IInv /\ IInv' /\ PInv /\ [Next]_vars => PInv'
  BY PicturesKept
<1>3. CASE ~DebugChecks
  <2>1. IInv /\ IInv' /\ PInv /\ [Next]_vars => PInv'
    BY <1>2, <1>3
  <2>2. QED
    BY <1>1, <2>1, Invariance, PTL DEF Spec
<1>4. QED
  BY <1>3

\* Every region given out holds the whole of one picture, whatever was given out,
\* reset and grown before and after: odAtlas_set_region without debug checks.
THEOREM PicturesAreWhole == ~DebugChecks /\ Spec => []RegionsHoldPictures
<1>1. PInv => RegionsHoldPictures
  BY DEF PInv
<1>2. QED
  BY <1>1, PicturesInvariance, PTL

\* The texture that is drawn with is the image of the atlas as it is now, unless there
\* is none or OpenGL failed: odTextureAtlas_set_region without debug checks.
THEOREM TextureIsTheImage == ~DebugChecks /\ Spec => []TextureShowsImage
<1>1. PInv => TextureShowsImage
  BY DEF PInv
<1>2. QED
  BY <1>1, PicturesInvariance, PTL

-----------------------------------------------------------------------------
(***************************************************************************)
(* The atlas implements the table of pictures.                             *)
(***************************************************************************)
Table == [i \in DOMAIN atlas.regions |-> ShownBy(atlas.image, atlas.regions[i])]

\* The corner of a box with area is a pixel of the image and of the box.
LEMMA CornerIsAPoint ==
    ASSUME NEW image, IsImage(image), NEW region \in Region,
           HasArea(region), Inside(region, image)
    PROVE  <<region.x1, region.y1>> \in DOMAIN image.pixels
           /\ Covers(region, <<region.x1, region.y1>>)
BY DEF IsImage, Points, HasArea, Inside, Covers, Region

\* Setting a region puts its picture in the table and disturbs no other.
LEMMA SetRegionPuts ==
    ASSUME IInv, IInv', ~DebugChecks, NEW id \in RegionId, NEW size \in Size,
           NEW picture \in Picture, SetRegion(id, size[1], size[2], picture)
    PROVE  Pictures!Put(id, <<picture, size[1], size[2]>>)
<1> DEFINE region == atlas'.regions[id]
           fresh == DOMAIN atlas.regions \cup 0 .. id
<1>1. /\ region \in Region /\ HasArea(region) /\ Inside(region, atlas'.image)
      /\ region.x2 - region.x1 = size[1] /\ region.y2 - region.y1 = size[2]
      /\ DOMAIN atlas'.regions = fresh
      /\ Used(atlas') = Used(atlas) \cup {id}
      /\ \A p \in DOMAIN atlas'.image.pixels : Covers(region, p) =>
            atlas'.image.pixels[p] = <<picture, p[1] - region.x1, p[2] - region.y1>>
      /\ \A j \in Used(atlas) : j # id =>
            /\ atlas'.regions[j] = atlas.regions[j]
            /\ \A p \in DOMAIN atlas.image.pixels :
                  Covers(atlas.regions[j], p) =>
                     atlas'.image.pixels[p] = atlas.image.pixels[p]
  BY SetRegionDraws
<1>2. IsImage(atlas.image) /\ IsImage(atlas'.image)
  BY DEF IInv, TypeOK, IsAtlas
<1>3. ShownBy(atlas'.image, region) = <<picture, size[1], size[2]>>
  <2>1. atlas'.image.pixels[<<region.x1, region.y1>>][1] = picture
    BY <1>1, <1>2, CornerIsAPoint
  <2>2. QED
    BY <1>1, <2>1 DEF ShownBy
<1>4. ASSUME NEW j \in fresh, j # id
      PROVE  ShownBy(atlas'.image, atlas'.regions[j]) =
                IF j \in DOMAIN atlas.regions THEN ShownBy(atlas.image, atlas.regions[j])
                                              ELSE Nothing
  <2>1. CASE j \in Used(atlas)
    <3>1. /\ atlas.regions[j] \in Region /\ HasArea(atlas.regions[j])
          /\ Inside(atlas.regions[j], atlas.image)
      BY <2>1, AtlasElements
         DEF IInv, TypeOK, RegionsAreApart, AreApart, Taken, Used
    <3>2. atlas'.regions[j] = atlas.regions[j]
      BY <1>1, <1>4, <2>1
    <3>3. ShownBy(atlas'.image, atlas'.regions[j]) = ShownBy(atlas.image, atlas.regions[j])
      BY <1>1, <1>2, <1>4, <2>1, <3>1, <3>2, CornerIsAPoint DEF ShownBy
    <3>4. QED
      BY <2>1, <3>3 DEF Used
  <2>2. CASE j \notin Used(atlas)
    <3>1. ~HasArea(atlas'.regions[j])
      BY <1>1, <1>4, <2>2 DEF Used
    <3>2. j \in DOMAIN atlas.regions => ~HasArea(atlas.regions[j])
      BY <2>2 DEF Used
    <3>3. QED
      BY <3>1, <3>2 DEF ShownBy
  <2>3. QED
    BY <2>1, <2>2
<1> HIDE DEF region
<1>5. Table' = [i \in fresh |-> ShownBy(atlas'.image, atlas'.regions[i])]
  BY <1>1 DEF Table
<1>6. Table' = [i \in fresh |->
                   IF i = id THEN <<picture, size[1], size[2]>>
                   ELSE IF i \in DOMAIN Table THEN Table[i] ELSE Nothing]
  BY <1>3, <1>4, <1>5 DEF Table, region
<1>7. QED
  BY <1>6 DEF Pictures!Put, Pictures!Fresh, Table

\* Resetting a region clears its entry and disturbs no other.
LEMMA ResetPuts ==
    ASSUME IInv, NEW id \in RegionId, ResetRegion(id)
    PROVE  Pictures!Put(id, Nothing)
<1> DEFINE fresh == DOMAIN atlas.regions \cup 0 .. id
<1>1. /\ atlas'.image = atlas.image
      /\ DOMAIN atlas'.regions = fresh
      /\ Used(atlas') = Used(atlas) \ {id}
      /\ \A j \in Used(atlas') : atlas'.regions[j] = atlas.regions[j]
  BY ResetKeeps DEF ResetRegion, IInv, TypeOK, RegionsAreApart
<1>2. id \in fresh
  BY DEF RegionId
<1>3. ShownBy(atlas'.image, atlas'.regions[id]) = Nothing
  BY <1>1, <1>2 DEF ShownBy, Used
<1>4. ASSUME NEW j \in fresh, j # id
      PROVE  ShownBy(atlas'.image, atlas'.regions[j]) =
                IF j \in DOMAIN atlas.regions THEN ShownBy(atlas.image, atlas.regions[j])
                                              ELSE Nothing
  BY <1>1, <1>4 DEF ShownBy, Used
<1>5. Table' = [i \in fresh |->
                   IF i = id THEN Nothing
                   ELSE IF i \in DOMAIN Table THEN Table[i] ELSE Nothing]
  BY <1>1, <1>3, <1>4 DEF Table
<1>6. QED
  BY <1>5 DEF Pictures!Put, Pictures!Fresh, Table

\* Every step of the atlas is a step of the table, or leaves it alone.
LEMMA StepRefines ==
    ASSUME ~DebugChecks, IInv, IInv', [Next]_vars
    PROVE  [Pictures!TableNext]_Table
<1>1. ASSUME NEW id \in RegionId, NEW size \in Size, NEW picture \in Picture,
             SetRegion(id, size[1], size[2], picture)
      PROVE  Pictures!TableNext
  <2>1. <<picture, size[1], size[2]>> \in
           {<<q, s[1], s[2]>> : q \in Picture, s \in Size}
    OBVIOUS
  <2>2. Pictures!Put(id, <<picture, size[1], size[2]>>)
    BY <1>1, SetRegionPuts
  <2>3. QED
    BY <2>1, <2>2 DEF Pictures!TableNext
<1>2. ASSUME NEW id \in RegionId, ResetRegion(id)
      PROVE  Pictures!TableNext
  BY <1>2, ResetPuts DEF Pictures!TableNext
<1>3. ASSUME atlas'.regions = NoRegions
      PROVE  Table' = [i \in {} |-> Nothing]
  BY <1>3 DEF Table, NoRegions
<1>4. CASE InitTextureAtlas
  BY <1>3, <1>4 DEF InitTextureAtlas, InitialAtlas, Pictures!TableNext, Table
<1>5. CASE DestroyTextureAtlas
  BY <1>3, <1>5 DEF DestroyTextureAtlas, DestroyedAtlas, Pictures!TableNext, Table
<1>6. CASE DestroyWindow
  BY <1>6 DEF DestroyWindow, Table
<1>7. CASE UNCHANGED vars
  BY <1>7 DEF vars, Table
<1>8. QED
  BY <1>1, <1>2, <1>4, <1>5, <1>6, <1>7 DEF Next

\* What a region shows changes only when that region is set or reset: whatever growth,
\* splitting and reuse of holes go on around it.
THEOREM Refinement == ~DebugChecks /\ Spec => ImplementsPictureTable
<1>1. Init => Pictures!TableInit
  BY DEF Init, Pictures!TableInit, InitialAtlas, NoRegions
<1>2. CASE ~DebugChecks
  <2>1. IInv /\ IInv' /\ [Next]_vars =>
           [Pictures!TableNext]_[i \in DOMAIN atlas.regions |->
                                    ShownBy(atlas.image, atlas.regions[i])]
    BY <1>2, StepRefines DEF Table
  <2>2. QED
    BY <1>1, <2>1, Invariance, PTL DEF Spec, ImplementsPictureTable, Pictures!TableSpec
<1>3. QED
  BY <1>2
=============================================================================
