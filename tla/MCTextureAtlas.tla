--------------------------- MODULE MCTextureAtlas ---------------------------
(***************************************************************************)
(* Two regions of pictures large and small: the image grows both ways,     *)
(* regions split both ways, and the holes of resets are filled again.      *)
(***************************************************************************)
EXTENDS TextureAtlas, TLC

Sizes == {<<1, 1>>, <<2, 2>>}

\* A picture three times as wide as the other, to be reset and cut up.
WideSizes == {<<1, 1>>, <<3, 1>>}

\* No action or property tells one picture from another.
AnyPicture == Permutations(Picture)
=============================================================================
