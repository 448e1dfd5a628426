--------------------------- MODULE MCMediaUpload ---------------------------
(* Three uploads of one image, one of the image that was there before.     *)
EXTENDS MediaUpload, TLC
CONSTANTS old, u1, u2, u3, u4, logo, photo
MCImageOf == [u \in Uploads |-> IF u \in {old, u4} THEN logo ELSE photo]
MCSymmetry == Permutations({u1, u2, u3})
=============================================================================
