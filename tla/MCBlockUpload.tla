---------------------------- MODULE MCBlockUpload ----------------------------
(* BlockUpload with uploads to one blob.  In turn, answers being lost: two of  *)
(* three blocks, cut at different places of their buffers, and one small       *)
(* enough to go inline.  Together, with requests that arrive late: one of      *)
(* three blocks and two Put Blobs.                                             *)
EXTENDS BlockUpload, TLC

CONSTANTS a, b, c, d, e, f

MCUploads == {a, b, c, d, e, f}

MCAlone == {a, b, c}

MCLate == {d, e, f}

MCCompanies == {MCAlone, MCLate}

MCCreating == {b, c, d, f}

MCLength == a :> 8 @@ b :> 7 @@ c :> 3 @@ d :> 8 @@ e :> 3 @@ f :> 4
=============================================================================
