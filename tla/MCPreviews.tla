------------------------------- MODULE MCPreviews -------------------------------
(* Downloads and previews on small instances: two downloads that want the     *)
(* same name at once, or one pane and nothing else (what the one reads the    *)
(* other never changes).  f is the name of two folders and a file, x that of  *)
(* a file and of what cp writes; "x (1)" is taken.  b and c have one local    *)
(* name, m marks the folder.  Only b is replaced or deleted.                  *)
EXTENDS Previews, TLC

CONSTANTS one, two, copy, fold, again, a, b, c, l, m, p

MCDownloads == {one, two, copy, fold, again}
MCPrefixes == {fold, again}
MCCopies == {copy}
MCBlobs == {a, b, c, l, m, p}
MCChanging == {b}
MCSource ==
  (one :> {b}) @@ (two :> {b}) @@ (copy :> {b})
    @@ (fold :> {b, c, m}) @@ (again :> {a, b})
MCBase == [d \in MCDownloads |-> IF d \in {one, fold, again} THEN "f" ELSE "x"]
MCFound == {<<"x", 1, NoName>>}
MCOpenable == {b, c, l, p}
MCLocalName == [d \in MCBlobs |-> IF d = m THEN NoName ELSE IF d = a THEN "a" ELSE "b"]
MCPieces == (a :> 0) @@ (b :> 2) @@ (c :> 3) @@ (l :> 3) @@ (m :> 1) @@ (p :> 3)
MCWanted == {{}, {one, fold}, {fold, again}, {two, copy}}
MCFormat ==
  (a :> "text") @@ (b :> "csv") @@ (c :> "csv") @@ (l :> "lines") @@ (m :> "image")
    @@ (p :> "parquet")
MCCap == [f \in {"csv", "lines", "parquet", "image", "text"} |->
            IF f = "parquet" THEN 8 ELSE IF f = "image" THEN 1 ELSE 5]
MCLimits == {1, 2}
=============================================================================
