------------------------------ MODULE MCBlobMoves ------------------------------
(* Two sibling folders with blobs in both: a folder renamed and deleted, a     *)
(* blob of it copied over another, one after the other; only the rename may    *)
(* be given a second time while it runs.                                       *)
EXTENDS BlobMoves, TLC

MCPaths == {<<"a", "x">>, <<"a", "y">>, <<"b", "x">>, <<"b", "y">>}

MCRank == <<"a", "x">> :> 1 @@ <<"a", "y">> :> 2 @@ <<"b", "x">> :> 3 @@ <<"b", "y">> :> 4

MCKind == [c \in Commands |->
  IF c = "delete" THEN c ELSE IF c = "one" THEN "copy" ELSE "rename"]

MCFolder == [c \in Commands |-> c # "one"]

MCTogether == {{"there", "again"}}

MCSource == [c \in Commands |-> IF c = "one" THEN <<"a", "x">> ELSE <<"a">>]

MCTarget == [c \in Commands |-> IF c = "one" THEN <<"a", "y">> ELSE <<"b">>]
=============================================================================
