----------------------------- MODULE MCTransfers -----------------------------
(* Transfers on a small instance: one folder upload, one folder download, and *)
(* one activity recorded by another command, in a list that keeps two rows.   *)
EXTENDS Transfers, TLC

CONSTANTS up, down, rec

MCTransfers == {up, down}
MCUploads == {up}
MCFolders == {up, down}
MCRecorded == {rec}
MCFileCount == (up :> 2) @@ (down :> 1)
=============================================================================
