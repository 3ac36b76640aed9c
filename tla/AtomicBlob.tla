------------------------------ MODULE AtomicBlob ------------------------------
(***************************************************************************)
(* What an upload promises of the blob it writes: the blob is replaced as  *)
(* a whole, at one instant, by an upload that was asked for, and an upload *)
(* that must not overwrite never replaces a blob that is there.            *)
(***************************************************************************)
CONSTANTS Uploads, Creating, NoBlob

VARIABLES
  blob,  \* the upload the blob's content comes from, or NoBlob
  live   \* the uploads that may still take effect

Init ==
  /\ blob = NoBlob
  /\ live = {}

Ask(u) ==
  /\ live' = live \cup {u}
  /\ UNCHANGED blob

(* The upload takes effect, and is over or may be repeated *)
Write(u) ==
  /\ u \in live
  /\ u \in Creating => blob = NoBlob
  /\ blob' = u
  /\ live' \in {live, live \ {u}}

Settle(u) ==
  /\ live' = live \ {u}
  /\ UNCHANGED blob

Delete ==
  /\ blob' = NoBlob
  /\ UNCHANGED live

Next == Delete \/ \E u \in Uploads : Ask(u) \/ Write(u) \/ Settle(u)

Spec == Init /\ [][Next]_<<blob, live>>
=============================================================================
