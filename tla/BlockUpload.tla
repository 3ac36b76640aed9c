----------------------------- MODULE BlockUpload -----------------------------
(***************************************************************************)
(* AzureBlobBackend::write_blob (crates/arkived-core/src/backend/azure/ops *)
(* /write_blob.rs): uploads to one blob.  A stream of bytes is buffered;   *)
(* what stays within InlineThreshold is one Put Blob, a longer one is cut  *)
(* into blocks of BlockSize, staged one by one under the ids 0, 1, 2...    *)
(* (the same for every upload) and committed with Put Block List, which    *)
(* names for each id the block staged last, or else the one the blob has.  *)
(*                                                                         *)
(* Each request goes through the pipeline, which repeats it when its       *)
(* answer is lost (see Pipeline): here a lost request has been carried out *)
(* or not, or is a stray that may still arrive, and is sent again or given *)
(* up at any time.  A piece is a range of an upload's bytes.               *)
(***************************************************************************)
EXTENDS Integers, Sequences

CONSTANTS
  Uploads,
  Creating,         \* the uploads with opts.overwrite = false
  Length,           \* the bytes each upload's stream has
  MaxChunk,         \* the longest chunk of a stream
  BlockSize,        \* opts.block_size, normalized (8 MiB by default)
  InlineThreshold,  \* INLINE_UPLOAD_THRESHOLD (8 MiB)
  MaxBlocks,        \* MAX_BLOCKS (50,000)
  Alone,            \* the uploads beside which no other is under way
  Late,             \* those whose requests may arrive after the connection broke
  Companies,        \* the sets of uploads that may meet (a bound)
  NoBlob, Torn      \* what the blob may hold besides a whole upload

ASSUME BlockUploadAssumption ==
  /\ Creating \subseteq Uploads
  /\ Length \in [Uploads -> Nat]
  /\ MaxChunk \in Nat \ {0}
  /\ BlockSize \in Nat \ {0}
  /\ InlineThreshold \in Nat
  /\ MaxBlocks \in Nat \ {0}
  /\ Alone \subseteq Uploads
  /\ Late \subseteq Uploads
  /\ Companies \subseteq SUBSET Uploads
  /\ NoBlob \notin Uploads \cup {Torn}
  /\ Torn \notin Uploads

VARIABLES
  blob,    \* the committed blob: does it exist, its pieces, were they a block list?
  staged,  \* the uncommitted block under each id
  strays,  \* requests sent on a broken connection that may still arrive
  up       \* each upload's own state

vars == <<blob, staged, strays, up>>

Ids == 0..(MaxBlocks - 1)

Piece == [upload : Uploads, from : Nat, len : Nat]

NoPiece == <<>>

Blob == [exists : BOOLEAN, pieces : Seq(Piece), listed : BOOLEAN]

Request == [kind : {"none", "block", "put", "list"}, upload : Uploads,
            count : Nat, from : Nat, len : Nat]

Upload == [pc : {"idle", "reading", "flush", "fill", "slice", "ending",
                 "sending", "ok", "failed"},
           next : {"flush", "slice", "ending", "ok"},
           read : Nat,      \* bytes taken from the stream
           buffered : Nat,  \* of these, the bytes in the buffer
           rest : Nat,      \* and those left of the chunk in hand
           ids : 0..MaxBlocks,
           request : Request]

Nothing(u) == [kind |-> "none", upload |-> u, count |-> 0, from |-> 0, len |-> 0]

TypeOK ==
  /\ blob \in Blob
  /\ staged \in [Ids -> Piece \cup {NoPiece}]
  /\ strays \subseteq Request
  /\ up \in [Uploads -> Upload]

Init ==
  /\ blob = [exists |-> FALSE, pieces |-> <<>>, listed |-> FALSE]
  /\ staged = [i \in Ids |-> NoPiece]
  /\ strays = {}
  /\ \E company \in Companies :
       up = [u \in Uploads |->
               [pc |-> IF u \in company THEN "idle" ELSE "failed", next |-> "ok",
                read |-> 0, buffered |-> 0, rest |-> 0, ids |-> 0, request |-> Nothing(u)]]

Active(u) == up[u].pc \notin {"idle", "ok", "failed"}

-----------------------------------------------------------------------------
(* The storage service, as its answers to these requests are used.         *)

PieceOf(q) == [upload |-> q.upload, from |-> q.from, len |-> q.len]

(* The block a <Latest> entry stands for *)
Latest(i) ==
  IF staged[i] # NoPiece THEN staged[i]
  ELSE IF blob.listed /\ i < Len(blob.pieces) THEN blob.pieces[i + 1]
  ELSE NoPiece

(* Mutant: Put Block List does not carry it. *)
IfNoneMatchPut(q) == q.kind = "put" /\ q.upload \in Creating

(* Mutant: Put Blob does not carry it. *)
IfNoneMatchList(q) == q.kind = "list" /\ q.upload \in Creating

(* Does a request of put_blob or commit_block_list carry if-none-match? *)
IfNoneMatch(q) ==
  q.kind \in {"put", "list"} /\ q.upload \in Creating

(* It is refused when there is a blob; every block of a block list must be there *)
Accepts(q) ==
  /\ IfNoneMatch(q) => ~blob.exists
  /\ q.kind = "list" => \A i \in 0..(q.count - 1) : Latest(i) # NoPiece

(* The blob is replaced and the uncommitted blocks are dropped *)
Replace(pieces, listed) ==
  /\ blob' = [exists |-> TRUE, pieces |-> pieces, listed |-> listed]
  /\ staged' = [i \in Ids |-> NoPiece]

CarryOut(q) ==
  \/ q.kind = "block" /\ staged' = [staged EXCEPT ![q.count] = PieceOf(q)] /\ UNCHANGED blob
  \/ q.kind = "put"   /\ Replace(<<PieceOf(q)>>, FALSE)
  \/ q.kind = "list"  /\ Replace([k \in 1..q.count |-> Latest(k - 1)], TRUE)

-----------------------------------------------------------------------------
(* An upload.                                                              *)

Set(u, state) == up' = [up EXCEPT ![u] = state]

(* Sends q, and goes to next when it has been answered *)
Send(u, state, q, next) ==
  Set(u, [state EXCEPT !.pc = "sending", !.request = q, !.next = next])

(* stage_block: the next len bytes, under the next id *)
Stage(u, state, from, len, next) ==
  IF state.ids >= MaxBlocks
  THEN Set(u, [state EXCEPT !.pc = "failed"])
  ELSE Send(u, [state EXCEPT !.ids = @ + 1],
            [kind |-> "block", upload |-> u, count |-> state.ids, from |-> from, len |-> len],
            next)

(* Where the bytes that are neither staged nor on the way start *)
Offset(s) == s.read - s.buffered - s.rest

(* The policy denies the overwrite, or the upload begins *)
Begin(u) ==
  /\ up[u].pc = "idle"
  /\ \A v \in Uploads : Active(v) => u \notin Alone /\ v \notin Alone
  /\ \/ Set(u, [up[u] EXCEPT !.pc = "reading"])
     \/ u \notin Creating /\ Set(u, [up[u] EXCEPT !.pc = "failed"])
  /\ UNCHANGED <<blob, staged, strays>>

(* A chunk of the stream is buffered while all of it may still go inline; *)
(* else blocks are cut from the buffer and the chunk                      *)
ReadChunk(u) ==
  /\ up[u].pc = "reading"
  /\ \E n \in 1..MaxChunk :
       LET s == up[u]
       IN  /\ s.read + n <= Length[u]
           /\ IF s.ids = 0 /\ s.buffered + n <= InlineThreshold
              THEN Set(u, [s EXCEPT !.read = @ + n, !.buffered = @ + n])
              ELSE Set(u, [s EXCEPT !.read = @ + n, !.rest = n,
                                    !.pc = IF s.ids = 0 THEN "flush" ELSE "fill"])
  /\ UNCHANGED <<blob, staged, strays>>

(* Mutant: a full buffer is not flushed first. *)
FlushNone(u) ==
  /\ up[u].pc = "flush"
  /\ Set(u, [up[u] EXCEPT !.pc = "fill"])
  /\ UNCHANGED <<blob, staged, strays>>

(* stage_buffered_full_blocks *)
Flush(u) ==
  /\ up[u].pc = "flush"
  /\ LET s == up[u]
     IN  IF s.buffered >= BlockSize
         THEN Stage(u, [s EXCEPT !.buffered = @ - BlockSize], Offset(s), BlockSize, "flush")
         ELSE Set(u, [s EXCEPT !.pc = "fill"])
  /\ UNCHANGED <<blob, staged, strays>>

(* append_and_stage_blocks tops the buffer up and stages it when it is full *)
Fill(u) ==
  /\ up[u].pc = "fill"
  /\ LET s == up[u]
         room == BlockSize - s.buffered
         take == IF s.rest < room THEN s.rest ELSE room
     IN  IF s.buffered > 0 /\ s.buffered + take = BlockSize
         THEN Stage(u, [s EXCEPT !.rest = @ - take, !.buffered = 0],
                    Offset(s), BlockSize, "slice")
         ELSE IF s.buffered > 0
         THEN Set(u, [s EXCEPT !.rest = @ - take, !.buffered = @ + take, !.pc = "slice"])
         ELSE Set(u, [s EXCEPT !.pc = "slice"])
  /\ UNCHANGED <<blob, staged, strays>>

(* append_and_stage_blocks stages whole blocks of the chunk and buffers the rest *)
Slice(u) ==
  /\ up[u].pc = "slice"
  /\ LET s == up[u]
     IN  IF s.rest >= BlockSize
         THEN Stage(u, [s EXCEPT !.rest = @ - BlockSize], Offset(s), BlockSize, "slice")
         ELSE Set(u, [s EXCEPT !.rest = 0, !.buffered = @ + s.rest, !.pc = "reading"])
  /\ UNCHANGED <<blob, staged, strays>>

(* The stream ends: all of it goes inline, or its last block is staged *)
EndOfStream(u) ==
  /\ up[u].pc = "reading"
  /\ up[u].read = Length[u]
  /\ LET s == up[u]
     IN  IF s.ids = 0
         THEN Send(u, s, [kind |-> "put", upload |-> u, count |-> 0,
                          from |-> 0, len |-> s.buffered], "ok")
         ELSE IF s.buffered > 0
         THEN Stage(u, [s EXCEPT !.buffered = 0], Offset(s), s.buffered, "ending")
         ELSE Set(u, [s EXCEPT !.pc = "ending"])
  /\ UNCHANGED <<blob, staged, strays>>

(* commit_block_list *)
Commit(u) ==
  /\ up[u].pc = "ending"
  /\ Send(u, up[u], [kind |-> "list", upload |-> u, count |-> up[u].ids,
                     from |-> 0, len |-> 0], "ok")
  /\ UNCHANGED <<blob, staged, strays>>

(* Mutant: an upload goes on when its request was rejected. *)
RejectIgnored(u) ==
  /\ up[u].pc = "sending"
  /\ ~Accepts(up[u].request)
  /\ Set(u, [up[u] EXCEPT !.pc = up[u].next, !.request = Nothing(u)])
  /\ UNCHANGED <<blob, staged, strays>>

(* The service refuses the request: a conflict, or a block is missing *)
Reject(u) ==
  /\ up[u].pc = "sending"
  /\ ~Accepts(up[u].request)
  /\ Set(u, [up[u] EXCEPT !.pc = "failed", !.request = Nothing(u)])
  /\ UNCHANGED <<blob, staged, strays>>

(* The service carries the request out and the upload goes on *)
Serve(u) ==
  /\ up[u].pc = "sending"
  /\ Accepts(up[u].request)
  /\ CarryOut(up[u].request)
  /\ Set(u, [up[u] EXCEPT !.pc = up[u].next, !.request = Nothing(u)])
  /\ UNCHANGED strays

(* The answer, or the request, is lost and the pipeline will send it again *)
Lose(u) ==
  /\ up[u].pc = "sending"
  /\ \/ /\ Accepts(up[u].request)
        /\ CarryOut(up[u].request)
        /\ UNCHANGED strays
     \/ /\ u \in Late
        /\ strays' = strays \cup {up[u].request}
        /\ UNCHANGED <<blob, staged>>
  /\ UNCHANGED up

(* A stray request arrives, or is lost for good *)
Arrive(q) ==
  /\ strays' = strays \ {q}
  /\ \/ Accepts(q) /\ CarryOut(q)
     \/ UNCHANGED <<blob, staged>>
  /\ UNCHANGED up

(* The stream fails, the pipeline gives up, the user cancels, or the process dies *)
GiveUp(u) ==
  /\ Active(u)
  /\ Set(u, [up[u] EXCEPT !.pc = "failed", !.request = Nothing(u)])
  /\ UNCHANGED <<blob, staged, strays>>

(* Somebody deletes the blob *)
DeleteBlob ==
  /\ blob' = [exists |-> FALSE, pieces |-> <<>>, listed |-> FALSE]
  /\ UNCHANGED <<staged, strays, up>>

Step(u) ==
  \/ Begin(u) \/ ReadChunk(u) \/ Flush(u) \/ Fill(u) \/ Slice(u) \/ EndOfStream(u)
  \/ Commit(u) \/ Serve(u) \/ Reject(u) \/ Lose(u) \/ GiveUp(u)

Next == (\E u \in Uploads : Step(u)) \/ (\E q \in strays : Arrive(q)) \/ DeleteBlob

Spec == Init /\ [][Next]_vars
-----------------------------------------------------------------------------
(* Properties.                                                             *)

(* Cutting into blocks loses and repeats no byte, and the subtraction that  *)
(* finds the room left in the buffer never falls below zero: every block    *)
(* but the last is full, so the bytes before the buffer are whole blocks.   *)
BlocksTile ==
  \A u \in Uploads :
    LET s == up[u]
    IN  /\ s.pc \in {"reading", "flush", "fill", "slice"} => Offset(s) = s.ids * BlockSize
        /\ s.pc = "fill" => s.buffered < BlockSize
        /\ s.pc = "reading" /\ s.ids > 0 => s.buffered < BlockSize
        /\ s.pc = "ending" => Offset(s) = Length[u]

(* What an upload that must not overwrite sends never replaces a blob, though *)
(* it is sent again, arrives late or runs beside other uploads.               *)
CreateNeverReplaces ==
  [][\A u \in Creating :
       /\ blob.exists
       /\ Serve(u) \/ Lose(u) \/ \E q \in strays : q.upload = u /\ Arrive(q)
       => blob' = blob]_vars

Tiles(pieces, u) ==
  /\ pieces # <<>>
  /\ pieces[1].from = 0
  /\ \A k \in 1..Len(pieces) :
       /\ pieces[k].upload = u
       /\ pieces[k].from + pieces[k].len =
            IF k = Len(pieces) THEN Length[u] ELSE pieces[k + 1].from

(* The upload the blob is the content of *)
Content ==
  IF ~blob.exists THEN NoBlob
  ELSE IF \E u \in Uploads : Tiles(blob.pieces, u)
  THEN CHOOSE u \in Uploads : Tiles(blob.pieces, u)
  ELSE Torn

(* When write_blob returns success and no other upload ran beside it, the   *)
(* blob holds this upload's bytes, all of them in order, even if answers    *)
(* were lost and requests repeated.                                         *)
OkIsStored ==
  [][\A u \in Alone :
       up[u].pc # "ok" /\ up'[u].pc = "ok" => Content' = u]_vars

(* The uploads that may still take effect *)
Live == {u \in Uploads : Active(u) \/ \E q \in strays : q.upload = u}

(* The blob is replaced as a whole, at one instant, by an upload asked for. *)
Abstract == INSTANCE AtomicBlob WITH blob <- Content, live <- Live

ReplacesAtomically == Abstract!Spec
=============================================================================
