-------------------------- MODULE BlockUploadProofs --------------------------
(* What holds of write_blob for any number of uploads of any length, any size *)
(* of block and any limits, with requests lost, repeated and delayed: cutting *)
(* and creating of any that run together, what is committed of those of which *)
(* no two stage blocks at the same time.                                      *)
EXTENDS BlockUpload, TLAPS

(* Blocks are staged under ids, and lists name ids, within the limit. *)
Valid(q) ==
  /\ q \in Request
  /\ q.kind = "block" => q.count < MaxBlocks
  /\ q.kind = "list" => q.count <= MaxBlocks

(* While bytes are cut into blocks, those already staged are whole blocks, and *)
(* the buffer holds less than one more unless it is about to be flushed.       *)
Cut(u, s) ==
  /\ \/ s.pc \in {"reading", "flush", "fill", "slice"}
     \/ s.pc = "sending" /\ s.next \in {"flush", "slice"}
     => Offset(s) = s.ids * BlockSize
  /\ s.pc = "idle" => s.read = 0 /\ s.buffered = 0 /\ s.rest = 0 /\ s.ids = 0
  /\ s.pc = "reading" => s.rest = 0
  /\ s.pc = "reading" /\ s.ids > 0 => s.buffered < BlockSize
  /\ s.pc = "fill" => s.buffered < BlockSize
  /\ s.pc = "slice" => s.buffered < BlockSize /\ (s.buffered > 0 => s.rest = 0)
  /\ s.pc = "sending" /\ s.next = "slice" => s.buffered = 0
  /\ s.pc = "ending" \/ (s.pc = "sending" /\ s.next = "ending")
     => s.read = Length[u] /\ s.buffered = 0 /\ s.rest = 0

Sound(u, s) == s \in Upload /\ s.request.upload = u /\ Valid(s.request) /\ Cut(u, s)

Service ==
  /\ blob \in Blob
  /\ staged \in [Ids -> Piece \cup {NoPiece}]
  /\ \A q \in strays : Valid(q)

IInv ==
  /\ Service
  /\ up \in [Uploads -> Upload]
  /\ \A u \in Uploads : Sound(u, up[u])

-----------------------------------------------------------------------------
LEMMA NextBlock == \A i \in Nat : (i + 1) * BlockSize = i * BlockSize + BlockSize
<1> QED BY BlockUploadAssumption

LEMMA NothingValid ==
  ASSUME NEW u \in Uploads
  PROVE  Nothing(u) \in Request /\ Valid(Nothing(u)) /\ Nothing(u).upload = u
<1>1. Nothing(u) \in Request
  BY DEF Nothing, Request
<1> QED BY <1>1 DEF Nothing, Valid

(* An upload may move to any sound state of its own. *)
LEMMA SetSound ==
  ASSUME IInv, NEW u \in Uploads, NEW s, Sound(u, s), Set(u, s), Service'
  PROVE  IInv'
<1> USE DEF IInv, Set
<1>1. up' \in [Uploads -> Upload]
  BY DEF Sound
<1>2. ASSUME NEW v \in Uploads PROVE Sound(v, up'[v])
  <2>1. CASE v = u
    BY <2>1
  <2>2. CASE v # u
    BY <2>2
  <2> QED BY <2>1, <2>2
<1> QED BY <1>1, <1>2

(* Of the ids a valid list names, each stands for a piece, or for none. *)
LEMMA LatestPiece ==
  ASSUME Service, NEW i \in Ids, Latest(i) # NoPiece PROVE Latest(i) \in Piece
<1> USE DEF Service
<1>1. CASE staged[i] # NoPiece
  BY <1>1 DEF Latest
<1>2. CASE staged[i] = NoPiece
  <2>1. blob.listed /\ i < Len(blob.pieces) /\ Latest(i) = blob.pieces[i + 1]
    BY <1>2 DEF Latest
  <2>2. blob.pieces \in Seq(Piece)
    BY DEF Blob
  <2>3. i \in Nat
    BY BlockUploadAssumption DEF Ids
  <2> QED BY <2>1, <2>2, <2>3
<1> QED BY <1>1, <1>2

(* Whatever the service carries out leaves its state well formed. *)
LEMMA CarryOutKeepsService ==
  ASSUME Service, NEW q, Valid(q), Accepts(q), CarryOut(q), strays' \subseteq strays
  PROVE  Service'
<1> USE DEF Valid
<1>0. PieceOf(q) \in Piece
  BY DEF PieceOf, Piece, Request
<1>1. CASE q.kind = "block"
  <2>1. q.count \in Ids
    BY <1>1, BlockUploadAssumption DEF Ids, Request
  <2>2. blob' = blob /\ staged' = [staged EXCEPT ![q.count] = PieceOf(q)]
    BY <1>1 DEF CarryOut
  <2> QED BY <1>0, <2>1, <2>2 DEF Service
<1>2. CASE q.kind = "put"
  <2>1. Replace(<<PieceOf(q)>>, FALSE)
    BY <1>2 DEF CarryOut
  <2>2. <<PieceOf(q)>> \in Seq(Piece)
    BY <1>0
  <2>3. blob' \in Blob
    BY <2>1, <2>2 DEF Replace, Blob
  <2> QED BY <2>1, <2>3 DEF Service, Replace
<1>3. CASE q.kind = "list"
  <2> DEFINE pieces == [k \in 1..q.count |-> Latest(k - 1)]
  <2>1. Replace(pieces, TRUE)
    BY <1>3 DEF CarryOut
  <2>2. q.count \in Nat
    BY DEF Request
  <2>3. ASSUME NEW k \in 1..q.count PROVE Latest(k - 1) \in Piece
    <3>1. k - 1 \in Ids /\ k - 1 \in 0..(q.count - 1)
      BY <1>3, <2>2, BlockUploadAssumption DEF Ids
    <3>2. Latest(k - 1) # NoPiece
      BY <1>3, <3>1 DEF Accepts, IfNoneMatch
    <3> QED BY <3>1, <3>2, LatestPiece
  <2>4. pieces \in Seq(Piece)
    BY <2>2, <2>3
  <2> HIDE DEF pieces
  <2>5. blob' \in Blob
    BY <2>1, <2>4 DEF Replace, Blob
  <2> QED BY <2>1, <2>5 DEF Service, Replace
<1> QED BY <1>1, <1>2, <1>3 DEF CarryOut

(* stage_block sends a valid request, or fails. *)
LEMMA StageSound ==
  ASSUME NEW u \in Uploads, NEW s \in Upload, s.request.upload = u, Valid(s.request),
         NEW from \in Nat, NEW len \in Nat, NEW next \in {"flush", "slice", "ending"},
         Stage(u, s, from, len, next), IInv, Service',
         next # "ending" => Offset(s) = (s.ids + 1) * BlockSize,
         next = "slice" => s.buffered = 0,
         next = "ending" => s.read = Length[u] /\ s.buffered = 0 /\ s.rest = 0
  PROVE  IInv'
<1>1. CASE s.ids >= MaxBlocks
  <2> DEFINE t == [s EXCEPT !.pc = "failed"]
  <2>1. t \in Upload /\ t.pc = "failed" /\ t.request = s.request
    BY DEF Upload
  <2>2. Sound(u, t)
    BY <2>1 DEF Sound, Cut
  <2> QED BY <1>1, <2>2, SetSound DEF Stage
<1>2. CASE ~(s.ids >= MaxBlocks)
  <2> DEFINE q == [kind |-> "block", upload |-> u, count |-> s.ids, from |-> from, len |-> len]
             c == [s EXCEPT !.ids = @ + 1]
             t == [c EXCEPT !.pc = "sending", !.request = q, !.next = next]
  <2>0. s.ids \in Nat /\ s.ids < MaxBlocks
    BY <1>2, BlockUploadAssumption DEF Upload
  <2>1. q \in Request /\ Valid(q) /\ q.upload = u
    BY <2>0, BlockUploadAssumption DEF Request, Valid
  <2>2. /\ c \in Upload
        /\ c.ids = s.ids + 1 /\ c.read = s.read /\ c.buffered = s.buffered /\ c.rest = s.rest
    BY <2>0, BlockUploadAssumption DEF Upload
  <2>3. Set(u, t)
    BY <1>2 DEF Stage, Send
  <2>e. t = [c EXCEPT !.pc = "sending", !.request = q, !.next = next]
    OBVIOUS
  <2>n. next \in {"flush", "slice", "ending", "ok"}
    OBVIOUS
  <2> HIDE DEF q, c, t
  <2>s. /\ t \in Upload
        /\ t.pc = "sending" /\ t.next = next /\ t.request = q /\ t.ids = c.ids
        /\ t.read = c.read /\ t.buffered = c.buffered /\ t.rest = c.rest
    BY <2>1, <2>2, <2>e, <2>n DEF Upload
  <2>4. /\ t \in Upload
        /\ t.pc = "sending" /\ t.next = next /\ t.request = q /\ t.ids = s.ids + 1
        /\ t.read = s.read /\ t.buffered = s.buffered /\ t.rest = s.rest
    BY <2>2, <2>s
  <2>5. Sound(u, t)
    BY <2>1, <2>4 DEF Sound, Cut, Offset
  <2> QED BY <2>3, <2>5, SetSound
<1> QED BY <1>1, <1>2

LEMMA InitEstablishes == Init => IInv
<1> SUFFICES ASSUME Init PROVE IInv
  OBVIOUS
<1> USE DEF Init
<1>1. Service
  BY DEF Service, Blob
<1>2. ASSUME NEW u \in Uploads PROVE Sound(u, up[u])
  <2>1. up[u] \in Upload
    BY NothingValid, BlockUploadAssumption DEF Upload
  <2> QED BY <2>1, NothingValid, BlockUploadAssumption DEF Sound, Cut, Offset
<1> QED BY <1>1, <1>2 DEF IInv, Sound

(* A step that leaves the service and the strays alone keeps them well formed. *)
LEMMA ServiceUntouched ==
  ASSUME Service, UNCHANGED <<blob, staged, strays>> PROVE Service'
<1> QED BY DEF Service

LEMMA BeginPreserves ==
  ASSUME IInv, NEW u \in Uploads, Begin(u) PROVE IInv'
<1>1. Service'
  BY ServiceUntouched DEF IInv, Begin
<1>2. up[u] \in Upload /\ Sound(u, up[u])
  BY DEF IInv
<1>3. CASE Set(u, [up[u] EXCEPT !.pc = "failed"])
  <2>1. Sound(u, [up[u] EXCEPT !.pc = "failed"])
    BY <1>2 DEF Sound, Upload, Cut
  <2> QED BY <1>1, <1>3, <2>1, SetSound
<1>4. CASE Set(u, [up[u] EXCEPT !.pc = "reading"])
  <2>1. up[u].pc = "idle"
    BY DEF Begin
  <2>2. Sound(u, [up[u] EXCEPT !.pc = "reading"])
    BY <1>2, <2>1, BlockUploadAssumption DEF Sound, Upload, Cut, Offset
  <2> QED BY <1>1, <1>4, <2>2, SetSound
<1> QED BY <1>3, <1>4 DEF Begin

(* The numbers of an upload's state, and what is left when some are moved. *)
LEMMA Numbers ==
  ASSUME NEW s \in Upload
  PROVE  s.read \in Nat /\ s.buffered \in Nat /\ s.rest \in Nat /\ s.ids \in Nat
<1> QED BY BlockUploadAssumption DEF Upload

LEMMA ReadChunkPreserves ==
  ASSUME IInv, NEW u \in Uploads, ReadChunk(u) PROVE IInv'
<1> DEFINE s == up[u]
<1>1. Service'
  BY ServiceUntouched DEF IInv, ReadChunk
<1>2. s \in Upload /\ Sound(u, s) /\ s.pc = "reading"
  BY DEF IInv, ReadChunk
<1>3. PICK n \in 1..MaxChunk :
        IF s.ids = 0 /\ s.buffered + n <= InlineThreshold
        THEN Set(u, [s EXCEPT !.read = @ + n, !.buffered = @ + n])
        ELSE Set(u, [s EXCEPT !.read = @ + n, !.rest = n,
                              !.pc = IF s.ids = 0 THEN "flush" ELSE "fill"])
  BY DEF ReadChunk
<1>4. n \in Nat
  BY BlockUploadAssumption
<1>n. s.read \in Nat /\ s.buffered \in Nat /\ s.rest \in Nat /\ s.ids \in Nat
  BY <1>2, Numbers
<1> HIDE DEF s
<1>5. CASE s.ids = 0 /\ s.buffered + n <= InlineThreshold
  <2> DEFINE t == [s EXCEPT !.read = @ + n, !.buffered = @ + n]
  <2>0. s.read + n \in Nat /\ s.buffered + n \in Nat
    BY <1>4, <1>n
  <2>t. t \in Upload
    BY <1>2, <2>0 DEF Upload
  <2>1. /\ t \in Upload /\ t.pc = "reading" /\ t.request = s.request
        /\ t.read = s.read + n /\ t.buffered = s.buffered + n /\ t.rest = s.rest /\ t.ids = 0
    BY <1>2, <1>5, <2>t DEF Upload
  <2>2. Set(u, t)
    BY <1>3, <1>5
  <2> HIDE DEF t
  <2>3. Sound(u, t)
    BY <1>2, <1>4, <1>5, <1>n, <2>1 DEF Sound, Cut, Offset
  <2> QED BY <1>1, <2>2, <2>3, SetSound
<1>6. CASE ~(s.ids = 0 /\ s.buffered + n <= InlineThreshold)
  <2> DEFINE t == [s EXCEPT !.read = @ + n, !.rest = n,
                            !.pc = IF s.ids = 0 THEN "flush" ELSE "fill"]
  <2>0. s.read + n \in Nat
    BY <1>4, <1>n
  <2>t. t \in Upload
    BY <1>2, <1>4, <2>0 DEF Upload
  <2>1. /\ t \in Upload /\ t.pc = (IF s.ids = 0 THEN "flush" ELSE "fill")
        /\ t.request = s.request /\ t.read = s.read + n
        /\ t.buffered = s.buffered /\ t.rest = n /\ t.ids = s.ids
    BY <1>2, <2>t DEF Upload
  <2>2. Set(u, t)
    BY <1>3, <1>6
  <2> HIDE DEF t
  <2>3. Sound(u, t)
    BY <1>2, <1>4, <1>n, <2>1 DEF Sound, Cut, Offset
  <2> QED BY <1>1, <2>2, <2>3, SetSound
<1> QED BY <1>5, <1>6

LEMMA FlushPreserves ==
  ASSUME IInv, NEW u \in Uploads, Flush(u) PROVE IInv'
<1> DEFINE s == up[u]
<1>1. Service'
  BY ServiceUntouched DEF IInv, Flush
<1>2. s \in Upload /\ Sound(u, s) /\ s.pc = "flush"
  BY DEF IInv, Flush
<1>3. IF s.buffered >= BlockSize
      THEN Stage(u, [s EXCEPT !.buffered = @ - BlockSize], Offset(s), BlockSize, "flush")
      ELSE Set(u, [s EXCEPT !.pc = "fill"])
  BY DEF Flush
<1>n. s.read \in Nat /\ s.buffered \in Nat /\ s.rest \in Nat /\ s.ids \in Nat
      /\ BlockSize \in Nat \ {0}
  BY <1>2, Numbers, BlockUploadAssumption
<1> HIDE DEF s
<1>4. Offset(s) = s.ids * BlockSize /\ Offset(s) \in Nat
  BY <1>2, <1>n DEF Sound, Cut
<1>5. CASE s.buffered >= BlockSize
  <2> DEFINE t == [s EXCEPT !.buffered = @ - BlockSize]
  <2>1. /\ t \in Upload /\ t.request = s.request
        /\ t.read = s.read /\ t.buffered = s.buffered - BlockSize
        /\ t.rest = s.rest /\ t.ids = s.ids
    BY <1>2, <1>5, <1>n DEF Upload
  <2>2. Stage(u, t, Offset(s), BlockSize, "flush")
    BY <1>3, <1>5
  <2> HIDE DEF t
  <2>3. Offset(t) = (t.ids + 1) * BlockSize
    BY <1>4, <1>n, <2>1, NextBlock DEF Offset
  <2>4. t.request.upload = u /\ Valid(t.request)
    BY <1>2, <2>1 DEF Sound
  <2> QED BY <1>1, <1>4, <1>n, <2>1, <2>2, <2>3, <2>4, StageSound
<1>6. CASE ~(s.buffered >= BlockSize)
  <2> DEFINE t == [s EXCEPT !.pc = "fill"]
  <2>1. /\ t \in Upload /\ t.pc = "fill" /\ t.request = s.request
        /\ t.read = s.read /\ t.buffered = s.buffered /\ t.rest = s.rest /\ t.ids = s.ids
    BY <1>2 DEF Upload
  <2>2. Set(u, t)
    BY <1>3, <1>6
  <2> HIDE DEF t
  <2>3. Sound(u, t)
    BY <1>2, <1>4, <1>6, <1>n, <2>1 DEF Sound, Cut, Offset
  <2> QED BY <1>1, <2>2, <2>3, SetSound
<1> QED BY <1>5, <1>6

LEMMA FillPreserves ==
  ASSUME IInv, NEW u \in Uploads, Fill(u) PROVE IInv'
<1> DEFINE s == up[u]
           room == BlockSize - s.buffered
           take == IF s.rest < room THEN s.rest ELSE room
<1>1. Service'
  BY ServiceUntouched DEF IInv, Fill
<1>2. s \in Upload /\ Sound(u, s) /\ s.pc = "fill"
  BY DEF IInv, Fill
<1>3. IF s.buffered > 0 /\ s.buffered + take = BlockSize
      THEN Stage(u, [s EXCEPT !.rest = @ - take, !.buffered = 0], Offset(s), BlockSize, "slice")
      ELSE IF s.buffered > 0
      THEN Set(u, [s EXCEPT !.rest = @ - take, !.buffered = @ + take, !.pc = "slice"])
      ELSE Set(u, [s EXCEPT !.pc = "slice"])
  BY DEF Fill
<1>n. s.read \in Nat /\ s.buffered \in Nat /\ s.rest \in Nat /\ s.ids \in Nat
      /\ BlockSize \in Nat \ {0}
  BY <1>2, Numbers, BlockUploadAssumption
<1> HIDE DEF s
<1>4. Offset(s) = s.ids * BlockSize /\ Offset(s) \in Nat /\ s.buffered < BlockSize
  BY <1>2, <1>n DEF Sound, Cut
<1>5. take \in Nat /\ take <= s.rest /\ (s.buffered + take # BlockSize => take = s.rest)
      /\ s.buffered + take <= BlockSize
  BY <1>n, <1>4
<1> HIDE DEF take
<1>6. CASE s.buffered > 0 /\ s.buffered + take = BlockSize
  <2> DEFINE t == [s EXCEPT !.rest = @ - take, !.buffered = 0]
  <2>0. s.rest - take \in Nat
    BY <1>5, <1>n
  <2>t. t \in Upload
    BY <1>2, <2>0 DEF Upload
  <2>1. /\ t \in Upload /\ t.request = s.request
        /\ t.read = s.read /\ t.buffered = 0 /\ t.rest = s.rest - take /\ t.ids = s.ids
    BY <1>2, <2>t DEF Upload
  <2>2. Stage(u, t, Offset(s), BlockSize, "slice")
    BY <1>3, <1>6
  <2> HIDE DEF t
  <2>3. Offset(t) = (t.ids + 1) * BlockSize
    BY <1>4, <1>5, <1>6, <1>n, <2>1, NextBlock DEF Offset
  <2>4. t.request.upload = u /\ Valid(t.request)
    BY <1>2, <2>1 DEF Sound
  <2> QED BY <1>1, <1>4, <1>n, <2>1, <2>2, <2>3, <2>4, StageSound
<1>7. CASE s.buffered > 0 /\ s.buffered + take # BlockSize
  <2> DEFINE t == [s EXCEPT !.rest = @ - take, !.buffered = @ + take, !.pc = "slice"]
  <2>0. s.rest - take \in Nat /\ s.buffered + take \in Nat
    BY <1>5, <1>n
  <2>t. t \in Upload
    BY <1>2, <2>0 DEF Upload
  <2>1. /\ t \in Upload /\ t.pc = "slice" /\ t.request = s.request /\ t.read = s.read
        /\ t.buffered = s.buffered + take /\ t.rest = s.rest - take /\ t.ids = s.ids
    BY <1>2, <2>t DEF Upload
  <2>2. Set(u, t)
    BY <1>3, <1>7
  <2> HIDE DEF t
  <2>3. Sound(u, t)
    BY <1>2, <1>4, <1>5, <1>7, <1>n, <2>1 DEF Sound, Cut, Offset
  <2> QED BY <1>1, <2>2, <2>3, SetSound
<1>8. CASE ~(s.buffered > 0)
  <2> DEFINE t == [s EXCEPT !.pc = "slice"]
  <2>1. /\ t \in Upload /\ t.pc = "slice" /\ t.request = s.request /\ t.read = s.read
        /\ t.buffered = s.buffered /\ t.rest = s.rest /\ t.ids = s.ids
    BY <1>2 DEF Upload
  <2>2. Set(u, t)
    BY <1>3, <1>8
  <2> HIDE DEF t
  <2>3. Sound(u, t)
    BY <1>2, <1>4, <1>8, <1>n, <2>1 DEF Sound, Cut, Offset
  <2> QED BY <1>1, <2>2, <2>3, SetSound
<1> QED BY <1>6, <1>7, <1>8

LEMMA SlicePreserves ==
  ASSUME IInv, NEW u \in Uploads, Slice(u) PROVE IInv'
<1> DEFINE s == up[u]
<1>1. Service'
  BY ServiceUntouched DEF IInv, Slice
<1>2. s \in Upload /\ Sound(u, s) /\ s.pc = "slice"
  BY DEF IInv, Slice
<1>3. IF s.rest >= BlockSize
      THEN Stage(u, [s EXCEPT !.rest = @ - BlockSize], Offset(s), BlockSize, "slice")
      ELSE Set(u, [s EXCEPT !.rest = 0, !.buffered = @ + s.rest, !.pc = "reading"])
  BY DEF Slice
<1>n. s.read \in Nat /\ s.buffered \in Nat /\ s.rest \in Nat /\ s.ids \in Nat
      /\ BlockSize \in Nat \ {0}
  BY <1>2, Numbers, BlockUploadAssumption
<1> HIDE DEF s
<1>4. /\ Offset(s) = s.ids * BlockSize /\ Offset(s) \in Nat
      /\ s.buffered < BlockSize /\ (s.buffered > 0 => s.rest = 0)
  BY <1>2, <1>n DEF Sound, Cut
<1>5. CASE s.rest >= BlockSize
  <2> DEFINE t == [s EXCEPT !.rest = @ - BlockSize]
  <2>1. /\ t \in Upload /\ t.request = s.request
        /\ t.read = s.read /\ t.buffered = s.buffered
        /\ t.rest = s.rest - BlockSize /\ t.ids = s.ids
    BY <1>2, <1>5, <1>n DEF Upload
  <2>2. Stage(u, t, Offset(s), BlockSize, "slice")
    BY <1>3, <1>5
  <2> HIDE DEF t
  <2>3. Offset(t) = (t.ids + 1) * BlockSize /\ t.buffered = 0
    BY <1>4, <1>5, <1>n, <2>1, NextBlock DEF Offset
  <2>4. t.request.upload = u /\ Valid(t.request)
    BY <1>2, <2>1 DEF Sound
  <2> QED BY <1>1, <1>4, <1>n, <2>1, <2>2, <2>3, <2>4, StageSound
<1>6. CASE ~(s.rest >= BlockSize)
  <2> DEFINE t == [s EXCEPT !.rest = 0, !.buffered = @ + s.rest, !.pc = "reading"]
  <2>0. s.buffered + s.rest \in Nat
    BY <1>n
  <2>t. t \in Upload
    BY <1>2, <2>0 DEF Upload
  <2>1. /\ t \in Upload /\ t.pc = "reading" /\ t.request = s.request /\ t.read = s.read
        /\ t.buffered = s.buffered + s.rest /\ t.rest = 0 /\ t.ids = s.ids
    BY <1>2, <2>t DEF Upload
  <2>2. Set(u, t)
    BY <1>3, <1>6
  <2> HIDE DEF t
  <2>3. Sound(u, t)
    BY <1>2, <1>4, <1>6, <1>n, <2>1 DEF Sound, Cut, Offset
  <2> QED BY <1>1, <2>2, <2>3, SetSound
<1> QED BY <1>5, <1>6

(* A request that is no block may be sent from any sound state, to commit. *)
LEMMA SendSound ==
  ASSUME IInv, Service', NEW u \in Uploads, NEW q, Valid(q), q.kind # "block", q.upload = u,
         Send(u, up[u], q, "ok")
  PROVE  IInv'
<1> DEFINE s == up[u]
           t == [s EXCEPT !.pc = "sending", !.request = q, !.next = "ok"]
<1>1. s \in Upload /\ Sound(u, s) /\ q \in Request
  BY DEF IInv, Valid
<1>2. Set(u, t)
  BY DEF Send
<1> HIDE DEF s
<1>3. t \in Upload /\ t.pc = "sending" /\ t.next = "ok" /\ t.request = q
  BY <1>1 DEF Upload
<1> HIDE DEF t
<1>4. Sound(u, t)
  BY <1>1, <1>3 DEF Sound, Cut
<1> QED BY <1>2, <1>4, SetSound

LEMMA EndOfStreamPreserves ==
  ASSUME IInv, NEW u \in Uploads, EndOfStream(u) PROVE IInv'
<1> DEFINE s == up[u]
           q == [kind |-> "put", upload |-> u, count |-> 0, from |-> 0, len |-> s.buffered]
<1>1. Service'
  BY ServiceUntouched DEF IInv, EndOfStream
<1>2. s \in Upload /\ Sound(u, s) /\ s.pc = "reading" /\ s.read = Length[u]
  BY DEF IInv, EndOfStream
<1>3. IF s.ids = 0 THEN Send(u, s, q, "ok")
      ELSE IF s.buffered > 0
      THEN Stage(u, [s EXCEPT !.buffered = 0], Offset(s), s.buffered, "ending")
      ELSE Set(u, [s EXCEPT !.pc = "ending"])
  BY DEF EndOfStream
<1>n. s.read \in Nat /\ s.buffered \in Nat /\ s.rest \in Nat /\ s.ids \in Nat
      /\ BlockSize \in Nat \ {0}
  BY <1>2, Numbers, BlockUploadAssumption
<1>4. CASE s.ids = 0
  <2>1. q \in Request /\ Valid(q) /\ q.kind # "block" /\ q.upload = u
    BY <1>n DEF Request, Valid
  <2>2. Send(u, up[u], q, "ok")
    BY <1>3, <1>4
  <2> HIDE DEF q, s
  <2> QED BY <1>1, <2>1, <2>2, SendSound
<1> HIDE DEF s
<1>5. s.rest = 0 /\ Offset(s) = s.ids * BlockSize /\ Offset(s) \in Nat
  BY <1>2, <1>n DEF Sound, Cut
<1>6. CASE s.ids # 0 /\ s.buffered > 0
  <2> DEFINE t == [s EXCEPT !.buffered = 0]
  <2>1. /\ t \in Upload /\ t.request = s.request
        /\ t.read = s.read /\ t.buffered = 0 /\ t.rest = s.rest /\ t.ids = s.ids
    BY <1>2 DEF Upload
  <2>2. Stage(u, t, Offset(s), s.buffered, "ending")
    BY <1>3, <1>6
  <2> HIDE DEF t
  <2>3. t.read = Length[u] /\ t.buffered = 0 /\ t.rest = 0
    BY <1>2, <1>5, <2>1
  <2>4. t.request.upload = u /\ Valid(t.request)
    BY <1>2, <2>1 DEF Sound
  <2> QED BY <1>1, <1>5, <1>n, <2>1, <2>2, <2>3, <2>4, StageSound
<1>7. CASE s.ids # 0 /\ ~(s.buffered > 0)
  <2> DEFINE t == [s EXCEPT !.pc = "ending"]
  <2>1. /\ t \in Upload /\ t.pc = "ending" /\ t.request = s.request /\ t.read = s.read
        /\ t.buffered = s.buffered /\ t.rest = s.rest /\ t.ids = s.ids
    BY <1>2 DEF Upload
  <2>2. Set(u, t)
    BY <1>3, <1>7
  <2> HIDE DEF t
  <2>3. Sound(u, t)
    BY <1>2, <1>5, <1>7, <1>n, <2>1 DEF Sound, Cut
  <2> QED BY <1>1, <2>2, <2>3, SetSound
<1> QED BY <1>4, <1>6, <1>7

LEMMA CommitPreserves ==
  ASSUME IInv, NEW u \in Uploads, Commit(u) PROVE IInv'
<1> DEFINE q == [kind |-> "list", upload |-> u, count |-> up[u].ids, from |-> 0, len |-> 0]
<1>1. Service'
  BY ServiceUntouched DEF IInv, Commit
<1>2. up[u].ids \in Nat /\ up[u].ids <= MaxBlocks
  BY BlockUploadAssumption DEF IInv, Upload
<1>3. q \in Request /\ Valid(q) /\ q.kind # "block" /\ q.upload = u
  BY <1>2 DEF Request, Valid
<1>4. Send(u, up[u], q, "ok")
  BY DEF Commit
<1> HIDE DEF q
<1> QED BY <1>1, <1>3, <1>4, SendSound

(* When a request is answered the upload goes on where it said, or stops. *)
LEMMA AnsweredSound ==
  ASSUME IInv, Service', NEW u \in Uploads, NEW pc \in {"failed", "continue"},
         pc = "continue" => up[u].pc = "sending",
         Set(u, [up[u] EXCEPT !.pc = IF pc = "failed" THEN "failed" ELSE up[u].next,
                              !.request = Nothing(u)])
  PROVE  IInv'
<1> DEFINE s == up[u]
           t == [s EXCEPT !.pc = IF pc = "failed" THEN "failed" ELSE s.next,
                          !.request = Nothing(u)]
<1>1. s \in Upload /\ Sound(u, s) /\ Nothing(u) \in Request
  BY NothingValid DEF IInv
<1>2. Set(u, t)
  OBVIOUS
<1>0. pc = "continue" => s.pc = "sending"
  OBVIOUS
<1> HIDE DEF s
<1>3. /\ t \in Upload /\ t.pc = (IF pc = "failed" THEN "failed" ELSE s.next)
      /\ t.request = Nothing(u) /\ t.read = s.read
      /\ t.buffered = s.buffered /\ t.rest = s.rest /\ t.ids = s.ids
  BY <1>1 DEF Upload
<1> HIDE DEF t
<1>4. s.next \in {"flush", "slice", "ending", "ok"}
  BY <1>1 DEF Upload
<1>n. s.read \in Nat /\ s.buffered \in Nat /\ s.rest \in Nat /\ s.ids \in Nat
      /\ BlockSize \in Nat \ {0}
  BY <1>1, Numbers, BlockUploadAssumption
<1>5. Cut(u, t)
  BY <1>0, <1>1, <1>3, <1>4, <1>n DEF Sound, Cut, Offset
<1>6. Sound(u, t)
  BY <1>3, <1>5, NothingValid DEF Sound
<1> QED BY <1>2, <1>6, SetSound

LEMMA AnswersPreserve ==
  ASSUME IInv, NEW u \in Uploads, Reject(u) \/ GiveUp(u) \/ Serve(u) PROVE IInv'
<1>1. CASE Reject(u) \/ GiveUp(u)
  <2>1. Service'
    BY <1>1, ServiceUntouched DEF IInv, Reject, GiveUp
  <2>2. Set(u, [up[u] EXCEPT !.pc = IF "failed" = "failed" THEN "failed" ELSE up[u].next,
                             !.request = Nothing(u)])
    BY <1>1 DEF Reject, GiveUp
  <2> QED BY <2>1, <2>2, AnsweredSound
<1>2. CASE Serve(u)
  <2>1. Valid(up[u].request)
    BY DEF IInv, Sound
  <2>2. Service'
    BY <1>2, <2>1, CarryOutKeepsService DEF IInv, Serve
  <2>3. Set(u, [up[u] EXCEPT !.pc = IF "continue" = "failed" THEN "failed" ELSE up[u].next,
                             !.request = Nothing(u)])
    BY <1>2 DEF Serve
  <2> QED BY <1>2, <2>2, <2>3, AnsweredSound DEF Serve
<1> QED BY <1>1, <1>2

LEMMA NetworkPreserves ==
  ASSUME IInv, DeleteBlob \/ (\E u \in Uploads : Lose(u)) \/ (\E q \in strays : Arrive(q))
  PROVE  IInv'
<1>1. Service'
  <2>1. CASE DeleteBlob
    BY <2>1 DEF IInv, Service, Blob, DeleteBlob
  <2>2. ASSUME NEW u \in Uploads, Lose(u) PROVE Service'
    <3>1. Valid(up[u].request)
      BY DEF IInv, Sound
    <3>2. CASE Accepts(up[u].request) /\ CarryOut(up[u].request) /\ UNCHANGED strays
      BY <3>1, <3>2, CarryOutKeepsService DEF IInv
    <3>3. CASE strays' = strays \cup {up[u].request} /\ UNCHANGED <<blob, staged>>
      BY <3>1, <3>3 DEF IInv, Service
    <3> QED BY <2>2, <3>2, <3>3 DEF Lose
  <2>3. ASSUME NEW q \in strays, Arrive(q) PROVE Service'
    <3>1. Valid(q) /\ strays' \subseteq strays
      BY <2>3 DEF IInv, Service, Arrive
    <3>2. CASE Accepts(q) /\ CarryOut(q)
      BY <3>1, <3>2, CarryOutKeepsService DEF IInv
    <3>3. CASE UNCHANGED <<blob, staged>>
      BY <3>1, <3>3 DEF IInv, Service
    <3> QED BY <2>3, <3>2, <3>3 DEF Arrive
  <2> QED BY <2>1, <2>2, <2>3
<1>2. up' = up
  BY DEF DeleteBlob, Lose, Arrive
<1> QED BY <1>1, <1>2 DEF IInv

LEMMA NextPreserves == IInv /\ [Next]_vars => IInv'
<1> SUFFICES ASSUME IInv, [Next]_vars PROVE IInv'
  OBVIOUS
<1>1. ASSUME NEW u \in Uploads, Step(u) PROVE IInv'
  BY <1>1, BeginPreserves, ReadChunkPreserves, FlushPreserves, FillPreserves, SlicePreserves,
     EndOfStreamPreserves, CommitPreserves, AnswersPreserve, NetworkPreserves DEF Step
<1>2. CASE DeleteBlob \/ \E q \in strays : Arrive(q)
  BY <1>2, NetworkPreserves
<1>3. CASE UNCHANGED vars
  BY <1>3 DEF vars, IInv, Service
<1> QED BY <1>1, <1>2, <1>3 DEF Next

LEMMA Invariance == Spec => []IInv
<1> QED BY InitEstablishes, NextPreserves, PTL DEF Spec

-----------------------------------------------------------------------------
(* The blob, the staged blocks, what is on the way and every upload keep their *)
(* types: no buffer length or block count ever falls below zero or past its    *)
(* limit.                                                                      *)
THEOREM SpecTypeOK == Spec => []TypeOK
<1>1. IInv => TypeOK
  BY DEF IInv, Service, Valid, TypeOK
<1> QED BY <1>1, Invariance, PTL

(* Cutting into blocks loses and repeats no byte, and never subtracts more *)
(* than there is.                                                          *)
THEOREM SpecBlocksTile == Spec => []BlocksTile
<1>1. IInv => BlocksTile
  <2> SUFFICES ASSUME IInv, NEW u \in Uploads
               PROVE  /\ up[u].pc \in {"reading", "flush", "fill", "slice"}
                           => Offset(up[u]) = up[u].ids * BlockSize
                      /\ up[u].pc = "fill" => up[u].buffered < BlockSize
                      /\ up[u].pc = "reading" /\ up[u].ids > 0 => up[u].buffered < BlockSize
                      /\ up[u].pc = "ending" => Offset(up[u]) = Length[u]
    BY DEF BlocksTile
  <2>1. up[u] \in Upload /\ Cut(u, up[u])
    BY DEF IInv, Sound
  <2>2. up[u].read \in Nat
    BY <2>1, Numbers
  <2> QED BY <2>1, <2>2 DEF Cut, Offset
<1> QED BY <1>1, Invariance, PTL

(* What an upload that must not overwrite sends never replaces a blob. *)
THEOREM SpecCreateNeverReplaces == Spec => CreateNeverReplaces
<1>1. IInv /\ [Next]_vars =>
        [\A u \in Creating :
           /\ blob.exists
           /\ Serve(u) \/ Lose(u) \/ \E q \in strays : q.upload = u /\ Arrive(q)
           => blob' = blob]_vars
  <2> SUFFICES ASSUME IInv, NEW u \in Creating, blob.exists,
                      Serve(u) \/ Lose(u) \/ \E q \in strays : q.upload = u /\ Arrive(q)
               PROVE  blob' = blob
    OBVIOUS
  <2>1. ASSUME NEW q, q.upload = u, Accepts(q), CarryOut(q) PROVE blob' = blob
    BY <2>1 DEF Accepts, IfNoneMatch, CarryOut
  <2>2. up[u].request.upload = u
    BY BlockUploadAssumption DEF IInv, Sound
  <2> QED BY <2>1, <2>2 DEF Serve, Lose, Arrive
<1> QED BY <1>1, Invariance, PTL DEF Spec, CreateNeverReplaces

-----------------------------------------------------------------------------
(* What an upload has cut, and asked for, of its own stream: which part of it a *)
(* block is, what goes inline, and how many blocks a list names.                *)

(* Longer than what may go inline *)
Long(u) == Length[u] > InlineThreshold

(* The block an upload stages under id i *)
Part(u, i) ==
  [upload |-> u, from |-> i * BlockSize,
   len |-> IF (i + 1) * BlockSize <= Length[u] THEN BlockSize ELSE Length[u] - i * BlockSize]

(* n blocks reach to the end of the stream, and fewer do not *)
IsCount(u, n) == n > 0 /\ (n - 1) * BlockSize < Length[u] /\ Length[u] <= n * BlockSize

Ranged(q) ==
  /\ q.kind = "block" => Long(q.upload) /\ PieceOf(q) = Part(q.upload, q.count)
  /\ q.kind = "put" => q.from = 0 /\ q.len = Length[q.upload]
  /\ q.kind = "list" => Long(q.upload) /\ IsCount(q.upload, q.count)

Shape(u, s) ==
  /\ s.read <= Length[u]
  /\ s.pc \in {"flush", "fill", "slice"} \/ s.ids > 0 => Long(u)
  /\ s.pc = "sending" =>
       /\ s.request.kind # "none"
       /\ s.request.kind = "block" => s.next # "ok" /\ s.ids = s.request.count + 1
       /\ s.request.kind # "block" => s.next = "ok"
       /\ s.request.kind = "list" => s.request.count = s.ids
       /\ s.next = "ending" => IsCount(u, s.ids)
  /\ s.pc = "ending" => IsCount(u, s.ids)
  /\ Ranged(s.request)

Shapes == \A u \in Uploads : Shape(u, up[u])

ShapeInv ==
  /\ Shapes
  /\ \A q \in strays : Ranged(q) /\ q.upload \in Late /\ q.kind # "none"

LEMMA SetShape ==
  ASSUME IInv, Shapes, NEW u \in Uploads, NEW s, Shape(u, s), Set(u, s) PROVE Shapes'
<1>1. ASSUME NEW v \in Uploads PROVE Shape(v, up'[v])
  <2>1. CASE v = u
    BY <2>1 DEF Set, IInv
  <2>2. CASE v # u
    BY <2>2 DEF Set, IInv, Shapes
  <2> QED BY <2>1, <2>2
<1> QED BY <1>1 DEF Shapes, Shape, Ranged, IsCount, Long, Part, PieceOf

(* stage_block sends the upload's next part. *)
LEMMA StageShape ==
  ASSUME IInv, Shapes, NEW u \in Uploads, NEW s \in Upload, Ranged(s.request),
         NEW from \in Nat, NEW len \in Nat, NEW next \in {"flush", "slice", "ending"},
         Stage(u, s, from, len, next), s.read <= Length[u], Long(u),
         from = s.ids * BlockSize, len = Part(u, s.ids).len,
         next = "ending" => IsCount(u, s.ids + 1)
  PROVE  Shapes'
<1>1. CASE s.ids >= MaxBlocks
  <2> DEFINE t == [s EXCEPT !.pc = "failed"]
  <2>1. t \in Upload /\ t.pc = "failed" /\ t.request = s.request /\ t.read = s.read
    BY DEF Upload
  <2>2. Shape(u, t)
    BY <2>1 DEF Shape
  <2> QED BY <1>1, <2>2, SetShape DEF Stage
<1>2. CASE ~(s.ids >= MaxBlocks)
  <2> DEFINE q == [kind |-> "block", upload |-> u, count |-> s.ids, from |-> from, len |-> len]
             t == [[s EXCEPT !.ids = @ + 1] EXCEPT !.pc = "sending", !.request = q, !.next = next]
  <2>0. s.ids \in Nat
    BY BlockUploadAssumption DEF Upload
  <2>1. Set(u, t)
    BY <1>2 DEF Stage, Send
  <2>2. /\ t.pc = "sending" /\ t.next = next /\ t.request = q /\ t.ids = s.ids + 1
        /\ t.read = s.read
    BY DEF Upload
  <2>3. PieceOf(q) = Part(u, s.ids)
    BY DEF PieceOf, Part
  <2>4. q.kind = "block" /\ q.upload = u /\ q.count = s.ids
    OBVIOUS
  <2> HIDE DEF q, t
  <2>5. Ranged(q)
    BY <2>3, <2>4 DEF Ranged
  <2>6. Shape(u, t)
    BY <2>0, <2>2, <2>4, <2>5 DEF Shape
  <2> QED BY <2>1, <2>6, SetShape
<1> QED BY <1>1, <1>2

(* A whole block that is within what has been read is the next part. *)
LEMMA WholePart ==
  ASSUME NEW u \in Uploads, NEW i \in Nat, i * BlockSize + BlockSize <= Length[u]
  PROVE  Part(u, i).len = BlockSize
BY NextBlock DEF Part

LEMMA ReadChunkShape ==
  ASSUME IInv, Shapes, NEW u \in Uploads, ReadChunk(u) PROVE Shapes'
<1> DEFINE s == up[u]
<1>2. s \in Upload /\ Sound(u, s) /\ Shape(u, s) /\ s.pc = "reading"
  BY DEF IInv, Shapes, ReadChunk
<1>3. PICK n \in 1..MaxChunk :
        /\ s.read + n <= Length[u]
        /\ IF s.ids = 0 /\ s.buffered + n <= InlineThreshold
           THEN Set(u, [s EXCEPT !.read = @ + n, !.buffered = @ + n])
           ELSE Set(u, [s EXCEPT !.read = @ + n, !.rest = n,
                                 !.pc = IF s.ids = 0 THEN "flush" ELSE "fill"])
  BY DEF ReadChunk
<1>4. n \in Nat /\ Length[u] \in Nat /\ InlineThreshold \in Nat
  BY BlockUploadAssumption
<1>n. s.read \in Nat /\ s.buffered \in Nat /\ s.rest \in Nat /\ s.ids \in Nat
  BY <1>2, Numbers
<1> HIDE DEF s
<1>f. s.ids = 0 => s.buffered = s.read
  <2>1. s.read - s.buffered - s.rest = s.ids * BlockSize /\ s.rest = 0
    BY <1>2 DEF Sound, Cut, Offset
  <2>2. 0 * BlockSize = 0
    BY BlockUploadAssumption
  <2> QED BY <1>n, <2>1, <2>2
<1>5. CASE s.ids = 0 /\ s.buffered + n <= InlineThreshold
  <2> DEFINE t == [s EXCEPT !.read = @ + n, !.buffered = @ + n]
  <2>1. /\ t.pc = "reading" /\ t.request = s.request /\ t.read = s.read + n /\ t.ids = 0
    BY <1>2, <1>5 DEF Upload
  <2>2. Set(u, t)
    BY <1>3, <1>5
  <2> HIDE DEF t
  <2>3. Shape(u, t)
    BY <1>2, <1>3, <2>1 DEF Shape
  <2> QED BY <2>2, <2>3, SetShape
<1>6. CASE ~(s.ids = 0 /\ s.buffered + n <= InlineThreshold)
  <2> DEFINE t == [s EXCEPT !.read = @ + n, !.rest = n,
                            !.pc = IF s.ids = 0 THEN "flush" ELSE "fill"]
  <2>1. /\ t.pc \in {"flush", "fill"} /\ t.request = s.request /\ t.read = s.read + n
        /\ t.ids = s.ids
    BY <1>2 DEF Upload
  <2>2. Set(u, t)
    BY <1>3, <1>6
  <2> HIDE DEF t
  <2>3. Long(u)
    BY <1>2, <1>3, <1>4, <1>6, <1>f, <1>n DEF Shape, Long
  <2>4. Shape(u, t)
    BY <1>2, <1>3, <2>1, <2>3 DEF Shape
  <2> QED BY <2>2, <2>4, SetShape
<1> QED BY <1>5, <1>6

LEMMA FlushShape ==
  ASSUME IInv, Shapes, NEW u \in Uploads, Flush(u) PROVE Shapes'
<1> DEFINE s == up[u]
<1>2. s \in Upload /\ Sound(u, s) /\ Shape(u, s) /\ s.pc = "flush"
  BY DEF IInv, Shapes, Flush
<1>3. IF s.buffered >= BlockSize
      THEN Stage(u, [s EXCEPT !.buffered = @ - BlockSize], Offset(s), BlockSize, "flush")
      ELSE Set(u, [s EXCEPT !.pc = "fill"])
  BY DEF Flush
<1>n. s.read \in Nat /\ s.buffered \in Nat /\ s.rest \in Nat /\ s.ids \in Nat
      /\ BlockSize \in Nat \ {0} /\ Length[u] \in Nat
  BY <1>2, Numbers, BlockUploadAssumption
<1> HIDE DEF s
<1>4. /\ Offset(s) = s.ids * BlockSize /\ Offset(s) \in Nat /\ s.read <= Length[u]
      /\ Long(u) /\ Ranged(s.request)
  BY <1>2, <1>n DEF Sound, Cut, Shape
<1>5. CASE s.buffered >= BlockSize
  <2> DEFINE t == [s EXCEPT !.buffered = @ - BlockSize]
  <2>1. /\ t \in Upload /\ t.request = s.request /\ t.read = s.read /\ t.ids = s.ids
    BY <1>2, <1>5, <1>n DEF Upload
  <2>2. Stage(u, t, Offset(s), BlockSize, "flush")
    BY <1>3, <1>5
  <2> HIDE DEF t
  <2>3. Part(u, s.ids).len = BlockSize
    BY <1>4, <1>5, <1>n, WholePart DEF Offset
  <2> QED BY <1>4, <1>n, <2>1, <2>2, <2>3, StageShape
<1>6. CASE ~(s.buffered >= BlockSize)
  <2> DEFINE t == [s EXCEPT !.pc = "fill"]
  <2>1. t.pc = "fill" /\ t.request = s.request /\ t.read = s.read /\ t.ids = s.ids
    BY <1>2 DEF Upload
  <2>2. Set(u, t)
    BY <1>3, <1>6
  <2> HIDE DEF t
  <2>3. Shape(u, t)
    BY <1>2, <1>4, <2>1 DEF Shape
  <2> QED BY <2>2, <2>3, SetShape
<1> QED BY <1>5, <1>6

LEMMA FillShape ==
  ASSUME IInv, Shapes, NEW u \in Uploads, Fill(u) PROVE Shapes'
<1> DEFINE s == up[u]
           room == BlockSize - s.buffered
           take == IF s.rest < room THEN s.rest ELSE room
<1>2. s \in Upload /\ Sound(u, s) /\ Shape(u, s) /\ s.pc = "fill"
  BY DEF IInv, Shapes, Fill
<1>3. IF s.buffered > 0 /\ s.buffered + take = BlockSize
      THEN Stage(u, [s EXCEPT !.rest = @ - take, !.buffered = 0], Offset(s), BlockSize, "slice")
      ELSE IF s.buffered > 0
      THEN Set(u, [s EXCEPT !.rest = @ - take, !.buffered = @ + take, !.pc = "slice"])
      ELSE Set(u, [s EXCEPT !.pc = "slice"])
  BY DEF Fill
<1>n. s.read \in Nat /\ s.buffered \in Nat /\ s.rest \in Nat /\ s.ids \in Nat
      /\ BlockSize \in Nat \ {0} /\ Length[u] \in Nat
  BY <1>2, Numbers, BlockUploadAssumption
<1> HIDE DEF s
<1>4. /\ Offset(s) = s.ids * BlockSize /\ Offset(s) \in Nat /\ s.buffered < BlockSize
      /\ s.read <= Length[u] /\ Long(u) /\ Ranged(s.request)
  BY <1>2, <1>n DEF Sound, Cut, Shape
<1>5. take \in Nat /\ take <= s.rest
  BY <1>n, <1>4
<1> HIDE DEF take
<1>6. CASE s.buffered > 0 /\ s.buffered + take = BlockSize
  <2> DEFINE t == [s EXCEPT !.rest = @ - take, !.buffered = 0]
  <2>0. s.rest - take \in Nat
    BY <1>5, <1>n
  <2>1. /\ t \in Upload /\ t.request = s.request /\ t.read = s.read /\ t.ids = s.ids
    BY <1>2, <2>0 DEF Upload
  <2>2. Stage(u, t, Offset(s), BlockSize, "slice")
    BY <1>3, <1>6
  <2> HIDE DEF t
  <2>3. Part(u, s.ids).len = BlockSize
    BY <1>4, <1>5, <1>6, <1>n, WholePart DEF Offset
  <2> QED BY <1>4, <1>n, <2>1, <2>2, <2>3, StageShape
<1>7. ASSUME NEW t, Set(u, t), t.pc = "slice", t.request = s.request, t.read = s.read,
             t.ids = s.ids
      PROVE  Shapes'
  <2>1. Shape(u, t)
    BY <1>2, <1>4, <1>7 DEF Shape
  <2> QED BY <1>7, <2>1, SetShape
<1>8. CASE s.buffered > 0 /\ s.buffered + take # BlockSize
  <2> DEFINE t == [s EXCEPT !.rest = @ - take, !.buffered = @ + take, !.pc = "slice"]
  <2>1. t.pc = "slice" /\ t.request = s.request /\ t.read = s.read /\ t.ids = s.ids
    BY <1>2 DEF Upload
  <2>2. Set(u, t)
    BY <1>3, <1>8
  <2> HIDE DEF t
  <2> QED BY <1>7, <2>1, <2>2
<1>9. CASE ~(s.buffered > 0)
  <2> DEFINE t == [s EXCEPT !.pc = "slice"]
  <2>1. t.pc = "slice" /\ t.request = s.request /\ t.read = s.read /\ t.ids = s.ids
    BY <1>2 DEF Upload
  <2>2. Set(u, t)
    BY <1>3, <1>9
  <2> HIDE DEF t
  <2> QED BY <1>7, <2>1, <2>2
<1> QED BY <1>6, <1>8, <1>9

LEMMA SliceShape ==
  ASSUME IInv, Shapes, NEW u \in Uploads, Slice(u) PROVE Shapes'
<1> DEFINE s == up[u]
<1>2. s \in Upload /\ Sound(u, s) /\ Shape(u, s) /\ s.pc = "slice"
  BY DEF IInv, Shapes, Slice
<1>3. IF s.rest >= BlockSize
      THEN Stage(u, [s EXCEPT !.rest = @ - BlockSize], Offset(s), BlockSize, "slice")
      ELSE Set(u, [s EXCEPT !.rest = 0, !.buffered = @ + s.rest, !.pc = "reading"])
  BY DEF Slice
<1>n. s.read \in Nat /\ s.buffered \in Nat /\ s.rest \in Nat /\ s.ids \in Nat
      /\ BlockSize \in Nat \ {0} /\ Length[u] \in Nat
  BY <1>2, Numbers, BlockUploadAssumption
<1> HIDE DEF s
<1>4. /\ Offset(s) = s.ids * BlockSize /\ Offset(s) \in Nat
      /\ s.read <= Length[u] /\ Long(u) /\ Ranged(s.request)
  BY <1>2, <1>n DEF Sound, Cut, Shape
<1>5. CASE s.rest >= BlockSize
  <2> DEFINE t == [s EXCEPT !.rest = @ - BlockSize]
  <2>1. /\ t \in Upload /\ t.request = s.request /\ t.read = s.read /\ t.ids = s.ids
    BY <1>2, <1>5, <1>n DEF Upload
  <2>2. Stage(u, t, Offset(s), BlockSize, "slice")
    BY <1>3, <1>5
  <2> HIDE DEF t
  <2>3. Part(u, s.ids).len = BlockSize
    BY <1>4, <1>5, <1>n, WholePart DEF Offset
  <2> QED BY <1>4, <1>n, <2>1, <2>2, <2>3, StageShape
<1>6. CASE ~(s.rest >= BlockSize)
  <2> DEFINE t == [s EXCEPT !.rest = 0, !.buffered = @ + s.rest, !.pc = "reading"]
  <2>1. t.pc = "reading" /\ t.request = s.request /\ t.read = s.read /\ t.ids = s.ids
    BY <1>2 DEF Upload
  <2>2. Set(u, t)
    BY <1>3, <1>6
  <2> HIDE DEF t
  <2>3. Shape(u, t)
    BY <1>2, <1>4, <2>1 DEF Shape
  <2> QED BY <2>2, <2>3, SetShape
<1> QED BY <1>5, <1>6

(* The last part ends where the stream does. *)
LEMMA LastPart ==
  ASSUME NEW u \in Uploads, NEW i \in Nat, NEW n \in Nat, 0 < n, n < BlockSize,
         i * BlockSize + n = Length[u]
  PROVE  Part(u, i).len = n /\ IsCount(u, i + 1)
<1>1. (i + 1) * BlockSize = i * BlockSize + BlockSize
  BY NextBlock
<1>2. i * BlockSize \in Nat /\ BlockSize \in Nat
  BY BlockUploadAssumption
<1> QED BY <1>1, <1>2 DEF Part, IsCount

LEMMA FullParts ==
  ASSUME NEW u \in Uploads, NEW i \in Nat \ {0}, i * BlockSize = Length[u]
  PROVE  IsCount(u, i)
<1>1. i - 1 \in Nat /\ ((i - 1) + 1) * BlockSize = (i - 1) * BlockSize + BlockSize
  BY NextBlock
<1>2. (i - 1) * BlockSize \in Nat /\ BlockSize \in Nat \ {0} /\ (i - 1) + 1 = i
  BY <1>1, BlockUploadAssumption
<1> QED BY <1>1, <1>2 DEF IsCount

LEMMA EndOfStreamShape ==
  ASSUME IInv, Shapes, NEW u \in Uploads, EndOfStream(u) PROVE Shapes'
<1> DEFINE s == up[u]
           q == [kind |-> "put", upload |-> u, count |-> 0, from |-> 0, len |-> s.buffered]
<1>2. s \in Upload /\ Sound(u, s) /\ Shape(u, s) /\ s.pc = "reading" /\ s.read = Length[u]
  BY DEF IInv, Shapes, EndOfStream
<1>3. IF s.ids = 0 THEN Send(u, s, q, "ok")
      ELSE IF s.buffered > 0
      THEN Stage(u, [s EXCEPT !.buffered = 0], Offset(s), s.buffered, "ending")
      ELSE Set(u, [s EXCEPT !.pc = "ending"])
  BY DEF EndOfStream
<1>n. s.read \in Nat /\ s.buffered \in Nat /\ s.rest \in Nat /\ s.ids \in Nat
      /\ BlockSize \in Nat \ {0} /\ Length[u] \in Nat
  BY <1>2, Numbers, BlockUploadAssumption
<1>q. q.kind = "put" /\ q.upload = u /\ q.from = 0 /\ q.len = s.buffered
  OBVIOUS
<1> HIDE DEF s
<1>5. /\ Offset(s) = s.ids * BlockSize /\ Offset(s) \in Nat /\ Ranged(s.request) /\ s.rest = 0
      /\ (s.ids > 0 => s.buffered < BlockSize /\ Long(u))
      /\ s.ids * BlockSize + s.buffered = Length[u]
  BY <1>2, <1>n DEF Sound, Cut, Shape, Offset
<1>4. CASE s.ids = 0
  <2> DEFINE t == [s EXCEPT !.pc = "sending", !.request = q, !.next = "ok"]
  <2> HIDE DEF q
  <2>1. /\ t.pc = "sending" /\ t.request = q /\ t.next = "ok" /\ t.read = s.read
        /\ t.ids = s.ids
    BY <1>2 DEF Upload
  <2>2. Set(u, t)
    BY <1>3, <1>4 DEF Send
  <2> HIDE DEF t
  <2>3. s.buffered = Length[u]
    BY <1>4, <1>5, <1>n
  <2>4. Shape(u, t)
    BY <1>2, <1>4, <1>n, <1>q, <2>1, <2>3 DEF Shape, Ranged
  <2> QED BY <2>2, <2>4, SetShape
<1>6. CASE s.ids # 0 /\ s.buffered > 0
  <2> DEFINE t == [s EXCEPT !.buffered = 0]
  <2>1. /\ t \in Upload /\ t.request = s.request /\ t.read = s.read /\ t.ids = s.ids
    BY <1>2 DEF Upload
  <2>2. Stage(u, t, Offset(s), s.buffered, "ending")
    BY <1>3, <1>6
  <2> HIDE DEF t
  <2>3. Part(u, s.ids).len = s.buffered /\ IsCount(u, s.ids + 1)
    BY <1>5, <1>6, <1>n, LastPart
  <2>4. Long(u) /\ s.read <= Length[u]
    BY <1>2, <1>5, <1>6, <1>n
  <2> QED BY <1>5, <1>n, <2>1, <2>2, <2>3, <2>4, StageShape
<1>7. CASE s.ids # 0 /\ ~(s.buffered > 0)
  <2> DEFINE t == [s EXCEPT !.pc = "ending"]
  <2>1. t.pc = "ending" /\ t.request = s.request /\ t.read = s.read /\ t.ids = s.ids
    BY <1>2 DEF Upload
  <2>2. Set(u, t)
    BY <1>3, <1>7
  <2> HIDE DEF t
  <2>3. IsCount(u, s.ids)
    BY <1>5, <1>7, <1>n, FullParts
  <2>4. Shape(u, t)
    BY <1>2, <2>1, <2>3 DEF Shape
  <2> QED BY <2>2, <2>4, SetShape
<1> QED BY <1>4, <1>6, <1>7

LEMMA CommitShape ==
  ASSUME IInv, Shapes, NEW u \in Uploads, Commit(u) PROVE Shapes'
<1> DEFINE s == up[u]
           q == [kind |-> "list", upload |-> u, count |-> s.ids, from |-> 0, len |-> 0]
           t == [s EXCEPT !.pc = "sending", !.request = q, !.next = "ok"]
<1>1. s \in Upload /\ Shape(u, s) /\ s.pc = "ending" /\ Set(u, t)
  BY DEF IInv, Shapes, Commit, Send
<1>q. q.kind = "list" /\ q.upload = u /\ q.count = s.ids
  OBVIOUS
<1> HIDE DEF q, s
<1>2. t.pc = "sending" /\ t.request = q /\ t.next = "ok" /\ t.read = s.read /\ t.ids = s.ids
  BY <1>1 DEF Upload
<1> HIDE DEF t
<1>3. IsCount(u, s.ids) /\ s.ids > 0 /\ Long(u)
  BY <1>1 DEF Shape, IsCount
<1>4. Shape(u, t)
  BY <1>1, <1>2, <1>3, <1>q DEF Shape, Ranged
<1> QED BY <1>1, <1>4, SetShape

(* Whether it is answered, refused or given up, what was cut stays cut. *)
LEMMA AnswerShape ==
  ASSUME IInv, Shapes, NEW u \in Uploads, Begin(u) \/ Serve(u) \/ Reject(u) \/ GiveUp(u)
  PROVE  Shapes'
<1> DEFINE s == up[u]
<1>1. s \in Upload /\ Shape(u, s) /\ Sound(u, s)
  BY DEF IInv, Shapes
<1>2. PICK t : Set(u, t) /\ t.read = s.read /\ t.ids = s.ids
               /\ t.request \in {s.request, Nothing(u)}
               /\ \/ t.pc \in {"reading", "failed"}
                  \/ s.pc = "sending" /\ t.pc = s.next
  <2>1. CASE Begin(u)
    <3>1. PICK x \in {"reading", "failed"} : Set(u, [up[u] EXCEPT !.pc = x])
      BY <2>1 DEF Begin
    <3> WITNESS [up[u] EXCEPT !.pc = x]
    <3> QED BY <1>1, <3>1 DEF Upload
  <2>2. CASE Serve(u)
    <3> WITNESS [up[u] EXCEPT !.pc = up[u].next, !.request = Nothing(u)]
    <3> QED BY <1>1, <2>2 DEF Upload, Serve
  <2>3. CASE Reject(u) \/ GiveUp(u)
    <3> WITNESS [up[u] EXCEPT !.pc = "failed", !.request = Nothing(u)]
    <3> QED BY <1>1, <2>3 DEF Upload, Reject, GiveUp
  <2> QED BY <2>1, <2>2, <2>3
<1>n. s.next \in {"flush", "slice", "ending", "ok"} /\ s.ids \in Nat /\ s.request.count \in Nat
  BY <1>1, Numbers DEF Upload, Request
<1> HIDE DEF s
<1>3. Ranged(Nothing(u))
  BY DEF Ranged, Nothing
<1>4. Ranged(t.request)
  BY <1>1, <1>2, <1>3 DEF Shape
<1>5. Shape(u, t)
  <2>1. CASE t.pc \in {"reading", "failed"}
    BY <1>1, <1>2, <1>4, <2>1 DEF Shape
  <2>2. CASE s.pc = "sending" /\ t.pc = s.next
    <3>1. s.next # "ok" => s.ids > 0
      BY <1>1, <1>n, <2>2 DEF Shape
    <3> QED BY <1>1, <1>2, <1>4, <1>n, <2>2, <3>1 DEF Shape
  <2> QED BY <1>2, <2>1, <2>2
<1> QED BY <1>2, <1>5, SetShape

LEMMA ShapeNext == IInv /\ ShapeInv /\ [Next]_vars => ShapeInv'
<1> SUFFICES ASSUME IInv, ShapeInv, [Next]_vars PROVE ShapeInv'
  OBVIOUS
<1>0. Shapes /\ \A q \in strays : Ranged(q) /\ q.upload \in Late /\ q.kind # "none"
  BY DEF ShapeInv
<1>1. ASSUME UNCHANGED up PROVE Shapes'
  BY <1>0, <1>1 DEF Shapes, Shape, Ranged, IsCount, Long, Part, PieceOf
<1>2. ASSUME strays' \subseteq strays, Shapes' PROVE ShapeInv'
  BY <1>0, <1>2 DEF ShapeInv, Ranged, IsCount, Long, Part, PieceOf
<1>3. ASSUME NEW u \in Uploads, Step(u), ~Lose(u) PROVE ShapeInv'
  <2>1. Shapes'
    BY <1>0, <1>3, ReadChunkShape, FlushShape, FillShape, SliceShape, EndOfStreamShape,
       CommitShape, AnswerShape DEF Step
  <2>2. strays' = strays
    BY <1>3 DEF Step, Begin, ReadChunk, Flush, Fill, Slice, EndOfStream, Commit, Serve, Reject,
                GiveUp
  <2> QED BY <1>2, <2>1, <2>2
<1>4. ASSUME NEW u \in Uploads, Lose(u) PROVE ShapeInv'
  <2>1. Shapes'
    BY <1>1, <1>4 DEF Lose
  <2>2. Ranged(up[u].request) /\ up[u].request.kind # "none" /\ up[u].request.upload = u
    BY <1>0, <1>4 DEF Shapes, Shape, Lose, IInv, Sound
  <2>3. ASSUME NEW q \in strays' PROVE Ranged(q) /\ q.upload \in Late /\ q.kind # "none"
    BY <1>0, <1>4, <2>2 DEF Lose
  <2> QED BY <2>1, <2>3 DEF ShapeInv, Ranged, IsCount, Long, Part, PieceOf
<1>5. ASSUME (\E q \in strays : Arrive(q)) \/ DeleteBlob PROVE ShapeInv'
  BY <1>1, <1>2, <1>5 DEF Arrive, DeleteBlob
<1>6. CASE UNCHANGED vars
  BY <1>1, <1>2, <1>6 DEF vars
<1> QED BY <1>3, <1>4, <1>5, <1>6 DEF Next

LEMMA ShapeInit == Init => ShapeInv
<1> SUFFICES ASSUME Init PROVE ShapeInv
  OBVIOUS
<1>1. ASSUME NEW u \in Uploads PROVE Shape(u, up[u])
  <2>1. up[u].pc \in {"idle", "failed"} /\ up[u].read = 0 /\ up[u].ids = 0
        /\ up[u].request = Nothing(u)
    BY DEF Init
  <2>2. Ranged(Nothing(u))
    BY DEF Ranged, Nothing
  <2> QED BY <2>1, <2>2, BlockUploadAssumption DEF Shape
<1> QED BY <1>1 DEF ShapeInv, Shapes, Init

-----------------------------------------------------------------------------
(* Whose blocks a list finds.  The ids are the same in every upload, so a long *)
(* upload can rely on the blocks it staged only if none that is long, too, runs *)
(* beside it or has requests that arrive late.                                  *)
Apart(u, v) == {u, v} \cap Alone # {} /\ {u, v} \cap Late = {}

(* No other upload of the company stages blocks *)
Sole(u, company) == \A v \in company \ {u} : ~Long(v)

Clear(u, company) == \A v \in company \ {u} : Long(v) => Apart(u, v)

(* The blocks an upload has staged for certain *)
Confirmed(s) == IF s.pc = "sending" /\ s.request.kind = "block" THEN s.ids - 1 ELSE s.ids

(* The ids under which nothing but an upload's own part may be found *)
Claims(u, company, i) == Sole(u, company) \/ (Active(u) /\ i < Confirmed(up[u]))

(* Its own part is under the id, or none at all *)
Own(u, i) == Latest(i) = NoPiece \/ Latest(i) = Part(u, i)

TurnInv ==
  \A u, v \in Uploads : u # v /\ Active(u) /\ Active(v) => u \notin Alone /\ v \notin Alone

Met(company) ==
  /\ \A u \in Uploads \ company : up[u].pc = "failed"
  /\ \A q \in strays : q.upload \in company

OwnInv(company) ==
  \A u \in company : Clear(u, company) =>
    \A i \in Ids : Claims(u, company, i) => Own(u, i)

(* The requests the service may yet see *)
Asked(q) == q \in strays \/ \E v \in Uploads : up[v].pc = "sending" /\ q = up[v].request

LEMMA AskedSound ==
  ASSUME IInv, ShapeInv, NEW company \in Companies, Met(company), NEW q, Asked(q)
  PROVE  /\ q \in Request /\ Valid(q) /\ Ranged(q) /\ q.kind # "none"
         /\ q.upload \in company /\ q.upload \in Uploads
         /\ q \in strays => q.upload \in Late
         /\ q \notin strays => Active(q.upload) /\ q = up[q.upload].request
                               /\ up[q.upload].pc = "sending"
<1>0. company \subseteq Uploads
  BY BlockUploadAssumption
<1>1. CASE q \in strays
  BY <1>0, <1>1 DEF IInv, Service, Valid, ShapeInv, Met
<1>2. CASE q \notin strays
  <2>1. PICK v \in Uploads : up[v].pc = "sending" /\ q = up[v].request
    BY <1>2 DEF Asked
  <2>2. Sound(v, up[v]) /\ Shape(v, up[v])
    BY DEF IInv, ShapeInv, Shapes
  <2>3. q.upload = v /\ Valid(q) /\ q \in Request /\ Ranged(q) /\ q.kind # "none"
    BY <2>1, <2>2 DEF Sound, Shape, Valid
  <2>4. v \in company
    BY <2>1 DEF Met
  <2> QED BY <1>2, <2>1, <2>3, <2>4 DEF Active
<1> QED BY <1>1, <1>2

(* What an upload's list names, when the service accepts it, are its own parts. *)
LEMMA ListIsOwn ==
  ASSUME IInv, ShapeInv, NEW company \in Companies, Met(company), OwnInv(company),
         NEW q, Asked(q), q.kind = "list", Accepts(q), Clear(q.upload, company),
         NEW j \in 0..(q.count - 1)
  PROVE  Latest(j) = Part(q.upload, j)
<1> DEFINE u == q.upload
<1>1. /\ q \in Request /\ Valid(q) /\ u \in company
      /\ q \in strays => u \in Late
      /\ q \notin strays => Active(u) /\ q = up[u].request /\ up[u].pc = "sending"
      /\ u \in Uploads
  BY AskedSound
<1>2. j \in Ids /\ q.count \in Nat /\ j < q.count
  BY <1>1, BlockUploadAssumption DEF Valid, Ids, Request
<1>3. CASE q \in strays
  <2>1. Sole(u, company)
    BY <1>1, <1>3 DEF Sole, Clear, Apart
  <2> QED BY <1>1, <1>2, <2>1 DEF OwnInv, Claims, Own, Accepts
<1>4. CASE q \notin strays
  <2>1. up[u].pc = "sending" /\ up[u].request.kind = "list" /\ up[u].request.count = q.count
    BY <1>1, <1>4
  <2>2. Confirmed(up[u]) = q.count
    BY <1>1, <2>1 DEF Confirmed, ShapeInv, Shapes, Shape
  <2> QED BY <1>1, <1>2, <1>4, <2>2 DEF OwnInv, Claims, Own, Accepts
<1> QED BY <1>3, <1>4

LEMMA PartIsPiece ==
  ASSUME NEW u \in Uploads, NEW i \in Nat, NEW p, p = Part(u, i) PROVE p # NoPiece
BY DEF Part, NoPiece

(* Whatever the service carries out leaves under an id that is claimed the *)
(* claimant's own part, or nothing.                                        *)
LEMMA CarryOutOwn ==
  ASSUME IInv, ShapeInv, TurnInv, NEW company \in Companies, Met(company), OwnInv(company),
         NEW q, Asked(q), Accepts(q), CarryOut(q),
         NEW u \in company, Clear(u, company), NEW i \in Ids,
         Claims(u, company, i)
           \/ (Active(u) /\ q.upload = u /\ q.kind = "block" /\ i = q.count)
  PROVE  Own(u, i)'
<1> DEFINE v == q.upload
<1>1. /\ q \in Request /\ Valid(q) /\ Ranged(q) /\ q.kind # "none"
      /\ v \in company /\ v \in Uploads
      /\ q \in strays => v \in Late
      /\ q \notin strays => Active(v)
  BY AskedSound
<1>u. u \in Uploads /\ i \in Nat /\ q.count \in Nat
  BY <1>1, BlockUploadAssumption DEF Ids, Request
<1>2. CASE q.kind = "put"
  <2>1. Replace(<<PieceOf(q)>>, FALSE)
    BY <1>2 DEF CarryOut
  <2>2. staged'[i] = NoPiece /\ blob'.listed = FALSE
    BY <2>1 DEF Replace
  <2>3. Latest(i)' = NoPiece
    BY <2>2 DEF Latest
  <2> QED BY <2>3 DEF Own
<1>3. ASSUME q.kind \in {"block", "list"}, v # u PROVE FALSE
  <2>1. Long(v)
    BY <1>1, <1>3 DEF Ranged
  <2>2. Apart(u, v) /\ ~Sole(u, company)
    BY <1>1, <1>3, <2>1 DEF Clear, Sole
  <2>3. Active(u) /\ Active(v)
    BY <1>1, <1>3, <2>2 DEF Claims, Apart
  <2> QED BY <1>1, <1>3, <1>u, <2>2, <2>3 DEF TurnInv, Apart
<1>4. CASE q.kind = "block" /\ v = u
  <2>1. staged' = [staged EXCEPT ![q.count] = PieceOf(q)] /\ blob' = blob
    BY <1>4 DEF CarryOut
  <2>2. staged \in [Ids -> Piece \cup {NoPiece}]
    BY DEF IInv, Service
  <2>3. CASE i = q.count
    <3>1. staged'[i] = Part(u, i)
      BY <1>1, <1>4, <2>1, <2>2, <2>3 DEF Ranged
    <3>2. staged'[i] # NoPiece
      BY <1>u, <3>1, PartIsPiece
    <3>3. Latest(i)' = Part(u, i)
      BY <3>1, <3>2 DEF Latest
    <3> QED BY <3>3 DEF Own, Part
  <2>4. CASE i # q.count
    <3>1. staged'[i] = staged[i]
      BY <2>1, <2>2, <2>4
    <3>2. Latest(i)' = Latest(i)
      BY <2>1, <3>1 DEF Latest
    <3>3. Own(u, i)
      BY <2>4 DEF OwnInv
    <3> QED BY <3>2, <3>3 DEF Own, Part
  <2> QED BY <2>3, <2>4
<1>5. CASE q.kind = "list" /\ v = u
  <2> DEFINE pieces == [k \in 1..q.count |-> Latest(k - 1)]
  <2>1. Replace(pieces, TRUE)
    BY <1>5 DEF CarryOut
  <2>2. Len(pieces) = q.count /\ \A k \in 1..q.count : pieces[k] = Latest(k - 1)
    BY <1>u
  <2> HIDE DEF pieces
  <2>3. staged'[i] = NoPiece /\ blob'.listed = TRUE /\ blob'.pieces = pieces
    BY <2>1 DEF Replace
  <2>4. CASE i < q.count
    <3>1. i + 1 \in 1..q.count /\ (i + 1) - 1 = i /\ i \in 0..(q.count - 1)
      BY <1>u, <2>4
    <3>2. Latest(i) = Part(u, i)
      BY <1>5, <3>1, ListIsOwn
    <3>3. pieces[i + 1] = Latest(i)
      BY <2>2, <3>1
    <3>4. Latest(i)' = pieces[i + 1]
      BY <2>2, <2>3, <2>4 DEF Latest
    <3> QED BY <3>2, <3>3, <3>4 DEF Own, Part
  <2>5. CASE ~(i < q.count)
    <3>1. Latest(i)' = NoPiece
      BY <2>2, <2>3, <2>5 DEF Latest
    <3> QED BY <3>1 DEF Own
  <2> QED BY <2>4, <2>5
<1> QED BY <1>1, <1>2, <1>3, <1>4, <1>5 DEF Request

(* An upload changes its own state only, and only after it has begun. *)
LEMMA StepIsOwn ==
  ASSUME IInv, NEW u \in Uploads, Step(u)
  PROVE  /\ \A v \in Uploads \ {u} : up'[v] = up[v]
         /\ up[u].pc # "failed"
         /\ Begin(u) \/ Active(u)
<1>1. up \in [Uploads -> Upload]
  BY DEF IInv
<1>2. \/ Begin(u) \/ Lose(u)
      \/ ReadChunk(u) \/ Flush(u) \/ Fill(u) \/ Slice(u)
      \/ EndOfStream(u) \/ Commit(u) \/ Serve(u) \/ Reject(u) \/ GiveUp(u)
  BY DEF Step
<1>3. ASSUME NEW s, Set(u, s) PROVE \A v \in Uploads \ {u} : up'[v] = up[v]
  BY <1>1, <1>3 DEF Set
<1>4. ASSUME NEW s, NEW from, NEW len, NEW next, Stage(u, s, from, len, next)
      PROVE  \A v \in Uploads \ {u} : up'[v] = up[v]
  BY <1>3, <1>4 DEF Stage, Send
<1>5. \A v \in Uploads \ {u} : up'[v] = up[v]
  <2>1. CASE Begin(u) \/ Lose(u)
    BY <1>3, <2>1 DEF Begin, Lose
  <2>2. CASE ReadChunk(u) \/ Commit(u)
    BY <1>3, <2>2 DEF ReadChunk, Commit, Send
  <2>3. CASE Flush(u) \/ Slice(u)
    BY <1>3, <1>4, <2>3 DEF Flush, Slice
  <2>4. CASE Fill(u)
    BY <1>3, <1>4, <2>4 DEF Fill
  <2>5. CASE EndOfStream(u)
    BY <1>3, <1>4, <2>5 DEF EndOfStream, Send
  <2>6. CASE Serve(u) \/ Reject(u) \/ GiveUp(u)
    BY <1>3, <2>6 DEF Serve, Reject, GiveUp
  <2> QED BY <1>2, <2>1, <2>2, <2>3, <2>4, <2>5, <2>6
<1>6. up[u].pc # "failed" /\ (Begin(u) \/ Active(u))
  BY <1>2 DEF Begin, Lose, ReadChunk, Flush, Fill, Slice, EndOfStream, Commit, Serve, Reject,
              GiveUp, Active
<1> QED BY <1>5, <1>6

(* A block is sent under the next id, or there is none left. *)
LEMMA StageSends ==
  ASSUME IInv, NEW u \in Uploads, NEW t \in Upload, NEW from, NEW len, NEW next,
         Stage(u, t, from, len, next)
  PROVE  \/ up'[u].pc = "failed"
         \/ /\ up'[u].pc = "sending" /\ up'[u].request.kind = "block"
            /\ up'[u].ids = t.ids + 1
<1>1. up \in [Uploads -> Upload]
  BY DEF IInv
<1>2. CASE t.ids >= MaxBlocks
  BY <1>1, <1>2 DEF Stage, Set, Upload
<1>3. CASE ~(t.ids >= MaxBlocks)
  <2> DEFINE q == [kind |-> "block", upload |-> u, count |-> t.ids, from |-> from, len |-> len]
             c == [t EXCEPT !.ids = @ + 1]
             r == [c EXCEPT !.pc = "sending", !.request = q, !.next = next]
  <2>1. Set(u, r)
    BY <1>3 DEF Stage, Send
  <2>2. r.pc = "sending" /\ r.request.kind = "block" /\ r.ids = t.ids + 1
    BY DEF Upload
  <2> HIDE DEF r
  <2>3. up'[u] = r
    BY <1>1, <2>1 DEF Set
  <2> QED BY <2>2, <2>3
<1> QED BY <1>2, <1>3

(* What an upload does with its stream: it sends a block, goes on without, or *)
(* has run out of ids.                                                        *)
Cutting(u) ==
  ReadChunk(u) \/ Flush(u) \/ Fill(u) \/ Slice(u) \/ EndOfStream(u) \/ Commit(u)

LEMMA CuttingMoves ==
  ASSUME IInv, NEW u \in Uploads, Cutting(u)
  PROVE  /\ Active(u) /\ up[u].pc # "sending"
         /\ \/ up'[u].pc = "failed"
            \/ /\ up'[u].pc = "sending" /\ up'[u].request.kind = "block"
               /\ up'[u].ids = up[u].ids + 1
            \/ /\ up'[u].ids = up[u].ids /\ up'[u].pc # "ok"
               /\ up'[u].pc = "sending" => up'[u].request.kind # "block"
<1> DEFINE s == up[u]
           Moved == \/ up'[u].pc = "failed"
                    \/ /\ up'[u].pc = "sending" /\ up'[u].request.kind = "block"
                       /\ up'[u].ids = s.ids + 1
                    \/ /\ up'[u].ids = s.ids /\ up'[u].pc # "ok"
                       /\ up'[u].pc = "sending" => up'[u].request.kind # "block"
<1>1. up \in [Uploads -> Upload] /\ s \in Upload
  BY DEF IInv
<1>2. ASSUME NEW t, t.ids = s.ids, Set(u, t), t.pc # "ok",
             t.pc # "sending" \/ t.request.kind # "block"
      PROVE  Moved
  BY <1>1, <1>2 DEF Set
<1>3. ASSUME NEW t \in Upload, t.ids = s.ids, NEW from, NEW len, NEW next,
             Stage(u, t, from, len, next)
      PROVE  Moved
  BY <1>3, StageSends
<1>4. s.pc \in {"reading", "flush", "fill", "slice", "ending"}
  BY DEF Cutting, ReadChunk, Flush, Fill, Slice, EndOfStream, Commit
<1>n. s.read \in Nat /\ s.buffered \in Nat /\ s.rest \in Nat /\ s.ids \in Nat
      /\ BlockSize \in Nat \ {0}
  BY <1>1, Numbers, BlockUploadAssumption
<1>5. Moved
  <2>5. CASE ReadChunk(u)
    <3>1. PICK n \in 1..MaxChunk :
            \/ Set(u, [s EXCEPT !.read = @ + n, !.buffered = @ + n])
            \/ Set(u, [s EXCEPT !.read = @ + n, !.rest = n,
                                !.pc = IF s.ids = 0 THEN "flush" ELSE "fill"])
      BY <2>5 DEF ReadChunk
    <3>2. s.pc = "reading"
      BY <2>5 DEF ReadChunk
    <3>3. CASE Set(u, [s EXCEPT !.read = @ + n, !.buffered = @ + n])
      <4> DEFINE t == [s EXCEPT !.read = @ + n, !.buffered = @ + n]
      <4>1. t.ids = s.ids /\ t.pc = "reading" /\ Set(u, t)
        BY <1>1, <3>2, <3>3 DEF Upload
      <4> HIDE DEF t, s, Moved
      <4> QED BY <1>2, <4>1
    <3>4. CASE Set(u, [s EXCEPT !.read = @ + n, !.rest = n,
                                !.pc = IF s.ids = 0 THEN "flush" ELSE "fill"])
      <4> DEFINE t == [s EXCEPT !.read = @ + n, !.rest = n,
                                !.pc = IF s.ids = 0 THEN "flush" ELSE "fill"]
      <4>1. t.ids = s.ids /\ t.pc \in {"flush", "fill"} /\ Set(u, t)
        BY <1>1, <3>4 DEF Upload
      <4> HIDE DEF t, s, Moved
      <4> QED BY <1>2, <4>1
    <3> QED BY <3>1, <3>3, <3>4
  <2>6. CASE Flush(u)
    <3>1. CASE s.buffered >= BlockSize
      <4> DEFINE t == [s EXCEPT !.buffered = @ - BlockSize]
      <4>1. t \in Upload /\ t.ids = s.ids
        BY <1>1, <1>n, <3>1 DEF Upload
      <4>2. Stage(u, t, Offset(s), BlockSize, "flush")
        BY <2>6, <3>1 DEF Flush
      <4> HIDE DEF t, s, Moved
      <4> QED BY <1>3, <4>1, <4>2
    <3>2. CASE ~(s.buffered >= BlockSize)
      <4> DEFINE t == [s EXCEPT !.pc = "fill"]
      <4>1. t.ids = s.ids /\ t.pc = "fill"
        BY <1>1 DEF Upload
      <4>2. Set(u, t)
        BY <2>6, <3>2 DEF Flush
      <4> HIDE DEF t, s, Moved
      <4> QED BY <1>2, <4>1, <4>2
    <3> QED BY <3>1, <3>2
  <2>7. CASE Fill(u)
    <3> DEFINE room == BlockSize - s.buffered
               take == IF s.rest < room THEN s.rest ELSE room
    <3>0. s.rest - take \in Nat
      BY <1>n
    <3>1. CASE s.buffered > 0 /\ s.buffered + take = BlockSize
      <4> DEFINE t == [s EXCEPT !.rest = @ - take, !.buffered = 0]
      <4>1. t \in Upload /\ t.ids = s.ids
        BY <1>1, <3>0 DEF Upload
      <4>2. Stage(u, t, Offset(s), BlockSize, "slice")
        BY <2>7, <3>1 DEF Fill
      <4> HIDE DEF t, s, Moved
      <4> QED BY <1>3, <4>1, <4>2
    <3>2. CASE s.buffered > 0 /\ s.buffered + take # BlockSize
      <4> DEFINE t == [s EXCEPT !.rest = @ - take, !.buffered = @ + take, !.pc = "slice"]
      <4>1. t.ids = s.ids /\ t.pc = "slice"
        BY <1>1 DEF Upload
      <4>2. Set(u, t)
        BY <2>7, <3>2 DEF Fill
      <4> HIDE DEF t, s, Moved
      <4> QED BY <1>2, <4>1, <4>2
    <3>3. CASE ~(s.buffered > 0)
      <4> DEFINE t == [s EXCEPT !.pc = "slice"]
      <4>1. t.ids = s.ids /\ t.pc = "slice"
        BY <1>1 DEF Upload
      <4>2. Set(u, t)
        BY <2>7, <3>3 DEF Fill
      <4> HIDE DEF t, s, Moved
      <4> QED BY <1>2, <4>1, <4>2
    <3> QED BY <3>1, <3>2, <3>3
  <2>8. CASE Slice(u)
    <3>1. CASE s.rest >= BlockSize
      <4> DEFINE t == [s EXCEPT !.rest = @ - BlockSize]
      <4>1. t \in Upload /\ t.ids = s.ids
        BY <1>1, <1>n, <3>1 DEF Upload
      <4>2. Stage(u, t, Offset(s), BlockSize, "slice")
        BY <2>8, <3>1 DEF Slice
      <4> HIDE DEF t, s, Moved
      <4> QED BY <1>3, <4>1, <4>2
    <3>2. CASE ~(s.rest >= BlockSize)
      <4> DEFINE t == [s EXCEPT !.rest = 0, !.buffered = @ + s.rest, !.pc = "reading"]
      <4>1. t.ids = s.ids /\ t.pc = "reading"
        BY <1>1 DEF Upload
      <4>2. Set(u, t)
        BY <2>8, <3>2 DEF Slice
      <4> HIDE DEF t, s, Moved
      <4> QED BY <1>2, <4>1, <4>2
    <3> QED BY <3>1, <3>2
  <2>9. CASE EndOfStream(u)
    <3> DEFINE q == [kind |-> "put", upload |-> u, count |-> 0, from |-> 0, len |-> s.buffered]
    <3>1. CASE s.ids = 0
      <4> DEFINE t == [s EXCEPT !.pc = "sending", !.request = q, !.next = "ok"]
      <4>1. t.ids = s.ids /\ t.pc = "sending" /\ t.request.kind # "block"
        BY <1>1 DEF Upload
      <4>2. Set(u, t)
        BY <2>9, <3>1 DEF EndOfStream, Send
      <4> HIDE DEF t, s, Moved
      <4> QED BY <1>2, <4>1, <4>2
    <3>2. CASE s.ids # 0 /\ s.buffered > 0
      <4> DEFINE t == [s EXCEPT !.buffered = 0]
      <4>1. t \in Upload /\ t.ids = s.ids
        BY <1>1, <1>n DEF Upload
      <4>2. Stage(u, t, Offset(s), s.buffered, "ending")
        BY <2>9, <3>2 DEF EndOfStream
      <4> HIDE DEF t, s, Moved
      <4> QED BY <1>3, <4>1, <4>2
    <3>3. CASE s.ids # 0 /\ ~(s.buffered > 0)
      <4> DEFINE t == [s EXCEPT !.pc = "ending"]
      <4>1. t.ids = s.ids /\ t.pc = "ending"
        BY <1>1 DEF Upload
      <4>2. Set(u, t)
        BY <2>9, <3>3 DEF EndOfStream
      <4> HIDE DEF t, s, Moved
      <4> QED BY <1>2, <4>1, <4>2
    <3> QED BY <3>1, <3>2, <3>3
  <2>10. CASE Commit(u)
    <3> DEFINE q == [kind |-> "list", upload |-> u, count |-> s.ids, from |-> 0, len |-> 0]
               t == [s EXCEPT !.pc = "sending", !.request = q, !.next = "ok"]
    <3>1. t.ids = s.ids /\ t.pc = "sending" /\ t.request.kind # "block"
      BY <1>1 DEF Upload
    <3>2. Set(u, t)
      BY <2>10 DEF Commit, Send
    <3> HIDE DEF t, s, Moved
    <3> QED BY <1>2, <3>1, <3>2
  <2> QED BY <2>5, <2>6, <2>7, <2>8, <2>9, <2>10 DEF Cutting
<1> QED BY <1>4, <1>5 DEF Active

(* A request that is only sent confirms nothing. *)
LEMMA NothingConfirmed ==
  ASSUME IInv, NEW u \in Uploads, Step(u), ~Serve(u), Active(u)'
  PROVE  \/ Active(u) /\ Confirmed(up[u])' <= Confirmed(up[u])
         \/ ~Active(u) /\ Confirmed(up[u])' = 0
<1>1. up \in [Uploads -> Upload] /\ up[u] \in Upload /\ Sound(u, up[u]) /\ up[u].ids \in Nat
  BY Numbers DEF IInv
<1>2. CASE Cutting(u)
  <2>1. Active(u) /\ Confirmed(up[u]) = up[u].ids
    BY <1>2, CuttingMoves DEF Confirmed
  <2>2. Confirmed(up[u])' = up[u].ids
    BY <1>1, <1>2, CuttingMoves DEF Confirmed, Active
  <2> QED BY <1>1, <2>1, <2>2
<1>3. CASE Begin(u)
  <2>1. up[u].ids = 0 /\ ~Active(u)
    BY <1>1, <1>3 DEF Sound, Cut, Begin, Active
  <2>2. up'[u].pc = "reading" /\ up'[u].ids = 0
    BY <1>1, <1>3, <2>1 DEF Begin, Set, Upload, Active
  <2> QED BY <2>1, <2>2 DEF Confirmed
<1>4. CASE Reject(u) \/ GiveUp(u)
  BY <1>1, <1>4 DEF Reject, GiveUp, Set, Upload, Active
<1>5. CASE Lose(u)
  <2>1. Confirmed(up[u])' = Confirmed(up[u]) /\ Active(u) /\ Confirmed(up[u]) \in Int
    BY <1>1, <1>5 DEF Lose, Confirmed, Active
  <2> QED BY <2>1
<1> QED BY <1>2, <1>3, <1>4, <1>5 DEF Step, Cutting

LEMMA ConfirmedNumber ==
  ASSUME NEW s \in Upload PROVE Confirmed(s) \in Int
BY Numbers DEF Confirmed

LEMMA NumbersConfirmed ==
  ASSUME IInv, IInv', NEW u \in Uploads
  PROVE  Confirmed(up[u]) \in Int /\ Confirmed(up[u])' \in Int
<1>1. up[u] \in Upload /\ up'[u] \in Upload
  BY DEF IInv, Upload, Request
<1>2. Confirmed(up[u]) \in Int
  BY <1>1, ConfirmedNumber
<1>3. Confirmed(up'[u]) \in Int
  BY <1>1, ConfirmedNumber
<1>4. Confirmed(up[u])' = Confirmed(up'[u])
  BY DEF Confirmed
<1> QED BY <1>2, <1>3, <1>4

(* A new claim is made only by the block that has just been answered. *)
LEMMA ClaimsBefore ==
  ASSUME IInv, IInv', ShapeInv, NEW u \in Uploads, NEW company, NEW i \in Ids,
         NEW w \in Uploads, Step(w), Claims(u, company, i)'
  PROVE  \/ Claims(u, company, i)
         \/ w = u /\ Active(u) /\ up[u].request.kind = "block" /\ i = up[u].request.count
<1>i. i \in Nat
  BY BlockUploadAssumption DEF Ids
<1>1. CASE Sole(u, company)
  BY <1>1 DEF Claims
<1>2. CASE ~Sole(u, company)
  <2>1. Active(u)' /\ i < Confirmed(up[u])'
    BY <1>2 DEF Claims, Sole, Long
  <2>2. CASE w # u
    <3>1. up'[u] = up[u]
      BY <2>2, StepIsOwn
    <3> QED BY <2>1, <3>1 DEF Claims, Active, Confirmed
  <2>3. CASE w = u /\ ~Serve(u)
    <3>1. \/ Active(u) /\ Confirmed(up[u])' <= Confirmed(up[u])
          \/ ~Active(u) /\ Confirmed(up[u])' = 0
      BY <2>1, <2>3, NothingConfirmed
    <3>2. Confirmed(up[u]) \in Int /\ Confirmed(up[u])' \in Int
      BY NumbersConfirmed
    <3> QED BY <1>i, <2>1, <3>1, <3>2 DEF Claims
  <2>4. CASE w = u /\ Serve(u)
    <3>1. up[u] \in Upload /\ Shape(u, up[u]) /\ up[u].pc = "sending" /\ up \in [Uploads -> Upload]
      BY <2>4 DEF IInv, ShapeInv, Shapes, Serve
    <3>2. up'[u].pc = up[u].next /\ up'[u].ids = up[u].ids /\ up[u].next # "sending"
      BY <2>4, <3>1 DEF Serve, Set, Upload
    <3>3. Confirmed(up[u])' = up[u].ids
      BY <3>2 DEF Confirmed
    <3>4. Active(u)
      BY <3>1 DEF Active
    <3>5. CASE up[u].request.kind # "block"
      <4>1. Confirmed(up[u]) = up[u].ids
        BY <3>5 DEF Confirmed
      <4> QED BY <2>1, <3>3, <3>4, <4>1 DEF Claims
    <3>6. CASE up[u].request.kind = "block"
      <4>1. up[u].ids = up[u].request.count + 1 /\ Confirmed(up[u]) = up[u].ids - 1
        BY <3>1, <3>6 DEF Shape, Confirmed
      <4>2. up[u].ids \in Nat /\ up[u].request.count \in Nat
        BY <3>1, Numbers DEF Upload, Request
      <4>3. i = up[u].request.count \/ i < Confirmed(up[u])
        BY <1>i, <2>1, <3>3, <4>1, <4>2
      <4> QED BY <2>4, <3>4, <3>6, <4>3 DEF Claims
    <3> QED BY <3>5, <3>6
  <2> QED BY <2>2, <2>3, <2>4
<1> QED BY <1>1, <1>2

LEMMA OwnNext ==
  ASSUME IInv, IInv', ShapeInv, TurnInv, NEW company \in Companies, Met(company),
         OwnInv(company), Next
  PROVE  OwnInv(company)'
<1> SUFFICES ASSUME NEW u \in company, Clear(u, company), NEW i \in Ids,
                    Claims(u, company, i)'
             PROVE  Own(u, i)'
  BY DEF OwnInv, Clear, Apart, Long, Ids
<1>u. u \in Uploads
  BY BlockUploadAssumption
<1>1. ASSUME UNCHANGED <<blob, staged>>, Claims(u, company, i) PROVE Own(u, i)'
  <2>1. Own(u, i)
    BY <1>1 DEF OwnInv
  <2>2. Latest(i)' = Latest(i)
    BY <1>1 DEF Latest
  <2> QED BY <2>1, <2>2 DEF Own, Part
<1>2. ASSUME UNCHANGED up PROVE Claims(u, company, i)
  BY <1>2 DEF Claims, Sole, Long, Active, Confirmed
<1>3. ASSUME NEW w \in Uploads, Step(w) PROVE Own(u, i)'
  <2>1. \/ Claims(u, company, i)
        \/ w = u /\ Active(u) /\ up[u].request.kind = "block" /\ i = up[u].request.count
    BY <1>3, <1>u, ClaimsBefore
  <2>2. CASE up[w].pc = "sending" /\ Accepts(up[w].request) /\ CarryOut(up[w].request)
    <3>1. Asked(up[w].request) /\ up[w].request.upload = w
      BY <2>2 DEF Asked, IInv, Sound
    <3>2. \/ Claims(u, company, i)
          \/ Active(u) /\ up[w].request.upload = u /\ up[w].request.kind = "block"
             /\ i = up[w].request.count
      BY <2>1, <3>1
    <3> QED BY <2>2, <3>1, <3>2, CarryOutOwn
  <2>3. CASE ~(up[w].pc = "sending" /\ Accepts(up[w].request) /\ CarryOut(up[w].request))
    <3>1. UNCHANGED <<blob, staged>> /\ ~Serve(w)
      BY <1>3, <2>3 DEF Step, Begin, ReadChunk, Flush, Fill, Slice, EndOfStream, Commit, Serve,
                        Reject, Lose, GiveUp
    <3>2. Claims(u, company, i)
      <4>1. CASE Sole(u, company)
        BY <4>1 DEF Claims
      <4>2. CASE ~Sole(u, company) /\ w # u
        <5>1. up'[u] = up[u]
          BY <1>3, <1>u, <4>2, StepIsOwn
        <5> QED BY <5>1, <4>2 DEF Claims, Active, Confirmed, Sole, Long
      <4>3. CASE ~Sole(u, company) /\ w = u
        <5>1. Active(u)' /\ i < Confirmed(up[u])'
          BY <4>3 DEF Claims, Sole, Long
        <5>2. \/ Active(u) /\ Confirmed(up[u])' <= Confirmed(up[u])
              \/ ~Active(u) /\ Confirmed(up[u])' = 0
          BY <1>3, <1>u, <3>1, <4>3, <5>1, NothingConfirmed
        <5>3. Confirmed(up[u]) \in Int /\ Confirmed(up[u])' \in Int /\ i \in Nat
          BY <1>u, NumbersConfirmed, BlockUploadAssumption DEF Ids
        <5> QED BY <5>1, <5>2, <5>3 DEF Claims
      <4> QED BY <4>1, <4>2, <4>3
    <3> QED BY <1>1, <3>1, <3>2
  <2> QED BY <2>2, <2>3
<1>4. ASSUME NEW q \in strays, Arrive(q) PROVE Own(u, i)'
  <2>1. Asked(q) /\ UNCHANGED up
    BY <1>4 DEF Asked, Arrive
  <2>2. Claims(u, company, i)
    BY <1>2, <2>1
  <2>3. CASE Accepts(q) /\ CarryOut(q)
    BY <2>1, <2>2, <2>3, CarryOutOwn
  <2>4. CASE UNCHANGED <<blob, staged>>
    BY <1>1, <2>2, <2>4
  <2> QED BY <1>4, <2>3, <2>4 DEF Arrive
<1>5. CASE DeleteBlob
  <2>1. Claims(u, company, i)
    BY <1>2, <1>5 DEF DeleteBlob
  <2>2. Own(u, i)
    BY <2>1 DEF OwnInv
  <2>3. Latest(i)' = Latest(i) \/ Latest(i)' = NoPiece
    BY <1>5 DEF DeleteBlob, Latest
  <2> QED BY <2>2, <2>3 DEF Own, Part
<1> QED BY <1>3, <1>4, <1>5 DEF Next

LEMMA TurnNext ==
  ASSUME IInv, TurnInv, Next PROVE TurnInv'
<1> SUFFICES ASSUME NEW u \in Uploads, NEW v \in Uploads, u # v, Active(u)', Active(v)'
             PROVE  u \notin Alone /\ v \notin Alone
  BY DEF TurnInv
<1>1. CASE UNCHANGED up
  BY <1>1 DEF TurnInv, Active
<1>2. ASSUME NEW w \in Uploads, Step(w) PROVE u \notin Alone /\ v \notin Alone
  <2>1. \A x \in Uploads \ {w} : Active(x)' <=> Active(x)
    BY <1>2, StepIsOwn DEF Active
  <2>2. CASE Active(w)
    BY <2>1, <2>2 DEF TurnInv
  <2>3. CASE Begin(w)
    BY <2>1, <2>3 DEF TurnInv, Begin
  <2> QED BY <1>2, <2>2, <2>3, StepIsOwn
<1> QED BY <1>1, <1>2 DEF Next, Arrive, DeleteBlob

LEMMA MetNext ==
  ASSUME IInv, NEW company \in Companies, Met(company), Next PROVE Met(company)'
<1>1. ASSUME NEW w \in Uploads, Step(w) PROVE Met(company)'
  <2>1. w \in company /\ \A x \in Uploads \ {w} : up'[x] = up[x]
    BY <1>1, StepIsOwn DEF Met
  <2>2. strays' = strays \/ strays' = strays \cup {up[w].request}
    BY <1>1 DEF Step, Begin, ReadChunk, Flush, Fill, Slice, EndOfStream, Commit, Serve,
                Reject, Lose, GiveUp
  <2>3. up[w].request.upload = w
    BY DEF IInv, Sound
  <2> QED BY <2>1, <2>2, <2>3 DEF Met
<1> QED BY <1>1 DEF Next, Arrive, DeleteBlob, Met

(* Whoever meets, each of its uploads finds its own blocks. *)
CompanyInv == \E company \in Companies : Met(company) /\ OwnInv(company)

UInv == IInv /\ ShapeInv /\ TurnInv /\ CompanyInv

LEMMA UInvInit == Init => UInv
<1> SUFFICES ASSUME Init PROVE UInv
  OBVIOUS
<1>1. TurnInv
  BY DEF Init, TurnInv, Active
<1>2. PICK company \in Companies :
        up = [u \in Uploads |->
               [pc |-> IF u \in company THEN "idle" ELSE "failed", next |-> "ok",
                read |-> 0, buffered |-> 0, rest |-> 0, ids |-> 0, request |-> Nothing(u)]]
  BY DEF Init
<1>3. Met(company)
  BY <1>2 DEF Init, Met
<1>4. OwnInv(company)
  <2>1. ASSUME NEW i \in Ids PROVE Latest(i) = NoPiece
    BY DEF Init, Latest
  <2> QED BY <2>1 DEF OwnInv, Own
<1> QED BY <1>1, <1>3, <1>4, InitEstablishes, ShapeInit DEF UInv, CompanyInv

LEMMA UInvNext == UInv /\ [Next]_vars => UInv'
<1> SUFFICES ASSUME UInv, [Next]_vars PROVE UInv'
  OBVIOUS
<1>1. IInv' /\ ShapeInv'
  BY NextPreserves, ShapeNext DEF UInv
<1>2. CASE Next
  <2>1. PICK company \in Companies : Met(company) /\ OwnInv(company)
    BY DEF UInv, CompanyInv
  <2>2. Met(company)' /\ OwnInv(company)' /\ TurnInv'
    BY <1>1, <1>2, <2>1, MetNext, OwnNext, TurnNext DEF UInv
  <2>3. CompanyInv'
    BY <2>2 DEF CompanyInv
  <2> QED BY <1>1, <2>2, <2>3 DEF UInv
<1>3. CASE UNCHANGED vars
  BY <1>1, <1>3 DEF vars, UInv, TurnInv, CompanyInv, Met, OwnInv, Claims, Own, Latest, Active,
                    Confirmed, Clear, Sole, Apart, Long, Part, Ids
<1> QED BY <1>2, <1>3

LEMMA UInvariance == Spec => []UInv
BY UInvInit, UInvNext, PTL DEF Spec

-----------------------------------------------------------------------------
(* What the blob is when a list of parts, or all of an upload at once, is put. *)
LEMMA Multiples ==
  ASSUME NEW i \in Nat, NEW j \in Nat, i <= j PROVE i * BlockSize <= j * BlockSize
<1>1. j - i \in Nat /\ BlockSize \in Nat
  BY BlockUploadAssumption
<1>2. j * BlockSize = i * BlockSize + (j - i) * BlockSize
  BY <1>1
<1>3. (j - i) * BlockSize \in Nat /\ i * BlockSize \in Nat
  BY <1>1
<1> QED BY <1>2, <1>3

LEMMA PartEnds ==
  ASSUME NEW size \in Nat, NEW length \in Nat, NEW start \in Nat, NEW stop,
         stop = start + size, NEW len, len = IF stop <= length THEN size ELSE length - start
  PROVE  /\ length <= stop => start + len = length
         /\ stop <= length => start + len = stop
OBVIOUS

LEMMA PartsTile ==
  ASSUME NEW u \in Uploads, NEW n \in Nat, IsCount(u, n), NEW pieces,
         pieces \in Seq(Piece), Len(pieces) = n, \A k \in 1..n : pieces[k] = Part(u, k - 1)
  PROVE  Tiles(pieces, u)
<1>0. n > 0 /\ (n - 1) * BlockSize < Length[u] /\ Length[u] <= n * BlockSize
      /\ BlockSize \in Nat \ {0} /\ Length[u] \in Nat
  BY BlockUploadAssumption DEF IsCount
<1>a. BlockSize \in Nat /\ Length[u] \in Nat
  BY BlockUploadAssumption
<1>1. pieces # <<>> /\ 1 \in 1..n
  BY <1>0
<1>2. pieces[1].from = 0
  BY <1>0, <1>1 DEF Part
<1>3. ASSUME NEW k \in 1..n
      PROVE  /\ pieces[k].upload = u
             /\ pieces[k].from + pieces[k].len =
                  IF k = n THEN Length[u] ELSE pieces[k + 1].from
  <2>p. PICK start, stop : start = (k - 1) * BlockSize /\ stop = k * BlockSize
    OBVIOUS
  <2>1. /\ pieces[k].upload = u /\ pieces[k].from = start
        /\ pieces[k].len = IF stop <= Length[u] THEN BlockSize ELSE Length[u] - start
    <3>1. (k - 1) + 1 = k
      OBVIOUS
    <3> QED BY <2>p, <3>1 DEF Part
  <2>2. start \in Nat /\ stop = start + BlockSize
    <3>1. k - 1 \in Nat /\ (k - 1) + 1 = k
      OBVIOUS
    <3> QED BY <1>0, <2>p, <3>1, NextBlock
  <2>3. CASE k = n
    <3>1. Length[u] <= stop
      BY <1>0, <2>p, <2>3
    <3>2. pieces[k].from + pieces[k].len = Length[u]
      BY <1>a, <2>1, <2>2, <3>1, PartEnds
    <3> QED BY <2>1, <2>3, <3>2
  <2>4. CASE k # n
    <3>1. k + 1 \in 1..n /\ (k + 1) - 1 = k /\ k \in Nat /\ n - 1 \in Nat /\ k <= n - 1
      BY <2>4
    <3>2. pieces[k + 1].from = stop
      BY <2>p, <3>1 DEF Part
    <3>3. PICK last : last = (n - 1) * BlockSize
      OBVIOUS
    <3>4. stop <= last
      BY <2>p, <3>1, <3>3, Multiples
    <3>5. last < Length[u] /\ last \in Nat
      BY <1>0, <3>1, <3>3
    <3>6. stop <= Length[u]
      BY <1>a, <2>2, <3>4, <3>5
    <3>7. pieces[k].from + pieces[k].len = stop
      BY <1>a, <2>1, <2>2, <3>6, PartEnds
    <3> QED BY <2>1, <2>4, <3>2, <3>7
  <2> QED BY <2>3, <2>4
<1> QED BY <1>1, <1>2, <1>3 DEF Tiles

LEMMA ContentIs ==
  ASSUME NEW u \in Uploads, IInv', blob'.exists, Tiles(blob'.pieces, u) PROVE Content' = u
<1> DEFINE pieces == blob'.pieces
<1>1. pieces \in Seq(Piece)
  BY DEF IInv, Service, Blob
<1>2. ASSUME NEW w \in Uploads, Tiles(pieces, w) PROVE w = u
  <2>1. pieces # <<>>
    BY <1>2 DEF Tiles
  <2> HIDE DEF pieces
  <2>2. 1 \in 1..Len(pieces)
    BY <1>1, <2>1
  <2> QED BY <1>2, <2>2 DEF Tiles, pieces
<1>3. (CHOOSE w \in Uploads : Tiles(pieces, w)) = u
  BY <1>2
<1>4. Content' = IF ~blob'.exists THEN NoBlob
                 ELSE IF \E w \in Uploads : Tiles(pieces, w)
                 THEN CHOOSE w \in Uploads : Tiles(pieces, w)
                 ELSE Torn
  BY DEF Content, Tiles
<1> QED BY <1>3, <1>4

(* A request that puts a blob puts all of its upload. *)
LEMMA CarryOutWhole ==
  ASSUME IInv, IInv', ShapeInv, NEW company \in Companies, Met(company), OwnInv(company),
         NEW q, Asked(q), Accepts(q), CarryOut(q),
         q.kind = "list" => Clear(q.upload, company)
  PROVE  \/ q.kind = "block" /\ blob' = blob
         \/ q.kind # "block" /\ Content' = q.upload
<1> DEFINE u == q.upload
<1>1. q \in Request /\ Valid(q) /\ Ranged(q) /\ u \in Uploads /\ q.kind # "none"
  BY AskedSound
<1>n. q.count \in Nat
  BY <1>1 DEF Request
<1>2. CASE q.kind = "block"
  BY <1>2 DEF CarryOut
<1>3. CASE q.kind = "put"
  <2>1. blob'.exists = TRUE /\ blob'.pieces = <<PieceOf(q)>>
    BY <1>3 DEF CarryOut, Replace
  <2>2. PieceOf(q).upload = u /\ PieceOf(q).from = 0 /\ PieceOf(q).len = Length[u]
    BY <1>1, <1>3 DEF Ranged, PieceOf
  <2>3. Length[u] \in Nat
    BY <1>1, BlockUploadAssumption
  <2>4. Tiles(<<PieceOf(q)>>, u)
    BY <2>2, <2>3 DEF Tiles
  <2>5. Content' = u
    BY <1>1, <2>1, <2>4, ContentIs
  <2> QED BY <1>3, <2>5
<1>4. CASE q.kind = "list"
  <2> DEFINE pieces == [k \in 1..q.count |-> Latest(k - 1)]
  <2>1. blob'.exists = TRUE /\ blob'.pieces = pieces
    BY <1>4 DEF CarryOut, Replace
  <2>2. Len(pieces) = q.count /\ \A k \in 1..q.count : pieces[k] = Latest(k - 1)
    BY <1>n
  <2> HIDE DEF pieces
  <2>3. pieces \in Seq(Piece)
    BY <2>1 DEF IInv, Service, Blob
  <2>4. ASSUME NEW k \in 1..q.count PROVE pieces[k] = Part(u, k - 1)
    <3>1. k - 1 \in 0..(q.count - 1)
      BY <1>n
    <3> QED BY <1>4, <2>2, <3>1, ListIsOwn
  <2>5. IsCount(u, q.count)
    BY <1>1, <1>4 DEF Ranged
  <2>6. Tiles(pieces, u)
    BY <1>1, <1>n, <2>2, <2>3, <2>4, <2>5, PartsTile
  <2>7. Content' = u
    BY <1>1, <2>1, <2>6, ContentIs
  <2> QED BY <1>4, <2>7
<1> QED BY <1>1, <1>2, <1>3, <1>4 DEF Request

-----------------------------------------------------------------------------
(* Where an upload that runs alone and another both stage blocks, the requests *)
(* of neither arrive late.                                                      *)
InTurn ==
  \A company \in Companies : \A u \in company \cap Alone : Long(u) => Clear(u, company)

(* Of the uploads that meet, those that stage blocks take turns and their requests *)
(* do not arrive late, or there is only one of them.                               *)
OneAtATime ==
  \A company \in Companies : \A u \in company : Long(u) => Clear(u, company)

(* Only an answer ends an upload with success. *)
LEMMA OnlyServedEnds ==
  ASSUME IInv, NEW u \in Uploads, Step(u), up[u].pc # "ok", up'[u].pc = "ok"
  PROVE  Serve(u) /\ up[u].next = "ok"
<1>1. up \in [Uploads -> Upload] /\ up[u] \in Upload
  BY DEF IInv
<1>2. CASE Cutting(u)
  BY <1>2, CuttingMoves
<1>3. CASE Begin(u)
  BY <1>1, <1>3 DEF Begin, Set, Upload
<1>4. CASE Reject(u) \/ GiveUp(u)
  <2>1. Set(u, [up[u] EXCEPT !.pc = "failed", !.request = Nothing(u)])
    BY <1>4 DEF Reject, GiveUp
  <2> QED BY <1>1, <2>1 DEF Set, Upload
<1>5. CASE Lose(u)
  BY <1>5 DEF Lose
<1>6. CASE Serve(u)
  BY <1>1, <1>6 DEF Serve, Set, Upload
<1> QED BY <1>2, <1>3, <1>4, <1>5, <1>6 DEF Step, Cutting

(* When write_blob returns success and no other upload ran beside it, the blob *)
(* holds this upload's bytes, all of them and in order, whatever answers were  *)
(* lost, and whatever blocks earlier uploads have left behind.                 *)
THEOREM SpecOkIsStored ==
  ASSUME InTurn
  PROVE  Spec => OkIsStored
<1> DEFINE Stored == \A u \in Alone : up[u].pc # "ok" /\ up'[u].pc = "ok" => Content' = u
<1>1. UInv /\ UInv' /\ [Next]_vars => [Stored]_vars
  <2> SUFFICES ASSUME UInv, UInv', Next, NEW u \in Alone, up[u].pc # "ok", up'[u].pc = "ok"
               PROVE  Content' = u
    OBVIOUS
  <2>u. u \in Uploads /\ up \in [Uploads -> Upload] /\ IInv /\ IInv' /\ ShapeInv
    BY BlockUploadAssumption DEF UInv, IInv
  <2>1. Step(u)
    <3>1. up' # up
      BY <2>u
    <3>2. PICK w \in Uploads : Step(w)
      BY <3>1 DEF Next, Arrive, DeleteBlob
    <3>3. w = u
      BY <2>u, <3>2, StepIsOwn
    <3> QED BY <3>2, <3>3
  <2>2. Serve(u) /\ up[u].next = "ok"
    BY <2>u, <2>1, OnlyServedEnds
  <2> DEFINE q == up[u].request
  <2>3. q.upload = u /\ q.kind # "block" /\ Ranged(q) /\ Asked(q) /\ Accepts(q) /\ CarryOut(q)
    BY <2>u, <2>2 DEF Serve, IInv, Sound, ShapeInv, Shapes, Shape, Asked
  <2>4. PICK company \in Companies : Met(company) /\ OwnInv(company)
    BY DEF UInv, CompanyInv
  <2>5. u \in company
    BY <2>u, <2>2, <2>4 DEF Met, Serve
  <2>6. q.kind = "list" => Clear(u, company)
    BY <2>3, <2>5 DEF InTurn, Ranged
  <2> HIDE DEF q
  <2> QED BY <2>u, <2>3, <2>4, <2>6, CarryOutWhole
<1>2. Spec => [][Stored]_vars
  BY <1>1, UInvariance, PTL DEF Spec
<1> QED BY <1>2 DEF OkIsStored

AtomicVars == <<Content, Live>>

(* A step that concerns one upload, and leaves the content or makes it that *)
(* upload's, is one of AtomicBlob.                                          *)
LEMMA OneUploadRefines ==
  ASSUME NEW w \in Uploads, \A v \in Uploads \ {w} : v \in Live' <=> v \in Live,
         \/ Content' = Content
         \/ Content' = w /\ w \in Live /\ (w \in Creating => Content = NoBlob)
  PROVE  Abstract!Next
<1>1. Live \subseteq Uploads /\ Live' \subseteq Uploads
  BY DEF Live
<1>2. Live' = Live \cup {w} \/ Live' = Live \ {w}
  BY <1>1
<1>3. CASE Content' = Content
  <2>1. Abstract!Ask(w) \/ Abstract!Settle(w)
    BY <1>2, <1>3 DEF Abstract!Ask, Abstract!Settle, Live
  <2> QED BY <2>1 DEF Abstract!Next
<1>4. CASE Content' = w /\ w \in Live /\ (w \in Creating => Content = NoBlob)
  <2>1. Live' \in {Live, Live \ {w}}
    BY <1>2, <1>4
  <2>2. Abstract!Write(w)
    BY <1>4, <2>1 DEF Abstract!Write, Live
  <2> QED BY <2>2 DEF Abstract!Next
<1> QED BY <1>3, <1>4

(* A request that is carried out replaces the blob by its whole upload, which is *)
(* under way, or leaves it.                                                      *)
LEMMA CarryOutRefines ==
  ASSUME OneAtATime, UInv, IInv', NEW q, Asked(q), Accepts(q), CarryOut(q)
  PROVE  \/ Content' = Content
         \/ /\ Content' = q.upload /\ q.upload \in Live
            /\ q.upload \in Creating => Content = NoBlob
<1>1. PICK company \in Companies : Met(company) /\ OwnInv(company)
  BY DEF UInv, CompanyInv
<1>2. /\ Ranged(q) /\ q.upload \in company /\ q.upload \in Uploads /\ q \in Request
      /\ q.kind # "none" /\ (q \notin strays => Active(q.upload))
  BY <1>1, AskedSound DEF UInv
<1>3. q.kind = "list" => Clear(q.upload, company)
  BY <1>2 DEF OneAtATime, Ranged
<1>4. \/ q.kind = "block" /\ blob' = blob
      \/ q.kind # "block" /\ Content' = q.upload
  BY <1>1, <1>3, CarryOutWhole DEF UInv
<1>5. blob' = blob => Content' = Content
  BY DEF Content, Tiles
<1>6. q.upload \in Live
  BY <1>2 DEF Live
<1>7. ASSUME q.kind # "block", q.upload \in Creating PROVE Content = NoBlob
  <2>1. q.kind \in {"put", "list"}
    BY <1>2, <1>7 DEF Request
  <2> QED BY <1>7, <2>1 DEF Accepts, IfNoneMatch, Content
<1> QED BY <1>4, <1>5, <1>6, <1>7

LEMMA StepRefines ==
  ASSUME OneAtATime, UInv, IInv', NEW w \in Uploads, Step(w) PROVE Abstract!Next
<1>0. IInv
  BY DEF UInv
<1>1. \A v \in Uploads \ {w} : up'[v] = up[v]
  BY <1>0, StepIsOwn
<1>2. strays' = strays \/ strays' = strays \cup {up[w].request}
  BY DEF Step, Begin, ReadChunk, Flush, Fill, Slice, EndOfStream, Commit, Serve, Reject, Lose,
         GiveUp
<1>3. up[w].request.upload = w
  BY <1>0 DEF IInv, Sound
<1>4. \A v \in Uploads \ {w} : v \in Live' <=> v \in Live
  BY <1>1, <1>2, <1>3 DEF Live, Active
<1>5. \/ blob' = blob
      \/ up[w].pc = "sending" /\ Accepts(up[w].request) /\ CarryOut(up[w].request)
  BY DEF Step, Begin, ReadChunk, Flush, Fill, Slice, EndOfStream, Commit, Serve, Reject, Lose,
         GiveUp
<1>6. CASE blob' = blob
  <2>1. Content' = Content
    BY <1>6 DEF Content, Tiles
  <2> QED BY <1>4, <2>1, OneUploadRefines
<1>7. CASE up[w].pc = "sending" /\ Accepts(up[w].request) /\ CarryOut(up[w].request)
  <2>1. Asked(up[w].request)
    BY <1>7 DEF Asked
  <2>2. \/ Content' = Content
        \/ Content' = w /\ w \in Live /\ (w \in Creating => Content = NoBlob)
    BY <1>3, <1>7, <2>1, CarryOutRefines
  <2> QED BY <1>4, <2>2, OneUploadRefines
<1> QED BY <1>5, <1>6, <1>7

LEMMA ArriveRefines ==
  ASSUME OneAtATime, UInv, IInv', NEW q \in strays, Arrive(q) PROVE Abstract!Next
<1>1. up' = up /\ strays' = strays \ {q} /\ Asked(q)
  BY DEF Arrive, Asked
<1>2. q.upload \in Uploads
  BY DEF UInv, IInv, Service, Valid, Request
<1>3. \A v \in Uploads \ {q.upload} : v \in Live' <=> v \in Live
  BY <1>1 DEF Live, Active
<1>4. CASE Accepts(q) /\ CarryOut(q)
  BY <1>1, <1>2, <1>3, <1>4, CarryOutRefines, OneUploadRefines
<1>5. CASE blob' = blob
  <2>1. Content' = Content
    BY <1>5 DEF Content, Tiles
  <2> QED BY <1>2, <1>3, <2>1, OneUploadRefines
<1> QED BY <1>4, <1>5 DEF Arrive

(* Uploads to one blob, of which those that stage blocks take turns and have no *)
(* late requests, or of which one alone does, are an AtomicBlob: at one instant *)
(* all of an upload that was asked for replaces what was there.                 *)
THEOREM SpecReplacesAtomically ==
  ASSUME OneAtATime
  PROVE  Spec => ReplacesAtomically
<1>1. Init => Abstract!Init
  <2> SUFFICES ASSUME Init PROVE Abstract!Init
    OBVIOUS
  <2>1. Content = NoBlob
    BY DEF Init, Content
  <2>2. \A u \in Uploads : ~Active(u)
    <3>1. PICK company \in Companies :
            up = [u \in Uploads |->
                   [pc |-> IF u \in company THEN "idle" ELSE "failed", next |-> "ok",
                    read |-> 0, buffered |-> 0, rest |-> 0, ids |-> 0, request |-> Nothing(u)]]
      BY DEF Init
    <3> QED BY <3>1 DEF Active
  <2>3. Live = {}
    BY <2>2 DEF Init, Live
  <2> QED BY <2>1, <2>3 DEF Abstract!Init
<1>2. UInv /\ UInv' /\ [Next]_vars => [Abstract!Next]_AtomicVars
  <2> SUFFICES ASSUME UInv, UInv', [Next]_vars PROVE [Abstract!Next]_AtomicVars
    OBVIOUS
  <2>1. IInv'
    BY DEF UInv
  <2>2. CASE UNCHANGED vars
    BY <2>2 DEF vars, AtomicVars, Content, Tiles, Live, Active
  <2>3. CASE DeleteBlob
    <3>1. Content' = NoBlob /\ Live' = Live
      BY <2>3 DEF DeleteBlob, Content, Live, Active
    <3> QED BY <3>1 DEF Abstract!Next, Abstract!Delete, Live
  <2> QED BY <2>1, <2>2, <2>3, StepRefines, ArriveRefines DEF Next
<1>3. Spec => Abstract!Init /\ [][Abstract!Next]_AtomicVars
  BY <1>1, <1>2, UInvariance, PTL DEF Spec
<1> QED BY <1>3 DEF ReplacesAtomically, Abstract!Spec, AtomicVars
=============================================================================
