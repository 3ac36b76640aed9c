---------------------------- MODULE KeyringProofs ----------------------------
(***************************************************************************)
(* One process at a time on a key of the keychain, operations abandoned    *)
(* anywhere, secrets of any sizes: the chunks a marker stands for belong   *)
(* to one secret, and a put that completes can be read back.               *)
(***************************************************************************)
EXTENDS Keyring, TLAPS

OneProcess == \A p, q \in Procs : p = q

(* What the process knows of the chunks at each point of an operation *)
ChunksInv ==
  /\ base.tag = "marker" <=> base.count > 0
  /\ base.tag = "absent" => base.secret = NoSecret
  /\ \A p \in Procs :
       LET o == op[p]
       IN  /\ o.pc \in {"idle", "collect", "erase"} => o.secret = NoSecret
           /\ o.pc \in {"chunks", "write"} => o.secret \in Secrets
           /\ o.pc # "idle" => o.count = base.count
           /\ o.pc = "purge" =>
                /\ o.next < o.count
                /\ \A i \in Chunks : i < o.next => chunk[i] = NoPiece
           /\ o.pc = "chunks" =>
                /\ o.next < Size[o.secret]
                /\ \A i \in Chunks : i < o.next => chunk[i] = <<o.secret, i>>
                /\ \A i \in Chunks : o.next <= i /\ i < o.count => chunk[i] = NoPiece
           /\ o.pc = "write" =>
                /\ \A i \in Chunks : i < Size[o.secret] => chunk[i] = <<o.secret, i>>
                /\ \A i \in Chunks : Size[o.secret] <= i /\ i < o.count => chunk[i] = NoPiece
           /\ o.pc = "erase" => \A i \in Chunks : i < o.count => chunk[i] = NoPiece
           /\ o.pc = "collect" => o.next < o.count

IInv == TypeOK /\ ChunksInv /\ NoMixture

LEMMA StoredType == TypeOK => Stored \in Secrets \cup {NoSecret, Torn}
<1> SUFFICES ASSUME TypeOK PROVE Stored \in Secrets \cup {NoSecret, Torn}
  OBVIOUS
<1>1. ASSUME NEW joined PROVE Join(joined) \in Secrets \cup {Torn}
  BY DEF Join
<1> QED
  BY <1>1 DEF Stored, TypeOK, Entry

LEMMA InitIInv == Init => IInv
BY KeyringAssumption
DEF Init, IInv, TypeOK, ChunksInv, NoMixture, Absent, Entry, NoPiece, Piece, Chunks, Idle, Op

(* Records of an operation keep their type when it starts and when it moves. *)
LEMMA OpTypes ==
  ASSUME NEW o \in Op, NEW pc \in {"idle", "purge", "chunks", "write", "erase", "collect"},
         NEW next \in 0..MaxChunks
  PROVE  [o EXCEPT !.pc = pc, !.next = next] \in Op
BY DEF Op

LEMMA IdleType == Idle \in Op
<1>1. 0 \in 0..MaxChunks /\ <<>> \in Seq(Piece)
  BY KeyringAssumption
<1> QED
  BY <1>1 DEF Idle, Op

LEMMA BeginIInv ==
  ASSUME OneProcess, IInv, NEW p \in Procs, NEW s \in Secrets \cup {NoSecret}, Begin(p, s)
  PROVE  IInv'
<1> DEFINE first == IF base.tag = "marker" THEN "purge" ELSE AfterPurge(s)
           o == [Idle EXCEPT !.pc = first, !.secret = s, !.count = base.count]
<1>1. op' = [op EXCEPT ![p] = o] /\ held' = Stored /\ UNCHANGED <<base, chunk, got, told>>
  BY DEF Begin
<1>2. o \in Op /\ o.secret = s /\ o.next = 0 /\ o.pc = first /\ o.count = base.count
  <2>1. base.count \in 0..MaxChunks
    BY DEF IInv, TypeOK, Entry
  <2>2. first \in {"idle", "purge", "chunks", "write", "erase", "collect"}
    BY DEF AfterPurge
  <2> HIDE DEF first
  <2>3. o \in Op
    BY <2>1, <2>2, IdleType DEF Op
  <2> QED
    BY <2>3 DEF Idle
<1> HIDE DEF o
<1>3. TypeOK'
  BY <1>1, <1>2, StoredType DEF IInv, TypeOK
<1>4. op'[p] = o /\ \A q \in Procs : q = p
  BY <1>1 DEF IInv, TypeOK, OneProcess
<1>5. ChunksInv'
  <2>1. base.count \in Nat /\ (s # NoSecret => Size[s] \in Nat)
    BY KeyringAssumption DEF IInv, TypeOK, Entry
  <2> QED
    BY <1>1, <1>2, <1>4, <2>1 DEF IInv, ChunksInv, AfterPurge, Chunks
<1>6. NoMixture'
  BY <1>1 DEF IInv, NoMixture
<1> QED
  BY <1>3, <1>5, <1>6 DEF IInv

LEMMA PurgeChunkIInv ==
  ASSUME OneProcess, IInv, NEW p \in Procs, PurgeChunk(p)
  PROVE  IInv'
<1> DEFINE i == op[p].next
           last == i + 1 >= op[p].count
<1>0. /\ op[p] \in Op /\ i \in Chunks /\ i \in Nat /\ op[p].count \in Nat
      /\ base.tag = "marker" /\ op[p].count = base.count /\ i < base.count
      /\ op[p].pc = "purge" /\ base.count \in 0..MaxChunks
      /\ op[p].secret \in Secrets \cup {NoSecret}
  BY KeyringAssumption DEF PurgeChunk, IInv, TypeOK, ChunksInv, Chunks, Op, Entry
<1>1. /\ chunk' = [chunk EXCEPT ![i] = NoPiece]
      /\ UNCHANGED <<base, got, told, held>>
      /\ op' = [op EXCEPT ![p] = [op[p] EXCEPT
                 !.pc = IF last THEN AfterPurge(op[p].secret) ELSE "purge",
                 !.next = IF last THEN 0 ELSE i + 1]]
  BY DEF PurgeChunk, Goto
<1>2. /\ op'[p].pc = IF last THEN AfterPurge(op[p].secret) ELSE "purge"
      /\ op'[p].next = IF last THEN 0 ELSE i + 1
      /\ op'[p].secret = op[p].secret /\ op'[p].count = op[p].count
      /\ \A q \in Procs : q = p
  BY <1>0, <1>1 DEF IInv, TypeOK, OneProcess, Op
<1>3. TypeOK'
  <2>1. op' \in [Procs -> Op]
    <3>1. (IF last THEN 0 ELSE i + 1) \in 0..MaxChunks
      BY <1>0, KeyringAssumption
    <3>2. (IF last THEN AfterPurge(op[p].secret) ELSE "purge")
            \in {"idle", "purge", "chunks", "write", "erase", "collect"}
      BY DEF AfterPurge
    <3> QED
      BY <1>0, <1>1, <3>1, <3>2, OpTypes DEF IInv, TypeOK
  <2>2. chunk' \in [Chunks -> Piece]
    BY <1>0, <1>1 DEF IInv, TypeOK, Piece
  <2> QED
    BY <1>1, <2>1, <2>2 DEF IInv, TypeOK
<1>4. \A j \in Chunks : chunk'[j] = IF j = i THEN NoPiece ELSE chunk[j]
  BY <1>0, <1>1 DEF IInv, TypeOK
<1>5. \A j \in Chunks : j <= i => chunk'[j] = NoPiece
  BY <1>0, <1>4 DEF IInv, ChunksInv, Chunks
<1> HIDE DEF i, last
<1>6. ChunksInv'
  <2>1. last => \A j \in Chunks : j < base.count => chunk'[j] = NoPiece
    BY <1>0, <1>5 DEF last, Chunks
  <2>2. ~last => i + 1 < base.count
    BY <1>0 DEF last
  <2> QED
    BY <1>0, <1>1, <1>2, <1>5, <2>1, <2>2, KeyringAssumption
    DEF IInv, ChunksInv, AfterPurge, Chunks
<1>7. NoMixture'
  BY <1>1, <1>4 DEF IInv, NoMixture
<1> QED
  BY <1>3, <1>6, <1>7 DEF IInv

LEMMA WriteChunkIInv ==
  ASSUME OneProcess, IInv, NEW p \in Procs, WriteChunk(p)
  PROVE  IInv'
<1> DEFINE s == op[p].secret
           i == op[p].next
           last == i + 1 = Size[s]
<1>0. /\ s \in Secrets /\ s # NoSecret
      /\ i \in Chunks /\ i \in Nat /\ i < Size[s] /\ Size[s] \in 0..MaxChunks
      /\ op[p].pc = "chunks"
      /\ base.count \in 0..MaxChunks /\ op[p].count = base.count
      /\ base.tag = "marker" <=> base.count > 0
  BY KeyringAssumption DEF WriteChunk, IInv, TypeOK, ChunksInv, Chunks, Op, Entry
<1>1. /\ chunk' = [chunk EXCEPT ![i] = <<s, i>>]
      /\ UNCHANGED <<base, got, told, held>>
      /\ op' = [op EXCEPT ![p] = [op[p] EXCEPT
                 !.pc = IF last THEN "write" ELSE "chunks", !.next = i + 1]]
  BY DEF WriteChunk, Goto
<1>2. /\ op'[p].pc = IF last THEN "write" ELSE "chunks"
      /\ op'[p].next = i + 1
      /\ op'[p].secret = s /\ op'[p].count = base.count
      /\ \A q \in Procs : q = p
  BY <1>0, <1>1 DEF IInv, TypeOK, OneProcess, Op
<1>3. TypeOK'
  <2>1. op' \in [Procs -> Op]
    <3>1. i + 1 \in 0..MaxChunks /\ op[p] \in Op
      BY <1>0, KeyringAssumption DEF IInv, TypeOK
    <3> QED
      BY <1>1, <3>1, OpTypes DEF IInv, TypeOK
  <2>2. chunk' \in [Chunks -> Piece]
    BY <1>0, <1>1 DEF IInv, TypeOK, Piece
  <2> QED
    BY <1>1, <2>1, <2>2 DEF IInv, TypeOK
<1>4. \A j \in Chunks : chunk'[j] = IF j = i THEN <<s, i>> ELSE chunk[j]
  BY <1>0, <1>1 DEF IInv, TypeOK
<1>5. /\ \A j \in Chunks : j < i => chunk[j] = <<s, j>>
      /\ \A j \in Chunks : i <= j /\ j < base.count => chunk[j] = NoPiece
  BY <1>0 DEF IInv, ChunksInv
<1> HIDE DEF i, last, s
<1>6. /\ \A j \in Chunks : j < i + 1 => chunk'[j] = <<s, j>>
      /\ \A j \in Chunks : i + 1 <= j /\ j < base.count => chunk'[j] = NoPiece
  BY <1>0, <1>4, <1>5 DEF Chunks
<1>7. ChunksInv'
  <2>1. last => /\ \A j \in Chunks : j < Size[s] => chunk'[j] = <<s, j>>
                /\ \A j \in Chunks : Size[s] <= j /\ j < base.count => chunk'[j] = NoPiece
    BY <1>6 DEF last
  <2>2. ~last => i + 1 < Size[s]
    BY <1>0 DEF last
  <2> QED
    BY <1>0, <1>1, <1>2, <1>6, <2>1, <2>2 DEF IInv, ChunksInv
<1>8. NoMixture'
  <2>1. base.tag = "marker" =>
          \A j \in Chunks : j < base.count /\ chunk'[j] # NoPiece => chunk'[j] = <<s, j>>
    BY <1>0, <1>6 DEF Chunks
  <2> QED
    BY <1>1, <2>1 DEF NoMixture
<1> QED
  BY <1>3, <1>7, <1>8 DEF IInv

LEMMA WriteBaseIInv ==
  ASSUME OneProcess, IInv, NEW p \in Procs, WriteBase(p)
  PROVE  IInv'
<1> DEFINE s == op[p].secret
<1>0. s \in Secrets /\ Size[s] \in 0..MaxChunks /\ \A i \in Chunks : i < Size[s] => chunk[i] = <<s, i>>
  BY KeyringAssumption DEF WriteBase, IInv, ChunksInv
<1>1. /\ base' = IF Size[s] = 0 THEN Plain(s) ELSE Marker(Size[s])
      /\ op' = [op EXCEPT ![p] = Idle]
      /\ told' \in [Procs -> {"ok", "failed"}]
      /\ UNCHANGED <<chunk, got, held>>
  BY DEF WriteBase, End, IInv, TypeOK
<1>2. \A q \in Procs : op'[q] = Idle
  BY <1>1 DEF IInv, TypeOK, OneProcess
<1>3. TypeOK'
  BY <1>0, <1>1, KeyringAssumption DEF IInv, TypeOK, Entry, Plain, Marker, Idle, Op
<1>4. ChunksInv'
  BY <1>0, <1>1, <1>2 DEF ChunksInv, Idle, Plain, Marker
<1>5. NoMixture'
  BY <1>0, <1>1 DEF NoMixture, Plain, Marker
<1> QED
  BY <1>3, <1>4, <1>5 DEF IInv

LEMMA OtherIInv ==
  ASSUME OneProcess, IInv, NEW p \in Procs, Erase(p) \/ Fetch(p) \/ Collect(p) \/ Interrupt(p)
  PROVE  IInv'
<1>1. CASE Erase(p)
  <2>1. /\ base' = Absent /\ op' = [op EXCEPT ![p] = Idle] /\ UNCHANGED <<chunk, got, held>>
        /\ told' \in [Procs -> {"ok", "failed"}]
    BY <1>1 DEF Erase, End, IInv, TypeOK
  <2>2. \A q \in Procs : op'[q] = Idle
    BY <2>1 DEF IInv, TypeOK, OneProcess
  <2> QED
    BY <2>1, <2>2, KeyringAssumption
    DEF IInv, TypeOK, ChunksInv, NoMixture, Absent, Entry, Idle, Op
<1>2. CASE Fetch(p)
  <2>1. /\ UNCHANGED <<base, chunk, held>>
        /\ got' \in [Procs -> Secrets \cup {NoSecret, Torn}]
        /\ told' \in [Procs -> {"ok", "failed"}]
    BY <1>2 DEF Fetch, Answer, End, IInv, TypeOK, Entry
  <2> DEFINE o == [Idle EXCEPT !.pc = "collect", !.count = base.count]
  <2>2. /\ base.count \in 0..MaxChunks
        /\ op' = [op EXCEPT ![p] = Idle] \/ (op' = [op EXCEPT ![p] = o] /\ base.tag = "marker")
        /\ base.tag = "marker" => base.count > 0
    BY <1>2 DEF Fetch, Answer, End, IInv, TypeOK, ChunksInv, Entry
  <2>a. /\ o \in Op /\ o.pc = "collect" /\ o.next = 0 /\ o.count = base.count
        /\ o.secret = NoSecret
    <3>1. o \in Op
      BY <2>2, IdleType DEF Op
    <3> QED
      BY <3>1 DEF Idle
  <2> HIDE DEF o
  <2>b. /\ op'[p] = Idle \/ (op'[p] = o /\ base.tag = "marker")
        /\ op' \in [Procs -> Op]
    BY <2>2, <2>a, IdleType DEF IInv, TypeOK
  <2>3. \A q \in Procs : q = p
    BY DEF OneProcess
  <2> QED
    BY <2>1, <2>2, <2>a, <2>b, <2>3 DEF IInv, TypeOK, ChunksInv, NoMixture, Idle
<1>3. CASE Collect(p)
  <2>0. /\ op[p].next \in Chunks /\ op[p].next + 1 <= op[p].count
        /\ op[p] \in Op /\ op[p].next \in Nat /\ op[p].count \in 0..MaxChunks
        /\ chunk[op[p].next] \in Piece /\ op[p].secret = NoSecret
        /\ op[p].count = base.count
    BY <1>3, KeyringAssumption DEF Collect, IInv, TypeOK, ChunksInv, Chunks, Op
  <2>1. \A joined : Join(joined) \in Secrets \cup {Torn}
    BY DEF Join
  <2>2. /\ UNCHANGED <<base, chunk, held>>
        /\ got' \in [Procs -> Secrets \cup {NoSecret, Torn}]
        /\ told' \in [Procs -> {"ok", "failed"}]
    BY <1>3, <2>1 DEF Collect, Answer, End, IInv, TypeOK
  <2> DEFINE o == [op[p] EXCEPT !.next = op[p].next + 1,
                               !.joined = Append(op[p].joined, chunk[op[p].next])]
  <2>3. \/ op' = [op EXCEPT ![p] = Idle]
        \/ /\ op' = [op EXCEPT ![p] = o]
           /\ op[p].next + 1 # op[p].count
           /\ op[p].pc = "collect"
    BY <1>3 DEF Collect, Answer, End
  <2>4. /\ o \in Op /\ o.pc = op[p].pc
        /\ o.next = op[p].next + 1 /\ o.count = op[p].count
        /\ o.secret = NoSecret
    <3>1. Append(op[p].joined, chunk[op[p].next]) \in Seq(Piece)
      BY <2>0 DEF Op
    <3>2. op[p].next + 1 \in 0..MaxChunks
      BY <2>0, KeyringAssumption
    <3> QED
      BY <2>0, <3>1, <3>2 DEF Op
  <2> HIDE DEF o
  <2>5. /\ op' \in [Procs -> Op]
        /\ \/ op'[p] = Idle
           \/ op'[p] = o /\ o.pc = "collect" /\ o.next < o.count
    <3>1. CASE op' = [op EXCEPT ![p] = Idle]
      BY <3>1, IdleType DEF IInv, TypeOK
    <3>2. CASE op' # [op EXCEPT ![p] = Idle]
      BY <2>0, <2>3, <2>4, <3>2 DEF IInv, TypeOK, Chunks
    <3> QED
      BY <3>1, <3>2
  <2>6. \A q \in Procs : q = p
    BY DEF OneProcess
  <2> QED
    BY <2>0, <2>2, <2>4, <2>5, <2>6 DEF IInv, TypeOK, ChunksInv, NoMixture, Idle
<1>4. CASE Interrupt(p)
  <2>1. /\ op' = [op EXCEPT ![p] = Idle] /\ UNCHANGED <<base, chunk, got, held>>
        /\ told' \in [Procs -> {"ok", "failed"}]
    BY <1>4 DEF Interrupt, End, IInv, TypeOK
  <2>2. \A q \in Procs : op'[q] = Idle
    BY <2>1 DEF IInv, TypeOK, OneProcess
  <2> QED
    BY <2>1, <2>2, KeyringAssumption
    DEF IInv, TypeOK, ChunksInv, NoMixture, Idle, Op
<1> QED
  BY <1>1, <1>2, <1>3, <1>4

LEMMA NextIInv ==
  ASSUME OneProcess
  PROVE  IInv /\ [Next]_vars => IInv'
<1> SUFFICES ASSUME IInv, [Next]_vars PROVE IInv'
  OBVIOUS
<1>1. CASE UNCHANGED vars
  BY <1>1 DEF vars, IInv, TypeOK, ChunksInv, NoMixture
<1>2. ASSUME NEW p \in Procs, Step(p) PROVE IInv'
  <2>1. CASE BeginPut(p) \/ BeginDelete(p)
    BY <2>1, BeginIInv DEF BeginPut, BeginDelete
  <2> QED
    BY <1>2, <2>1, PurgeChunkIInv, WriteChunkIInv, WriteBaseIInv, OtherIInv DEF Step
<1> QED
  BY <1>1, <1>2 DEF Next

-----------------------------------------------------------------------------
(* The theorems.                                                           *)

(* Whatever put or delete was abandoned, and wherever, the chunks the marker *)
(* in force stands for are chunks of one secret (OsKeyring::put, delete).    *)
THEOREM SpecNoMixture ==
  ASSUME OneProcess
  PROVE  Spec => []NoMixture
<1>1. Init => IInv
  BY InitIInv
<1>2. IInv /\ [Next]_vars => IInv'
  BY NextIInv
<1>3. IInv => NoMixture
  BY DEF IInv
<1> QED
  BY <1>1, <1>2, <1>3, PTL DEF Spec

(* The pieces of a chunked secret are no other secret's. *)
LEMMA JoinPieces ==
  ASSUME NEW s \in Secrets, Size[s] # 0
  PROVE  Join(Pieces(s)) = s
<1>1. Size[s] \in Nat /\ 1 \in 1..Size[s]
  BY KeyringAssumption
<1>2. ASSUME NEW t \in Secrets, Pieces(s) = Pieces(t)
      PROVE  t = s
  <2>1. Size[t] \in Nat
    BY KeyringAssumption
  <2>2. DOMAIN Pieces(s) = 1..Size[s] /\ DOMAIN Pieces(t) = 1..Size[t]
    BY DEF Pieces
  <2>3. Pieces(s)[1] = <<s, 0>> /\ Pieces(t)[1] = <<t, 0>>
    BY <1>1, <1>2, <2>2 DEF Pieces
  <2> QED
    BY <1>2, <2>3
<1> QED
  BY <1>2 DEF Join

(* What put writes last makes the key hold the secret it was given. *)
LEMMA PutStores ==
  ASSUME IInv, NEW p \in Procs, WriteBase(p)
  PROVE  Stored' = op[p].secret
<1> DEFINE s == op[p].secret
<1>1. /\ s \in Secrets /\ s # NoSecret /\ Size[s] \in 0..MaxChunks
      /\ \A i \in Chunks : i < Size[s] => chunk[i] = <<s, i>>
      /\ base' = IF Size[s] = 0 THEN Plain(s) ELSE Marker(Size[s])
      /\ chunk' = chunk
  BY KeyringAssumption DEF WriteBase, IInv, ChunksInv
<1> HIDE DEF s
<1>2. CASE Size[s] = 0
  BY <1>1, <1>2 DEF Stored, Plain, s
<1>3. CASE Size[s] # 0
  <2>1. base'.tag = "marker" /\ base'.count = Size[s]
    BY <1>1, <1>3 DEF Marker
  <2>2. \A i \in Chunks : i < Size[s] => chunk'[i] = <<s, i>> /\ chunk'[i] # NoPiece
    BY <1>1 DEF NoPiece
  <2>3. \A i \in 1..Size[s] : i - 1 \in Chunks /\ i - 1 < Size[s]
    BY <1>1, KeyringAssumption DEF Chunks
  <2>4. [i \in 1..Size[s] |-> chunk'[i - 1]] = Pieces(s)
    BY <2>2, <2>3 DEF Pieces
  <2>5. Stored' = Join([i \in 1..Size[s] |-> chunk'[i - 1]])
    BY <2>1, <2>2 DEF Stored, Join
  <2> QED
    BY <1>1, <1>3, <2>4, <2>5, JoinPieces DEF s
<1> QED
  BY <1>2, <1>3

(* A put that completes can be read back, over whatever abandoned operations *)
(* left in the keychain (OsKeyring::put).                                    *)
THEOREM SpecCompletedPutReadable ==
  ASSUME OneProcess
  PROVE  Spec => CompletedPutReadable
<1> DEFINE Readable == \A p \in Procs : WriteBase(p) => Stored' = op[p].secret
<1>1. IInv => Readable
  BY PutStores
<1>2. IInv /\ [Next]_vars => [Readable]_vars
  BY <1>1
<1>3. IInv /\ [Next]_vars => IInv'
  BY NextIInv
<1> HIDE DEF Readable
<1>4. Spec => [][Readable]_vars
  BY InitIInv, <1>2, <1>3, PTL DEF Spec
<1> QED
  BY <1>4 DEF CompletedPutReadable, Readable

(* A put or a delete that completes has removed or covered every chunk of *)
(* what it replaced (OsKeyring::delete_existing_chunks).                  *)
THEOREM SpecNothingLeftBehind ==
  ASSUME OneProcess
  PROVE  Spec => NothingLeftBehind
<1> DEFINE Clean ==
      \A p \in Procs :
        WriteBase(p) \/ Erase(p) =>
          \A i \in Chunks :
            i < op[p].count /\ chunk'[i] # NoPiece => base'.tag = "marker" /\ i < base'.count
<1>1. IInv => Clean
  <2> SUFFICES ASSUME IInv, NEW p \in Procs, WriteBase(p) \/ Erase(p), NEW i \in Chunks,
                      i < op[p].count, chunk'[i] # NoPiece
               PROVE  base'.tag = "marker" /\ i < base'.count
    OBVIOUS
  <2>1. chunk[i] # NoPiece /\ i \in Nat
    BY DEF WriteBase, Erase, Chunks
  <2>2. op[p].pc = "write"
    BY <2>1 DEF WriteBase, Erase, IInv, ChunksInv
  <2>3. op[p].secret \in Secrets /\ Size[op[p].secret] \in Nat /\ i < Size[op[p].secret]
    BY <2>1, <2>2, KeyringAssumption DEF IInv, ChunksInv
  <2>4. base' = Marker(Size[op[p].secret])
    BY <2>1, <2>2, <2>3 DEF WriteBase, Erase
  <2> QED
    BY <2>3, <2>4 DEF Marker
<1>2. IInv /\ [Next]_vars => [Clean]_vars
  BY <1>1
<1>3. IInv /\ [Next]_vars => IInv'
  BY NextIInv
<1> HIDE DEF Clean
<1>4. Spec => [][Clean]_vars
  BY InitIInv, <1>2, <1>3, PTL DEF Spec
<1> QED
  BY <1>4 DEF NothingLeftBehind, Clean

-----------------------------------------------------------------------------
(* The keychain entry implements the atomic cell.                          *)

(* What get has joined is what the chunks it has read hold *)
GetInv ==
  \A p \in Procs :
    op[p].pc = "collect" =>
      /\ op[p].joined = [i \in 1..op[p].next |-> chunk[i - 1]]
      /\ \A i \in Chunks : i < op[p].next => chunk[i] # NoPiece

(* Until the first chunk is purged the key holds what it held *)
HeldInv == \A p \in Procs : op[p].pc = "purge" /\ op[p].next = 0 => held = Stored

RInv == IInv /\ GetInv /\ HeldInv

(* One chunk more is read *)
LEMMA JoinedAppend ==
  ASSUME NEW f \in [Chunks -> Piece], NEW n \in Chunks
  PROVE  Append([i \in 1..n |-> f[i - 1]], f[n]) = [i \in 1..(n + 1) |-> f[i - 1]]
<1>1. n \in Nat /\ \A i \in 1..(n + 1) : i - 1 \in Chunks
  BY KeyringAssumption DEF Chunks
<1>2. [i \in 1..n |-> f[i - 1]] \in Seq(Piece) /\ Len([i \in 1..n |-> f[i - 1]]) = n
  BY <1>1
<1> QED
  BY <1>1, <1>2

LEMMA CollectGetInv ==
  ASSUME OneProcess, RInv, NEW p \in Procs, Collect(p)
  PROVE  GetInv'
<1> DEFINE n == op[p].next
           joined == Append(op[p].joined, chunk[n])
<1>1. n \in Chunks /\ n \in Nat /\ op[p] \in Op
  BY KeyringAssumption DEF Collect, RInv, IInv, TypeOK, ChunksInv, Chunks, Op
<1>2. chunk \in [Chunks -> Piece] /\ chunk' = chunk /\ op[p].pc = "collect"
  BY DEF Collect, RInv, IInv, TypeOK
<1>3. joined = [i \in 1..(n + 1) |-> chunk[i - 1]]
  BY <1>1, <1>2, JoinedAppend DEF RInv, GetInv
<1>4. \/ op' = [op EXCEPT ![p] = Idle]
      \/ /\ op' = [op EXCEPT ![p] = [op[p] EXCEPT !.next = n + 1, !.joined = joined]]
         /\ chunk[n] # NoPiece
  BY DEF Collect, Answer, End
<1> HIDE DEF joined
<1>5. \A q \in Procs : q = p
  BY DEF OneProcess
<1>6. CASE op' = [op EXCEPT ![p] = Idle]
  BY <1>5, <1>6 DEF GetInv, Idle, RInv, IInv, TypeOK
<1>7. CASE /\ op' = [op EXCEPT ![p] = [op[p] EXCEPT !.next = n + 1, !.joined = joined]]
           /\ chunk[n] # NoPiece
  <2>1. op'[p].next = n + 1 /\ op'[p].joined = joined
    BY <1>1, <1>7 DEF RInv, IInv, TypeOK, Op
  <2>2. \A i \in Chunks : i < n + 1 => chunk[i] # NoPiece
    <3>1. \A i \in Chunks : i < n => chunk[i] # NoPiece
      BY <1>2 DEF RInv, GetInv
    <3> QED
      BY <1>1, <1>7, <3>1 DEF Chunks
  <2> QED
    BY <1>2, <1>3, <1>5, <2>1, <2>2 DEF GetInv
<1> QED
  BY <1>4, <1>6, <1>7

(* Only a get reads chunks, and only a put or a delete that begins sets held *)
LEMMA NextRInv ==
  ASSUME OneProcess
  PROVE  RInv /\ [Next]_vars => RInv'
<1> SUFFICES ASSUME RInv, [Next]_vars PROVE RInv'
  OBVIOUS
<1>1. IInv'
  BY NextIInv DEF RInv
<1>2. CASE UNCHANGED vars
  BY <1>1, <1>2 DEF vars, RInv, GetInv, HeldInv, Stored
<1>3. ASSUME NEW p \in Procs, Step(p) PROVE GetInv' /\ HeldInv'
  <2>1. \A q \in Procs : q = p
    BY DEF OneProcess
  <2>2. /\ op \in [Procs -> Op] /\ op[p] \in Op
        /\ op[p].pc = "purge" => op[p].count \in Nat /\ op[p].next \in Nat
    BY DEF RInv, IInv, TypeOK, Op
  <2>3. CASE BeginPut(p) \/ BeginDelete(p)
    <3> PICK s \in Secrets \cup {NoSecret} : Begin(p, s)
      BY <2>3 DEF BeginPut, BeginDelete
    <3>1. op'[p].pc \in {"purge", "erase", "write", "chunks"}
      BY <2>2 DEF Begin, Idle, AfterPurge
    <3>2. held' = Stored /\ UNCHANGED <<base, chunk>>
      BY DEF Begin
    <3>3. held' = Stored'
      BY <3>2 DEF Stored
    <3> QED
      BY <2>1, <3>1, <3>3 DEF GetInv, HeldInv
  <2>4. CASE PurgeChunk(p)
    <3>1. /\ op'[p].pc \in {"purge", "erase", "write", "chunks"}
          /\ op'[p].pc = "purge" => op'[p].next = op[p].next + 1
      <4> DEFINE last == op[p].next + 1 >= op[p].count
                 pc == IF last THEN AfterPurge(op[p].secret) ELSE "purge"
                 next == IF last THEN 0 ELSE op[p].next + 1
      <4>1. op' = [op EXCEPT ![p] = [op[p] EXCEPT !.pc = pc, !.next = next]]
        BY <2>4 DEF PurgeChunk, Goto
      <4>2. pc \in {"purge", "erase", "write", "chunks"} /\ (pc = "purge" => ~last)
        BY DEF AfterPurge
      <4> HIDE DEF pc
      <4>3. op'[p].pc = pc /\ op'[p].next = next
        BY <2>2, <4>1 DEF Op
      <4> QED
        BY <4>2, <4>3
    <3>2. op[p].next \in Nat
      BY <2>2, <2>4 DEF PurgeChunk
    <3> QED
      BY <2>1, <3>1, <3>2 DEF GetInv, HeldInv
  <2>5. CASE WriteChunk(p)
    <3>1. op'[p].pc \in {"write", "chunks"}
      BY <2>2, <2>5 DEF WriteChunk, Goto
    <3> QED
      BY <2>1, <3>1 DEF GetInv, HeldInv
  <2>6. CASE WriteBase(p) \/ Erase(p) \/ Interrupt(p)
    <3>1. op'[p].pc = "idle"
      BY <2>2, <2>6 DEF WriteBase, Erase, Interrupt, End, Idle
    <3> QED
      BY <2>1, <3>1 DEF GetInv, HeldInv
  <2>7. CASE Fetch(p)
    <3> DEFINE o == [Idle EXCEPT !.pc = "collect", !.count = base.count]
    <3>0. o.pc = "collect" /\ o.next = 0 /\ o.joined = <<>>
      BY DEF Idle
    <3>a. op' = [op EXCEPT ![p] = Idle] \/ op' = [op EXCEPT ![p] = o]
      BY <2>7 DEF Fetch, Answer, End
    <3> HIDE DEF o
    <3>1. op'[p].pc \in {"idle", "collect"}
      BY <2>2, <3>0, <3>a DEF Idle
    <3>2. op'[p].pc = "collect" => op'[p].next = 0 /\ op'[p].joined = <<>>
      BY <2>2, <3>0, <3>a DEF Idle
    <3>3. [i \in 1..0 |-> chunk'[i - 1]] = <<>>
      OBVIOUS
    <3>4. \A i \in Chunks : ~(i < 0)
      BY KeyringAssumption DEF Chunks
    <3> QED
      BY <2>1, <3>1, <3>2, <3>3, <3>4 DEF GetInv, HeldInv
  <2>8. CASE Collect(p)
    <3>1. op'[p].pc \in {"idle", "collect"}
      <4> DEFINE o == [op[p] EXCEPT !.next = op[p].next + 1,
                                   !.joined = Append(op[p].joined, chunk[op[p].next])]
      <4>1. op' = [op EXCEPT ![p] = Idle] \/ op' = [op EXCEPT ![p] = o]
        BY <2>8 DEF Collect, Answer, End
      <4>2. o.pc = "collect"
        BY <2>2, <2>8 DEF Collect, Op
      <4> HIDE DEF o
      <4> QED
        BY <2>2, <4>1, <4>2 DEF Idle
    <3> QED
      BY <2>1, <2>8, <3>1, CollectGetInv DEF HeldInv
  <2> QED
    BY <1>3, <2>3, <2>4, <2>5, <2>6, <2>7, <2>8 DEF Step
<1> QED
  BY <1>1, <1>2, <1>3 DEF Next, RInv

(* The beginning of a chunked secret is the whole of it or of none. *)
LEMMA JoinBeginning ==
  ASSUME NEW s \in Secrets, NEW n \in Nat \ {0}
  PROVE  Join([i \in 1..n |-> <<s, i - 1>>]) \in {s, Torn}
<1> DEFINE joined == [i \in 1..n |-> <<s, i - 1>>]
<1>1. ASSUME NEW t \in Secrets, joined = Pieces(t)
      PROVE  t = s
  <2>1. Size[t] \in Nat
    BY KeyringAssumption
  <2>2. DOMAIN joined = 1..n /\ DOMAIN Pieces(t) = 1..Size[t]
    BY DEF Pieces
  <2>3. 1 \in 1..n /\ 1 \in 1..Size[t]
    BY <1>1, <2>1, <2>2
  <2>4. joined[1] = <<s, 0>> /\ Pieces(t)[1] = <<t, 0>>
    BY <2>3 DEF Pieces
  <2> QED
    BY <1>1, <2>4
<1> HIDE DEF joined
<1>2. Join(joined) \in {s, Torn}
  BY <1>1 DEF Join
<1> QED
  BY <1>2 DEF joined

(* What an abandoned put or delete leaves: what was there, what was to be, *)
(* nothing, or the beginning of a secret                                    *)
LEMMA StoredInterrupted ==
  ASSUME RInv, NEW p \in Procs, Writing(p), base.tag = "marker"
  PROVE  Stored \in {held, op[p].secret, NoSecret, Torn}
<1> DEFINE n == base.count
           s == op[p].secret
<1>0. /\ n \in Nat \ {0} /\ n <= MaxChunks /\ MaxChunks \in Nat
      /\ op[p].count = n /\ op[p].next \in Nat
      /\ op[p].pc \in {"purge", "chunks", "write", "erase"}
  BY KeyringAssumption DEF RInv, IInv, TypeOK, ChunksInv, Entry, Op, Writing
<1>1. ASSUME NEW i \in Chunks, i < n, chunk[i] = NoPiece
      PROVE  Stored = NoSecret
  BY <1>1 DEF Stored
<1>2. ASSUME s \in Secrets, \A i \in Chunks : i < n => chunk[i] = <<s, i>>
      PROVE  Stored \in {s, Torn}
  <2>1. \A i \in Chunks : i < n => chunk[i] # NoPiece
    BY <1>2, KeyringAssumption DEF NoPiece
  <2>2. \A i \in 1..n : i - 1 \in Chunks /\ i - 1 < n
    BY <1>0 DEF Chunks
  <2>3. [i \in 1..n |-> chunk[i - 1]] = [i \in 1..n |-> <<s, i - 1>>]
    BY <1>2, <2>2
  <2>4. Stored = Join([i \in 1..n |-> chunk[i - 1]])
    BY <2>1 DEF Stored
  <2> QED
    BY <1>0, <1>2, <2>3, <2>4, JoinBeginning
<1>3. 0 \in Chunks /\ 0 < n /\ \A i \in Nat : i < n => i \in Chunks
  BY <1>0 DEF Chunks
<1>4. CASE op[p].pc = "purge"
  <2>1. op[p].next # 0 => chunk[0] = NoPiece
    BY <1>0, <1>3, <1>4 DEF RInv, IInv, ChunksInv
  <2>2. op[p].next = 0 => Stored = held
    BY <1>4 DEF RInv, HeldInv
  <2> QED
    BY <1>1, <1>3, <2>1, <2>2
<1>5. CASE op[p].pc = "erase"
  <2>1. chunk[0] = NoPiece
    BY <1>0, <1>3, <1>5 DEF RInv, IInv, ChunksInv
  <2> QED
    BY <1>1, <1>3, <2>1
<1>6. CASE op[p].pc = "chunks"
  <2>1. /\ s \in Secrets
        /\ \A i \in Chunks : i < op[p].next => chunk[i] = <<s, i>>
        /\ \A i \in Chunks : op[p].next <= i /\ i < n => chunk[i] = NoPiece
    BY <1>0, <1>6 DEF RInv, IInv, ChunksInv
  <2>2. CASE op[p].next < n
    BY <1>0, <1>1, <1>3, <2>1, <2>2
  <2>3. CASE ~(op[p].next < n)
    BY <1>0, <1>2, <2>1, <2>3 DEF Chunks
  <2> QED
    BY <2>2, <2>3
<1>7. CASE op[p].pc = "write"
  <2>1. /\ s \in Secrets /\ Size[s] \in Nat
        /\ \A i \in Chunks : i < Size[s] => chunk[i] = <<s, i>>
        /\ \A i \in Chunks : Size[s] <= i /\ i < n => chunk[i] = NoPiece
    BY <1>0, <1>7, KeyringAssumption DEF RInv, IInv, ChunksInv
  <2>2. CASE Size[s] < n
    BY <1>0, <1>1, <1>3, <2>1, <2>2
  <2>3. CASE ~(Size[s] < n)
    BY <1>0, <1>2, <2>1, <2>3 DEF Chunks
  <2> QED
    BY <2>2, <2>3
<1> QED
  BY <1>0, <1>4, <1>5, <1>6, <1>7

-----------------------------------------------------------------------------
(* Every step is a step of the cell, or none.                              *)

CellVars == <<Cell, Want, got, told>>

(* With one process the cell is easily told *)
LEMMA CellAlone ==
  ASSUME OneProcess, NEW p \in Procs
  PROVE  /\ Cell = IF base.tag = "marker" /\ Writing(p) THEN held ELSE Stored
         /\ Cell' = IF base'.tag = "marker" /\ Writing(p)' THEN held' ELSE Stored'
BY DEF Cell, OneProcess

(* What a step that changes one process asks for *)
LEMMA WantAlone ==
  ASSUME OneProcess, NEW p \in Procs
  PROVE  /\ Want[p] = [asked |-> Writing(p), secret |-> op[p].secret]
         /\ Want' = [Want EXCEPT ![p] = [asked |-> Writing(p)', secret |-> op'[p].secret]]
BY DEF Want, OneProcess, Writing

LEMMA BeginRefines ==
  ASSUME OneProcess, RInv, NEW p \in Procs, NEW s \in Secrets \cup {NoSecret}, Begin(p, s)
  PROVE  Abstract!Ask(p, s)
<1> DEFINE pc == IF base.tag = "marker" THEN "purge" ELSE AfterPurge(s)
           o == [Idle EXCEPT !.pc = pc, !.secret = s, !.count = base.count]
<1>1. o.pc = pc /\ o.secret = s
  BY DEF Idle
<1>2. op' = [op EXCEPT ![p] = o] /\ held' = Stored /\ UNCHANGED <<base, chunk, got, told>>
  BY DEF Begin
<1>3. pc \in {"purge", "erase", "write", "chunks"}
  BY DEF AfterPurge
<1> HIDE DEF o, pc
<1>4. op'[p].pc = pc /\ op'[p].secret = s
  BY <1>1, <1>2 DEF RInv, IInv, TypeOK
<1>5. Writing(p)' = TRUE /\ Writing(p) = FALSE /\ op[p].secret = NoSecret
  BY <1>3, <1>4 DEF Writing, Begin, RInv, IInv, ChunksInv
<1>6. Stored' = Stored
  BY <1>2 DEF Stored
<1>7. Cell' = Cell
  BY <1>2, <1>5, <1>6, CellAlone
<1> QED
  BY <1>2, <1>4, <1>5, <1>7, WantAlone DEF Abstract!Ask, Abstract!Nothing

LEMMA ChunkStepRefines ==
  ASSUME OneProcess, RInv, NEW p \in Procs, PurgeChunk(p) \/ WriteChunk(p)
  PROVE  UNCHANGED CellVars
<1>1. /\ Writing(p) = TRUE /\ Writing(p)' = TRUE /\ op'[p].secret = op[p].secret
      /\ UNCHANGED <<base, got, told, held>>
  <2>1. op[p] \in Op /\ op \in [Procs -> Op]
    BY DEF RInv, IInv, TypeOK
  <2>2. PICK pc \in {"purge", "erase", "write", "chunks"}, next \in Nat :
          op' = [op EXCEPT ![p] = [op[p] EXCEPT !.pc = pc, !.next = next]]
    <3>1. op[p].next + 1 \in Nat
      BY <2>1, KeyringAssumption DEF Op
    <3>2. AfterPurge(op[p].secret) \in {"erase", "write", "chunks"}
      BY DEF AfterPurge
    <3>3. CASE PurgeChunk(p) /\ op[p].next + 1 >= op[p].count
      BY <3>2, <3>3 DEF PurgeChunk, Goto
    <3>4. CASE PurgeChunk(p) /\ ~(op[p].next + 1 >= op[p].count)
      BY <3>1, <3>4 DEF PurgeChunk, Goto
    <3>5. CASE WriteChunk(p)
      BY <3>1, <3>5 DEF WriteChunk, Goto
    <3> QED
      BY <3>3, <3>4, <3>5
  <2>3. op'[p].pc = pc /\ op'[p].secret = op[p].secret
    BY <2>1, <2>2 DEF Op
  <2> QED
    BY <2>3 DEF Writing, PurgeChunk, WriteChunk
<1>4. Want' = Want
  BY <1>1 DEF Want, OneProcess, Writing
<1>2. CASE base.tag = "marker"
  <2>1. Cell' = Cell
    BY <1>1, <1>2, CellAlone
  <2> QED
    BY <1>1, <1>4, <2>1 DEF CellVars
<1>3. CASE base.tag # "marker"
  <2>1. base.tag \in {"absent", "plain"}
    BY <1>3 DEF RInv, IInv, TypeOK, Entry
  <2>2. Stored' = Stored
    BY <1>1, <2>1 DEF Stored
  <2>3. Cell' = Cell
    BY <1>1, <1>3, <2>2, CellAlone
  <2> QED
    BY <1>1, <1>4, <2>3 DEF CellVars
<1> QED
  BY <1>2, <1>3

(* What an operation leaves behind it when it ends *)
LEMMA EndIsIdle ==
  ASSUME OneProcess, RInv, NEW p \in Procs, op' = [op EXCEPT ![p] = Idle]
  PROVE  /\ Writing(p)' = FALSE
         /\ Want' = [Want EXCEPT ![p] = [asked |-> FALSE, secret |-> NoSecret]]
         /\ Cell' = Stored'
<1>1. op'[p].pc = "idle" /\ op'[p].secret = NoSecret
  BY DEF RInv, IInv, TypeOK, Idle
<1>2. Writing(p)' = FALSE
  BY <1>1 DEF Writing
<1> QED
  BY <1>1, <1>2, CellAlone, WantAlone

LEMMA WriteRefines ==
  ASSUME OneProcess, RInv, NEW p \in Procs, WriteBase(p) \/ Erase(p)
  PROVE  Abstract!TakeEffect(p)
<1>1. Writing(p) = TRUE
  BY DEF Writing, WriteBase, Erase
<1>2. op' = [op EXCEPT ![p] = Idle] /\ told' = [told EXCEPT ![p] = "ok"] /\ UNCHANGED got
  BY DEF WriteBase, Erase, End
<1>3. Stored' = op[p].secret
  <2>1. CASE WriteBase(p)
    BY <2>1, PutStores DEF RInv
  <2>2. CASE Erase(p)
    BY <2>2 DEF Erase, Stored, Absent, RInv, IInv, ChunksInv
  <2> QED
    BY <2>1, <2>2
<1>4. Want[p] = [asked |-> TRUE, secret |-> op[p].secret]
  BY <1>1, WantAlone
<1>5. Cell' = Want[p].secret /\ Want[p].asked
  <2>1. Want[p].secret = op[p].secret /\ Want[p].asked = TRUE
    BY <1>4
  <2>2. Cell' = Stored'
    BY <1>2, EndIsIdle
  <2> QED
    BY <1>3, <2>1, <2>2
<1>6. Want' = [Want EXCEPT ![p] = Abstract!Nothing]
  BY <1>2, EndIsIdle DEF Abstract!Nothing
<1> QED
  BY <1>2, <1>5, <1>6 DEF Abstract!TakeEffect, Abstract!Tell

LEMMA InterruptRefines ==
  ASSUME OneProcess, RInv, NEW p \in Procs, Interrupt(p)
  PROVE  Abstract!GiveUp(p) \/ Abstract!Get(p)
<1>1. /\ op' = [op EXCEPT ![p] = Idle] /\ told' = [told EXCEPT ![p] = "failed"]
      /\ UNCHANGED <<base, chunk, got, held>>
  BY DEF Interrupt, End
<1>2. Stored' = Stored
  BY <1>1 DEF Stored
<1>3. CASE Writing(p)
  <2>1. Stored \in {Cell, op[p].secret, NoSecret, Torn}
    <3>1. CASE base.tag = "marker"
      BY <1>3, <3>1, StoredInterrupted, CellAlone
    <3>2. CASE base.tag # "marker"
      BY <3>2, CellAlone
    <3> QED
      BY <3>1, <3>2
  <2>2. Writing(p) = TRUE
    BY <1>3 DEF Writing
  <2>3. Want[p] = [asked |-> TRUE, secret |-> op[p].secret]
    BY <2>2, WantAlone
  <2>4. Want[p].asked /\ Cell' \in {Cell, Want[p].secret, NoSecret, Torn}
    <3>1. Want[p].secret = op[p].secret /\ Want[p].asked = TRUE
      BY <2>3
    <3>2. Cell' = Stored'
      BY <1>1, EndIsIdle
    <3> QED
      BY <1>2, <2>1, <3>1, <3>2
  <2>5. Want' = [Want EXCEPT ![p] = Abstract!Nothing]
    BY <1>1, EndIsIdle DEF Abstract!Nothing
  <2> QED
    BY <1>1, <2>4, <2>5 DEF Abstract!GiveUp, Abstract!Tell
<1>4. CASE ~Writing(p)
  <2>1. op[p].secret = NoSecret /\ Writing(p) = FALSE
    BY <1>4 DEF Writing, RInv, IInv, ChunksInv
  <2>2. Cell' = Cell
    BY <1>2, <1>4, EndIsIdle, <1>1, CellAlone
  <2>3. Want[p] = Abstract!Nothing /\ Want' = [Want EXCEPT ![p] = Want[p]]
    BY <1>1, <2>1, EndIsIdle, WantAlone DEF Abstract!Nothing
  <2>4. Want' = Want
    BY <2>3 DEF Want
  <2> QED
    BY <1>1, <2>2, <2>3, <2>4 DEF Abstract!Get, Abstract!Tell
<1> QED
  BY <1>3, <1>4

(* An answer of a get that is what the key holds *)
LEMMA AnswerRefines ==
  ASSUME OneProcess, RInv, NEW p \in Procs, ~Writing(p), Answer(p, Stored),
         UNCHANGED <<base, chunk, held>>
  PROVE  Abstract!Get(p)
<1>1. /\ op' = [op EXCEPT ![p] = Idle] /\ told' = [told EXCEPT ![p] = "ok"]
      /\ got' = [got EXCEPT ![p] = Stored]
  BY DEF Answer, End
<1>2. op[p].secret = NoSecret /\ Writing(p) = FALSE
  BY DEF Writing, RInv, IInv, ChunksInv
<1>3. Stored' = Stored
  BY DEF Stored
<1>4. Cell = Stored /\ Cell' = Cell
  BY <1>1, <1>2, <1>3, EndIsIdle, CellAlone
<1>5. Want[p] = Abstract!Nothing /\ Want' = [Want EXCEPT ![p] = Want[p]]
  BY <1>1, <1>2, EndIsIdle, WantAlone DEF Abstract!Nothing
<1>6. Want' = Want
  BY <1>5 DEF Want
<1> QED
  BY <1>1, <1>4, <1>5, <1>6 DEF Abstract!Get, Abstract!Tell

(* A get goes on to read chunks *)
LEMMA ReadingRefines ==
  ASSUME OneProcess, RInv, NEW p \in Procs, op[p].pc \in {"idle", "collect"},
         op'[p].pc = "collect", op'[p].secret = NoSecret,
         UNCHANGED <<base, chunk, got, told, held>>
  PROVE  UNCHANGED CellVars
<1>1. Writing(p) = FALSE /\ Writing(p)' = FALSE /\ op[p].secret = NoSecret
  BY DEF Writing, RInv, IInv, ChunksInv
<1>2. Stored' = Stored
  BY DEF Stored
<1>3. Cell' = Cell
  BY <1>1, <1>2, CellAlone
<1>4. Want[p] = [asked |-> FALSE, secret |-> NoSecret]
  BY <1>1, WantAlone, Zenon
<1>5. Want' = [Want EXCEPT ![p] = [asked |-> FALSE, secret |-> NoSecret]]
  BY <1>1, WantAlone, Zenon
<1>6. Want' = Want
  BY <1>4, <1>5 DEF Want
<1> QED
  BY <1>3, <1>6 DEF CellVars

LEMMA GetRefines ==
  ASSUME OneProcess, RInv, NEW p \in Procs, Fetch(p) \/ Collect(p)
  PROVE  Abstract!Get(p) \/ UNCHANGED CellVars
<1>0. op \in [Procs -> Op] /\ op[p] \in Op
  BY DEF RInv, IInv, TypeOK
<1>1. CASE Fetch(p)
  <2>1. ~Writing(p) /\ op[p].pc = "idle" /\ UNCHANGED <<base, chunk, held>>
    BY <1>1 DEF Fetch, Writing
  <2>2. CASE base.tag = "marker"
    <3> DEFINE o == [Idle EXCEPT !.pc = "collect", !.count = base.count]
    <3>1. op' = [op EXCEPT ![p] = o] /\ UNCHANGED <<got, told>>
      BY <1>1, <2>2 DEF Fetch
    <3>2. o.pc = "collect" /\ o.secret = NoSecret
      BY DEF Idle
    <3> HIDE DEF o
    <3>3. op'[p].pc = "collect" /\ op'[p].secret = NoSecret
      BY <1>0, <3>1, <3>2
    <3> QED
      BY <2>1, <3>1, <3>3, ReadingRefines
  <2>3. CASE base.tag # "marker"
    <3>1. Answer(p, base.secret)
      BY <1>1, <2>3 DEF Fetch
    <3>2. base.tag \in {"absent", "plain"} /\ (base.tag = "absent" => base.secret = NoSecret)
      BY <2>3 DEF RInv, IInv, TypeOK, Entry, ChunksInv
    <3>3. Stored = base.secret
      BY <3>2 DEF Stored
    <3> QED
      BY <2>1, <3>1, <3>3, AnswerRefines
  <2> QED
    BY <2>2, <2>3
<1>2. CASE Collect(p)
  <2> DEFINE n == op[p].next
             joined == Append(op[p].joined, chunk[n])
             o == [op[p] EXCEPT !.next = n + 1, !.joined = joined]
  <2>1. /\ ~Writing(p) /\ op[p].pc = "collect" /\ UNCHANGED <<base, chunk, held>>
        /\ op[p].count = base.count /\ n < base.count /\ n \in Nat /\ base.count \in Nat
        /\ base.tag = "marker" /\ op[p].secret = NoSecret
        /\ base.count <= MaxChunks /\ n \in Chunks
    BY <1>2, KeyringAssumption
    DEF Collect, Writing, RInv, IInv, TypeOK, ChunksInv, Op, Entry, Chunks
  <2>2. \/ chunk[n] = NoPiece /\ Answer(p, NoSecret)
        \/ chunk[n] # NoPiece /\ n + 1 = base.count /\ Answer(p, Join(joined))
        \/ op' = [op EXCEPT ![p] = o] /\ UNCHANGED <<got, told>>
    BY <1>2, <2>1 DEF Collect
  <2>3. joined = [i \in 1..(n + 1) |-> chunk[i - 1]]
    <3>1. chunk \in [Chunks -> Piece]
      BY DEF RInv, IInv, TypeOK
    <3>2. op[p].joined = [i \in 1..n |-> chunk[i - 1]]
      BY <2>1 DEF RInv, GetInv
    <3> QED
      BY <2>1, <3>1, <3>2, JoinedAppend
  <2>4. o.pc = "collect" /\ o.secret = NoSecret
    BY <1>0, <2>1 DEF Op
  <2> HIDE DEF o, joined
  <2>5. CASE chunk[n] = NoPiece /\ Answer(p, NoSecret)
    <3>1. Stored = NoSecret
      BY <2>1, <2>5 DEF Stored
    <3> QED
      BY <2>1, <2>5, <3>1, AnswerRefines
  <2>6. CASE chunk[n] # NoPiece /\ n + 1 = base.count /\ Answer(p, Join(joined))
    <3>1. \A i \in Chunks : i < n => chunk[i] # NoPiece
      BY <2>1 DEF RInv, GetInv
    <3>2. \A i \in Chunks : i < base.count => chunk[i] # NoPiece
      BY <2>1, <2>6, <3>1 DEF Chunks
    <3>3. Stored = Join([i \in 1..base.count |-> chunk[i - 1]])
      BY <2>1, <3>2 DEF Stored
    <3>4. Stored = Join(joined)
      BY <2>3, <2>6, <3>3
    <3> QED
      BY <2>1, <2>6, <3>4, AnswerRefines
  <2>7. CASE op' = [op EXCEPT ![p] = o] /\ UNCHANGED <<got, told>>
    <3>1. op'[p].pc = "collect" /\ op'[p].secret = NoSecret
      BY <1>0, <2>4, <2>7
    <3> QED
      BY <2>1, <2>7, <3>1, ReadingRefines
  <2> QED
    BY <2>2, <2>5, <2>6, <2>7
<1> QED
  BY <1>1, <1>2

(* With one process at a time, OsKeyring's put, get and delete are those of an *)
(* atomic cell, wherever a keychain call fails and over whatever that leaves;  *)
(* only an operation that failed leaves the cell damaged.                      *)
THEOREM SpecActsAtomically ==
  ASSUME OneProcess
  PROVE  Spec => ActsAtomically
<1>1. Init => Abstract!Init
  <2> SUFFICES ASSUME Init PROVE Abstract!Init
    OBVIOUS
  <2>1. Stored = NoSecret /\ base.tag = "absent"
    BY DEF Init, Absent, Stored
  <2>2. Cell = NoSecret
    BY <2>1 DEF Cell
  <2>3. \A p \in Procs : Writing(p) = FALSE /\ op[p].secret = NoSecret
    BY DEF Init, Idle, Writing
  <2>4. Want = [p \in Procs |-> Abstract!Nothing]
    BY <2>3 DEF Want, Abstract!Nothing
  <2> QED
    BY <2>2, <2>4 DEF Init, Abstract!Init
<1>2. Init => RInv
  BY InitIInv DEF Init, RInv, GetInv, HeldInv, Idle
<1>3. RInv /\ [Next]_vars => [Abstract!Next]_CellVars
  <2> SUFFICES ASSUME RInv, [Next]_vars PROVE [Abstract!Next]_CellVars
    OBVIOUS
  <2>1. CASE UNCHANGED vars
    BY <2>1 DEF vars, CellVars, Cell, Want, Writing, Stored
  <2>2. ASSUME NEW p \in Procs, Step(p) PROVE [Abstract!Next]_CellVars
    <3>1. CASE BeginPut(p) \/ BeginDelete(p)
      BY <3>1, BeginRefines DEF BeginPut, BeginDelete, Abstract!Next
    <3>2. CASE PurgeChunk(p) \/ WriteChunk(p)
      BY <3>2, ChunkStepRefines
    <3>3. CASE WriteBase(p) \/ Erase(p)
      BY <3>3, WriteRefines DEF Abstract!Next
    <3>4. CASE Fetch(p) \/ Collect(p)
      BY <3>4, GetRefines DEF Abstract!Next
    <3>5. CASE Interrupt(p)
      BY <3>5, InterruptRefines DEF Abstract!Next
    <3> QED
      BY <2>2, <3>1, <3>2, <3>3, <3>4, <3>5 DEF Step
  <2> QED
    BY <2>1, <2>2 DEF Next
<1>4. RInv /\ [Next]_vars => RInv'
  BY NextRInv
<1>5. Spec => Abstract!Init /\ [][Abstract!Next]_CellVars
  BY <1>1, <1>2, <1>3, <1>4, PTL DEF Spec
<1> QED
  BY <1>5 DEF ActsAtomically, Abstract!Spec, CellVars
=============================================================================
