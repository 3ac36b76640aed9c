------------------------------- MODULE Keyring -------------------------------
(***************************************************************************)
(* OsKeyring (crates/arkived-core/src/auth/credentials.rs): one key of the *)
(* credential store over an operating system keychain that limits the size *)
(* of an entry.  A secret that fits is one entry; a longer one is cut into *)
(* chunks, each an entry of its own, and the key's entry is a marker with  *)
(* their number.                                                           *)
(*                                                                         *)
(* Each call to the keychain is one action.  The processes (commands of    *)
(* the desktop application, invocations of the command line tool) do not   *)
(* lock each other out.  Any call to the keychain may fail and any process *)
(* may die between two calls: both abandon the operation where it stands.  *)
(***************************************************************************)
EXTENDS Naturals, Sequences

CONSTANTS
  Procs,          \* the processes that use the key
  Secrets,
  NoSecret,       \* the answer NotFound
  Torn,           \* an answer that is no whole secret
  Size,           \* chunks each secret is cut into; 0 when it fits one entry
  MaxChunks

ASSUME KeyringAssumption ==
  /\ Size \in [Secrets -> 0..MaxChunks]
  /\ MaxChunks \in Nat
  /\ NoSecret \notin Secrets
  /\ Torn \notin Secrets \cup {NoSecret}

VARIABLES
  base,    \* the entry under the key itself
  chunk,   \* the entries key::chunk::i
  op,      \* the operation each process is in
  got,     \* what each process's last get returned
  told,    \* what its last operation told it
  held     \* what the key held when the last put or delete began (observation)

vars == <<base, chunk, op, got, told, held>>

Chunks == 0..(MaxChunks - 1)

Entry == [tag : {"absent", "plain", "marker"}, secret : Secrets \cup {NoSecret}, count : 0..MaxChunks]

Absent   == [tag |-> "absent", secret |-> NoSecret, count |-> 0]
Plain(s) == [tag |-> "plain", secret |-> s, count |-> 0]
Marker(n) == [tag |-> "marker", secret |-> NoSecret, count |-> n]

(* A piece is a secret and the position of the chunk in it *)
NoPiece == <<NoSecret, 0>>
Piece == (Secrets \X Chunks) \cup {NoPiece}

Op == [pc : {"idle", "purge", "chunks", "write", "erase", "collect"},
       secret : Secrets \cup {NoSecret}, next : 0..MaxChunks, count : 0..MaxChunks,
       joined : Seq(Piece)]

Idle == [pc |-> "idle", secret |-> NoSecret, next |-> 0, count |-> 0, joined |-> <<>>]

TypeOK ==
  /\ base \in Entry
  /\ chunk \in [Chunks -> Piece]
  /\ op \in [Procs -> Op]
  /\ got \in [Procs -> Secrets \cup {NoSecret, Torn}]
  /\ told \in [Procs -> {"ok", "failed"}]
  /\ held \in Secrets \cup {NoSecret, Torn}

Init ==
  /\ base = Absent
  /\ chunk = [i \in Chunks |-> NoPiece]
  /\ op = [p \in Procs |-> Idle]
  /\ got = [p \in Procs |-> NoSecret]
  /\ told = [p \in Procs |-> "ok"]
  /\ held = NoSecret

(* An operation ends: the process is told how *)
End(p, outcome) ==
  /\ op' = [op EXCEPT ![p] = Idle]
  /\ told' = [told EXCEPT ![p] = outcome]

(* The pieces of a secret, in order, and the secret a sequence of pieces is *)
Pieces(s) == [i \in 1..Size[s] |-> <<s, i - 1>>]

Join(joined) ==
  IF \E s \in Secrets : joined = Pieces(s)
  THEN CHOOSE s \in Secrets : joined = Pieces(s)
  ELSE Torn

(* What a get that ran alone would return *)
Stored ==
  CASE base.tag = "absent" -> NoSecret
    [] base.tag = "plain"  -> base.secret
    [] base.tag = "marker" ->
         IF \E i \in Chunks : i < base.count /\ chunk[i] = NoPiece
         THEN NoSecret
         ELSE Join([i \in 1..base.count |-> chunk[i - 1]])

-----------------------------------------------------------------------------
(* put and delete.                                                         *)

(* Where an operation goes once no chunk of the old secret is left: s is the *)
(* secret to put, or NoSecret for a delete.                                  *)
AfterPurge(s) ==
  IF s = NoSecret THEN "erase" ELSE IF Size[s] = 0 THEN "write" ELSE "chunks"

Goto(p, pc, next) ==
  op' = [op EXCEPT ![p] = [@ EXCEPT !.pc = pc, !.next = next]]

(* Mutant: a secret that fits one entry is written straight away. *)
BeginUnlessPlain(p, s) ==
  /\ op[p].pc = "idle"
  /\ LET purge == base.tag = "marker" /\ AfterPurge(s) # "write"
     IN  op' = [op EXCEPT ![p] = [Idle EXCEPT
                  !.pc = IF purge THEN "purge" ELSE AfterPurge(s),
                  !.secret = s,
                  !.count = base.count]]
  /\ held' = Stored
  /\ UNCHANGED <<base, chunk, got, told>>

(* delete_existing_chunks reads the key's entry *)
Begin(p, s) ==
  /\ op[p].pc = "idle"
  /\ op' = [op EXCEPT ![p] = [Idle EXCEPT
               !.pc = IF base.tag = "marker" THEN "purge" ELSE AfterPurge(s),
               !.secret = s,
               !.count = base.count]]
  /\ held' = Stored
  /\ UNCHANGED <<base, chunk, got, told>>

BeginPut(p) == \E s \in Secrets : Begin(p, s)

BeginDelete(p) == Begin(p, NoSecret)

(* Mutant: the last chunk of the old secret is left behind. *)
PurgeChunkShort(p) ==
  /\ op[p].pc = "purge"
  /\ LET i == op[p].next
         last == i + 2 >= op[p].count
     IN  /\ chunk' = [chunk EXCEPT ![i] = NoPiece]
         /\ IF last THEN Goto(p, AfterPurge(op[p].secret), 0) ELSE Goto(p, "purge", i + 1)
  /\ UNCHANGED <<base, got, told, held>>

(* delete_existing_chunks deletes one chunk of the old secret *)
PurgeChunk(p) ==
  /\ op[p].pc = "purge"
  /\ LET i == op[p].next
         last == i + 1 >= op[p].count
     IN  /\ chunk' = [chunk EXCEPT ![i] = NoPiece]
         /\ IF last THEN Goto(p, AfterPurge(op[p].secret), 0) ELSE Goto(p, "purge", i + 1)
  /\ UNCHANGED <<base, got, told, held>>

(* Mutant: a chunk that is already there is not written again. *)
WriteChunkIfMissing(p) ==
  /\ op[p].pc = "chunks"
  /\ LET s == op[p].secret
         i == op[p].next
         last == i + 1 = Size[s]
     IN  /\ chunk' = IF chunk[i] = NoPiece THEN [chunk EXCEPT ![i] = <<s, i>>] ELSE chunk
         /\ Goto(p, IF last THEN "write" ELSE "chunks", i + 1)
  /\ UNCHANGED <<base, got, told, held>>

(* put writes one chunk of the new secret *)
WriteChunk(p) ==
  /\ op[p].pc = "chunks"
  /\ LET s == op[p].secret
         i == op[p].next
         last == i + 1 = Size[s]
     IN  /\ chunk' = [chunk EXCEPT ![i] = <<s, i>>]
         /\ Goto(p, IF last THEN "write" ELSE "chunks", i + 1)
  /\ UNCHANGED <<base, got, told, held>>

(* put writes the key's entry: the secret, or the marker of its chunks *)
WriteBase(p) ==
  /\ op[p].pc = "write"
  /\ LET s == op[p].secret
     IN  base' = IF Size[s] = 0 THEN Plain(s) ELSE Marker(Size[s])
  /\ End(p, "ok")
  /\ UNCHANGED <<chunk, got, held>>

(* delete removes the key's entry *)
Erase(p) ==
  /\ op[p].pc = "erase"
  /\ base' = Absent
  /\ End(p, "ok")
  /\ UNCHANGED <<chunk, got, held>>

-----------------------------------------------------------------------------
(* get.                                                                    *)

Answer(p, answer) ==
  /\ got' = [got EXCEPT ![p] = answer]
  /\ End(p, "ok")

(* get reads the key's entry *)
Fetch(p) ==
  /\ op[p].pc = "idle"
  /\ IF base.tag = "marker"
     THEN /\ op' = [op EXCEPT ![p] = [Idle EXCEPT !.pc = "collect", !.count = base.count]]
          /\ UNCHANGED <<got, told>>
     ELSE Answer(p, base.secret)
  /\ UNCHANGED <<base, chunk, held>>

(* Mutant: a missing chunk is skipped. *)
CollectSkipping(p) ==
  /\ op[p].pc = "collect"
  /\ LET i == op[p].next
         joined == IF chunk[i] = NoPiece THEN op[p].joined ELSE Append(op[p].joined, chunk[i])
     IN  IF i + 1 = op[p].count
         THEN Answer(p, Join(joined))
         ELSE /\ op' = [op EXCEPT ![p] = [@ EXCEPT !.next = i + 1, !.joined = joined]]
              /\ UNCHANGED <<got, told>>
  /\ UNCHANGED <<base, chunk, held>>

(* get reads one chunk; without it the whole secret counts as missing *)
Collect(p) ==
  /\ op[p].pc = "collect"
  /\ LET i == op[p].next
         joined == Append(op[p].joined, chunk[i])
     IN  IF chunk[i] = NoPiece
         THEN Answer(p, NoSecret)
         ELSE IF i + 1 = op[p].count
              THEN Answer(p, Join(joined))
              ELSE /\ op' = [op EXCEPT ![p] = [@ EXCEPT !.next = i + 1, !.joined = joined]]
                   /\ UNCHANGED <<got, told>>
  /\ UNCHANGED <<base, chunk, held>>

-----------------------------------------------------------------------------
(* A keychain call fails, or the process dies *)
Interrupt(p) ==
  /\ op[p].pc # "idle"
  /\ End(p, "failed")
  /\ UNCHANGED <<base, chunk, got, held>>

Step(p) ==
  \/ BeginPut(p) \/ BeginDelete(p) \/ PurgeChunk(p) \/ WriteChunk(p) \/ WriteBase(p)
  \/ Erase(p) \/ Fetch(p) \/ Collect(p) \/ Interrupt(p)

Next == \E p \in Procs : Step(p)

Spec == Init /\ [][Next]_vars

-----------------------------------------------------------------------------
(* Properties.                                                             *)

(* The chunks a marker stands for never come from two secrets, even after a *)
(* put was abandoned anywhere and others followed: what get returns may be  *)
(* the beginning of a secret, but never a mixture.  It takes that only one  *)
(* process works at a time.                                                 *)
NoMixture ==
  base.tag = "marker" =>
    \A i, j \in Chunks :
      i < base.count /\ j < base.count /\ NoPiece \notin {chunk[i], chunk[j]} =>
        chunk[i][1] = chunk[j][1]

(* "Retrieve a secret previously stored under `key`" (credentials.rs:10): *)
(* get returns a whole secret, or that there is none.                     *)
ReturnsStored == \A p \in Procs : got[p] # Torn

(* A put or delete that completes leaves no chunk of the secret it replaced *)
(* in the keychain: what the old marker covered is gone or covered anew.    *)
NothingLeftBehind ==
  [][\A p \in Procs :
       WriteBase(p) \/ Erase(p) =>
         \A i \in Chunks :
           i < op[p].count /\ chunk'[i] # NoPiece => base'.tag = "marker" /\ i < base'.count]_vars

(* A put that completes can be read back, whatever operations abandoned *)
(* before it left in the keychain.                                      *)
CompletedPutReadable ==
  [][\A p \in Procs : WriteBase(p) => Stored' = op[p].secret]_vars

(* put, get and delete act as if at one instant, even over what abandoned *)
(* operations left; an abandoned one may leave the key as it was, changed,  *)
(* empty or damaged, until the next that completes.  While an operation     *)
(* replaces a chunked secret the cell is what it was when it began.         *)
Writing(p) == op[p].pc \notin {"idle", "collect"}

Cell == IF base.tag = "marker" /\ \E p \in Procs : Writing(p) THEN held ELSE Stored

Want == [p \in Procs |-> [asked |-> Writing(p), secret |-> op[p].secret]]

Abstract == INSTANCE SecretCell WITH cell <- Cell, want <- Want

ActsAtomically == Abstract!Spec
=============================================================================
