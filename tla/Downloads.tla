------------------------------- MODULE Downloads -------------------------------
(***************************************************************************)
(* What a download does to the local disk: download_blob and               *)
(* download_blob_prefix of the desktop (app/src-tauri/src/commands.rs) and *)
(* cp of the command line (crates/arkived-cli/src/commands.rs).            *)
(*                                                                         *)
(* The desktop takes the first name that nothing in the downloads          *)
(* directory has, and makes the file later; cp writes where it is told.    *)
(* Several downloads run at a time, in one process or in several.  Nothing *)
(* else changes the files a download has made.                             *)
(***************************************************************************)
EXTENDS Naturals, Sequences, FiniteSets, Functions

CONSTANTS
  Downloads,   \* the downloads
  Prefixes,    \* those of a prefix, into a directory
  Copies,      \* those of the command line
  Source,      \* the blobs each of them is to fetch
  Base,        \* the name each would like in the downloads directory
  Blobs,       \* the blobs of the service
  LocalName,   \* what the desktop calls a blob inside a directory
  NoName,      \* ... and that of the blob that marks the directory
  Pieces,      \* the chunks each blob comes in
  Found,       \* the files of the downloads directory that are there before
  Nothing,     \* no blob, no content
  MaxIndex,    \* numbers tried after a name that is taken (999)
  Changing,    \* the blobs other clients write or delete (a bound)
  MaxVersion,  \* contents a blob has, one after the other (a bound)
  Wanted       \* the sets of downloads that may run together (a bound)

ASSUME DownloadsAssumption ==
  /\ Prefixes \subseteq Downloads /\ Copies \subseteq Downloads \ Prefixes
  /\ \A c \in Copies, d \in Prefixes : Base[c] # Base[d]
  /\ Source \in [Downloads -> SUBSET Blobs]
  /\ \A d \in Downloads \ Prefixes : \E b \in Blobs : Source[d] = {b}
  /\ Pieces \in [Blobs -> Nat] /\ Changing \subseteq Blobs /\ Nothing \notin Blobs
  /\ \A place \in Found : place[3] = NoName
  /\ MaxIndex \in Nat /\ MaxVersion \in Nat
  /\ Wanted \subseteq SUBSET Downloads

VARIABLES
  stored,   \* the version of each blob, Nothing if there is none
  dirs,     \* the directories made
  disk,     \* what the files hold
  at,       \* where each download stands
  index,    \* the number in hand: 0 for the name itself
  left,     \* the blobs it has still to fetch
  item,     \* the blob in hand
  version,  \* the version the service sends it
  got,      \* chunks of it written
  fetched,  \* the versions of the blobs it has fetched
  outcome,  \* how it ended
  there     \* the files that were there when its name was chosen (observation)

own == <<at, index, left, item, version, got, fetched, outcome, there>>

dvars == <<stored, dirs, disk, own>>

(* A place on the disk is a name, its number and, in a directory, the name *)
(* of the file                                                             *)
Top(d) == <<Base[d], index[d]>>

Place(d, b) == <<Base[d], index[d], IF d \in Prefixes THEN LocalName[b] ELSE NoName>>

IsFile(top) == <<top[1], top[2], NoName>> \in DOMAIN disk

Exists(top) == top \in dirs \/ IsFile(top)

(* Chunk k of version v of blob b *)
Mark(b, v, k) == <<b, v, k>>

Whole(b, v) == [k \in 1..Pieces[b] |-> Mark(b, v, k)]

NoVersions == [b \in {} |-> 0]

DInit ==
  /\ stored = [b \in Blobs |-> 1]
  /\ dirs = {}
  /\ disk = [p \in Found |-> <<Nothing>>]
  /\ \E some \in Wanted :
       at = [d \in Downloads |-> IF d \in some THEN "idle" ELSE "over"]
  /\ index = [d \in Downloads |-> 0]
  /\ left = [d \in Downloads |-> {}]
  /\ item = [d \in Downloads |-> Nothing]
  /\ version = [d \in Downloads |-> 0]
  /\ got = [d \in Downloads |-> 0]
  /\ fetched = [d \in Downloads |-> NoVersions]
  /\ outcome = [d \in Downloads |-> "none"]
  /\ there = [d \in Downloads |-> {}]

-----------------------------------------------------------------------------
(* A download *)

Enter(d, next) == at' = [at EXCEPT ![d] = next]

End(d, how) == outcome' = [outcome EXCEPT ![d] = how] /\ Enter(d, "over")

(* The desktop lists a prefix before it does anything; one without blobs is an *)
(* error.  The blob that marks the folder itself is not fetched.               *)
Begin(d) ==
  /\ at[d] = "idle"
  /\ LET listed == {b \in Source[d] : d \notin Prefixes \/ stored[b] # Nothing}
     IN  IF listed = {} THEN End(d, "error") /\ UNCHANGED left
         ELSE /\ left' = [left EXCEPT ![d] = {b \in listed : d \in Prefixes =>
                                                              LocalName[b] # NoName}]
              /\ Enter(d, IF d \in Copies THEN "taking" ELSE "choosing")
              /\ UNCHANGED outcome
  /\ there' = [there EXCEPT ![d] = DOMAIN disk]
  /\ UNCHANGED <<stored, dirs, disk, index, item, version, got, fetched>>

(* Mutant: the last name is taken without looking. *)
LookNotAtLast(d) ==
  /\ at[d] = "choosing"
  /\ IF ~Exists(Top(d)) \/ index[d] = MaxIndex THEN Enter(d, "taking") /\ UNCHANGED <<index, outcome>>
     ELSE index' = [index EXCEPT ![d] = @ + 1] /\ UNCHANGED <<at, outcome>>
  /\ there' = [there EXCEPT ![d] = DOMAIN disk]
  /\ UNCHANGED <<stored, dirs, disk, left, item, version, got, fetched>>

(* Mutant: a name that is taken is looked at again. *)
LookAgain(d) ==
  /\ at[d] = "choosing"
  /\ IF ~Exists(Top(d)) THEN Enter(d, "taking") ELSE UNCHANGED at
  /\ there' = [there EXCEPT ![d] = DOMAIN disk]
  /\ UNCHANGED <<stored, dirs, disk, index, left, item, version, got, fetched, outcome>>

(* unique_download_path, unique_download_dir: one look at the disk for each name *)
Look(d) ==
  /\ at[d] = "choosing"
  /\ IF ~Exists(Top(d)) THEN Enter(d, "taking") /\ UNCHANGED <<index, outcome>>
     ELSE IF index[d] = MaxIndex THEN End(d, "error") /\ UNCHANGED index
     ELSE index' = [index EXCEPT ![d] = @ + 1] /\ UNCHANGED <<at, outcome>>
  /\ there' = [there EXCEPT ![d] = DOMAIN disk]
  /\ UNCHANGED <<stored, dirs, disk, left, item, version, got, fetched>>

(* The next blob, or the end.  The desktop makes the file first and asks for the *)
(* blob then; cp does it the other way round.                                    *)
Take(d) ==
  /\ at[d] = "taking"
  /\ IF left[d] = {} THEN End(d, "done") /\ UNCHANGED <<left, item>>
     ELSE /\ \E b \in left[d] :
               /\ item' = [item EXCEPT ![d] = b]
               /\ left' = [left EXCEPT ![d] = @ \ {b}]
          /\ Enter(d, IF d \in Copies THEN "asking" ELSE "making")
          /\ UNCHANGED outcome
  /\ UNCHANGED <<stored, dirs, disk, index, version, got, fetched, there>>

(* create_dir_all *)
MakeDirectory(d) ==
  /\ at[d] = "making"
  /\ IF d \notin Prefixes THEN Enter(d, "creating") /\ UNCHANGED <<dirs, outcome>>
     ELSE IF IsFile(Top(d)) THEN End(d, "error") /\ UNCHANGED dirs
     ELSE dirs' = dirs \cup {Top(d)} /\ Enter(d, "creating") /\ UNCHANGED outcome
  /\ UNCHANGED <<stored, disk, index, left, item, version, got, fetched, there>>

(* File::create: what is there is emptied *)
CreateFile(d) ==
  /\ at[d] = "creating"
  /\ IF d \notin Prefixes /\ Top(d) \in dirs THEN End(d, "error") /\ UNCHANGED disk
     ELSE LET place == Place(d, item[d])
          IN  /\ disk' = [q \in DOMAIN disk \cup {place} |-> IF q = place THEN <<>> ELSE disk[q]]
              /\ Enter(d, IF d \in Copies THEN "reading" ELSE "asking")
              /\ UNCHANGED outcome
  /\ UNCHANGED <<stored, dirs, index, left, item, version, got, fetched, there>>

(* read_blob: the service sends the version it has now, whatever becomes of it *)
Ask(d) ==
  /\ at[d] = "asking"
  /\ IF stored[item[d]] = Nothing THEN End(d, "error") /\ UNCHANGED version
     ELSE /\ version' = [version EXCEPT ![d] = stored[item[d]]]
          /\ Enter(d, IF d \in Copies THEN "creating" ELSE "reading")
          /\ UNCHANGED outcome
  /\ got' = [got EXCEPT ![d] = 0]
  /\ UNCHANGED <<stored, dirs, disk, index, left, item, fetched, there>>

(* A chunk is written where the last one ended, whoever has emptied or filled *)
(* the file since; a gap reads as Nothing                                     *)
WriteChunk(d) ==
  /\ at[d] = "reading" /\ got[d] < Pieces[item[d]]
  /\ LET place == Place(d, item[d])
         k == got[d] + 1
         size == IF Len(disk[place]) > k THEN Len(disk[place]) ELSE k
     IN  /\ got' = [got EXCEPT ![d] = k]
         /\ disk' = [disk EXCEPT ![place] =
              [j \in 1..size |-> IF j = k THEN Mark(item[d], version[d], k)
                                 ELSE IF j <= Len(@) THEN @[j] ELSE Nothing]]
  /\ UNCHANGED <<stored, dirs, at, index, left, item, version, fetched, outcome, there>>

(* Mutant: a stream that breaks off is taken for one that ends. *)
FinishFileEarly(d) ==
  /\ at[d] = "reading"
  /\ fetched' = [fetched EXCEPT ![d] =
       [b \in DOMAIN @ \cup {item[d]} |-> IF b = item[d] THEN version[d] ELSE @[b]]]
  /\ Enter(d, "taking")
  /\ UNCHANGED <<stored, dirs, disk, index, left, item, version, got, outcome, there>>

FinishFile(d) ==
  /\ at[d] = "reading" /\ got[d] = Pieces[item[d]]
  /\ fetched' = [fetched EXCEPT ![d] =
       [b \in DOMAIN @ \cup {item[d]} |-> IF b = item[d] THEN version[d] ELSE @[b]]]
  /\ Enter(d, "taking")
  /\ UNCHANGED <<stored, dirs, disk, index, left, item, version, got, outcome, there>>

(* The disk, the service or the network fails, or a person cancels: what was *)
(* written stays                                                             *)
Abort(d) ==
  /\ at[d] \in {"making", "creating", "asking", "reading"}
  /\ End(d, "error")
  /\ UNCHANGED <<stored, dirs, disk, index, left, item, version, got, fetched, there>>

Step(d) ==
  \/ Look(d) \/ Take(d) \/ MakeDirectory(d) \/ CreateFile(d) \/ Ask(d)
  \/ WriteChunk(d) \/ FinishFile(d) \/ Abort(d)

(* Another client writes or deletes a blob *)
ChangeBlob ==
  /\ \E b \in Changing :
       /\ stored[b] # Nothing
       /\ \E v \in {Nothing} \cup {w \in 1..MaxVersion : w = stored[b] + 1} :
            stored' = [stored EXCEPT ![b] = v]
  /\ UNCHANGED <<dirs, disk, own>>

DNext == (\E d \in Downloads : Begin(d) \/ Step(d)) \/ ChangeBlob

(* The process runs on, and the service or the network ends every stream *)
DFairness == \A d \in Downloads : WF_dvars(Step(d))

DSpec == DInit /\ [][DNext]_dvars /\ DFairness
-----------------------------------------------------------------------------
(* Properties *)

(* A download of the desktop leaves alone every file that was there when its  *)
(* name was chosen: only one made in between, by a download that has chosen   *)
(* the same name, can suffer.  cp overwrites a file, but only when the        *)
(* service has begun to send the blob.                                        *)
KeepsWhatWasThere ==
  [][\A p \in DOMAIN disk :
       /\ p \in DOMAIN disk'
       /\ disk'[p] # disk[p] =>
            \E d \in Downloads :
              /\ at[d] \in {"creating", "reading"} /\ Place(d, item[d]) = p
              /\ p \in there[d] => d \in Copies /\ version[d] > 0]_dvars

(* Another download has used the place of blob b in download d, or d itself *)
(* for a blob whose local name is the same                                  *)
Contested(d, b) ==
  \/ \E e \in Downloads \ {d} : Top(e) = Top(d) /\ item[e] # Nothing
  \/ \E other \in DOMAIN fetched[d] \ {b} : Place(d, other) = Place(d, b)

(* When a download says it is done, each of its files holds one version of its *)
(* blob from the first chunk to the last, though the blob may have been        *)
(* replaced or deleted meanwhile -- unless its place was contested.            *)
DoneIsWhole ==
  \A d \in Downloads :
    outcome[d] = "done" =>
      /\ \A b \in DOMAIN fetched[d] :
           Contested(d, b) \/ disk[Place(d, b)] = Whole(b, fetched[d][b])
      /\ d \notin Prefixes => DOMAIN fetched[d] = Source[d]

(* A download that has begun ends. *)
DownloadEnds ==
  \A d \in Downloads : at[d] \in {"choosing", "taking"} ~> at[d] = "over"
=============================================================================
