---------------------------- MODULE StorageAccount ----------------------------
(***************************************************************************)
(* What the operations of arkived-core (crates/arkived-core/src/backend/   *)
(* azure/ops and queue.rs) ask a storage account to do, one operator per   *)
(* operation: the request it builds, carried out on an account with one    *)
(* container, one blob in it and one queue.  Only release_lease sends the  *)
(* id of a lease.                                                          *)
(*                                                                         *)
(* An operator is given the account a, the mark m of the request that is   *)
(* carried out (each time another one) and, where it takes one, its        *)
(* argument.  It says what the account is afterwards and what the answer   *)
(* carries, or how the service refuses.                                    *)
(***************************************************************************)
EXTENDS Naturals, FiniteSets

CONSTANTS
  Nothing,    \* no lease, no metadata, no value
  Original    \* what was stored before the calls

NoBlob == [content |-> Nothing]

(* A blob that has just been written: nothing of an earlier one is left *)
NewBlob(m) ==
  [content |-> m, type |-> Nothing, cache |-> Nothing, metadata |-> Nothing,
   tags |-> Nothing, tier |-> "hot", lease |-> Nothing, snapshots |-> {}]

(* What is a blob, and what an account: the parts each has *)
IsBlob(b) ==
  b = [content |-> b.content, type |-> b.type, cache |-> b.cache, metadata |-> b.metadata,
       tags |-> b.tags, tier |-> b.tier, lease |-> b.lease, snapshots |-> b.snapshots]

IsAccount(a) ==
  /\ a = [container |-> a.container, blob |-> a.blob, trash |-> a.trash,
          queue |-> a.queue, visible |-> a.visible, hidden |-> a.hidden]
  /\ a.blob = NoBlob \/ IsBlob(a.blob)
  /\ a.trash = NoBlob \/ IsBlob(a.trash)

(* An account no call has changed: its snapshots, leases and messages are from *)
(* before                                                                      *)
IsFound(a) ==
  /\ IsAccount(a)
  /\ \A b \in {a.blob, a.trash} :
       b # NoBlob => b.lease \in {Nothing, Original} /\ b.snapshots \subseteq {Original}
  /\ a.visible \subseteq {Original} /\ a.hidden \subseteq {<<Original, Original>>}

Done(a, value) == [kind |-> "success", account |-> a, value |-> value]

(* kind is what Pipeline calls the refusal: "missing" is a 404, "exists" a 412 *)
(* or BlobAlreadyExists, "rejected" any other 409                              *)
Refused(a, kind) == [kind |-> kind, account |-> a, value |-> Nothing]

HasContainer(a) == a.container # "absent"

HasBlob(a) == a.blob # NoBlob

OnContainer(a, outcome) == IF HasContainer(a) THEN outcome ELSE Refused(a, "missing")

OnBlob(a, outcome) == IF HasBlob(a) THEN outcome ELSE Refused(a, "missing")

OnQueue(a, outcome) == IF a.queue THEN outcome ELSE Refused(a, "missing")

(* A lease keeps every request out that does not show its id *)
Unleased(a, outcome) ==
  IF HasBlob(a) /\ a.blob.lease # Nothing THEN Refused(a, "exists") ELSE outcome

-----------------------------------------------------------------------------
(* Containers                                                              *)

CreateContainer(a, access) ==
  IF HasContainer(a) THEN Refused(a, "rejected")
  ELSE Done([a EXCEPT !.container = access], Nothing)

DeleteContainer(a) ==
  OnContainer(a, Done([a EXCEPT !.container = "absent", !.blob = NoBlob, !.trash = NoBlob],
                      Nothing))

SetContainerPublicAccess(a, access) ==
  OnContainer(a, Done([a EXCEPT !.container = access], Nothing))

ListContainers(a) == Done(a, IF HasContainer(a) THEN {"container"} ELSE {})

-----------------------------------------------------------------------------
(* Blobs                                                                   *)

(* With overwrite, the blob is replaced; without, If-None-Match: * keeps what *)
(* is there                                                                   *)
WriteBlob(a, m, overwrite) ==
  OnContainer(a,
    IF HasBlob(a) /\ ~overwrite THEN Refused(a, "exists")
    ELSE Unleased(a, Done([a EXCEPT !.blob = NewBlob(m)], Nothing)))

CopyBlob(a, m) == WriteBlob(a, m, TRUE)

ListBlobs(a) == OnContainer(a, Done(a, IF HasBlob(a) THEN {"blob"} ELSE {}))

ReadBlob(a) == OnBlob(a, Done(a, a.blob.content))

(* A blob with snapshots goes only together with them; it can be restored *)
DeleteBlob(a, include_snapshots) ==
  OnBlob(a, Unleased(a,
    IF a.blob.snapshots # {} /\ ~include_snapshots THEN Refused(a, "rejected")
    ELSE Done([a EXCEPT !.blob = NoBlob, !.trash = a.blob], Nothing)))

UndeleteBlob(a) ==
  IF HasBlob(a) \/ a.trash = NoBlob THEN OnBlob(a, Done(a, Nothing))
  ELSE Done([a EXCEPT !.blob = a.trash, !.trash = NoBlob], Nothing)

(* The answer names the new snapshot *)
CreateSnapshot(a, m) ==
  OnBlob(a, Done([a EXCEPT !.blob.snapshots = @ \cup {m}], m))

DeleteSnapshot(a, id) ==
  OnBlob(a, IF id \in a.blob.snapshots
            THEN Done([a EXCEPT !.blob.snapshots = @ \ {id}], Nothing)
            ELSE Refused(a, "missing"))

GetProperties(a) ==
  OnBlob(a, Done(a, [type |-> a.blob.type, cache |-> a.blob.cache]))

(* A property the request does not name is cleared *)
SetProperties(a, update) ==
  OnBlob(a, Unleased(a,
    Done([a EXCEPT !.blob.type = update.type, !.blob.cache = update.cache], Nothing)))

GetMetadata(a) == OnBlob(a, Done(a, a.blob.metadata))

SetMetadata(a, m) ==
  OnBlob(a, Unleased(a, Done([a EXCEPT !.blob.metadata = m], Nothing)))

GetTags(a) == OnBlob(a, Done(a, a.blob.tags))

SetTags(a, m) ==
  OnBlob(a, Unleased(a, Done([a EXCEPT !.blob.tags = m], Nothing)))

SetAccessTier(a, tier) ==
  OnBlob(a, Unleased(a, Done([a EXCEPT !.blob.tier = tier], Nothing)))

(* Out of the archive *)
RehydrateBlob(a, tier) ==
  OnBlob(a, IF a.blob.tier # "archive" THEN Refused(a, "rejected")
            ELSE SetAccessTier(a, tier))

-----------------------------------------------------------------------------
(* Leases.  The service makes the id up: the answer is the only way to it. *)

AcquireLease(a, m) ==
  OnBlob(a, IF a.blob.lease # Nothing THEN Refused(a, "rejected")
            ELSE Done([a EXCEPT !.blob.lease = m], m))

ReleaseLease(a, id) ==
  OnBlob(a, IF a.blob.lease # id THEN Refused(a, "rejected")
            ELSE Done([a EXCEPT !.blob.lease = Nothing], Nothing))

BreakLease(a) ==
  OnBlob(a, IF a.blob.lease = Nothing THEN Refused(a, "rejected")
            ELSE Done([a EXCEPT !.blob.lease = Nothing], Nothing))

-----------------------------------------------------------------------------
(* Queues.  A message that was taken is hidden until its time is up; the   *)
(* mark of the request that took it is its pop receipt.                    *)

CreateQueue(a) == Done([a EXCEPT !.queue = TRUE], Nothing)

DeleteQueue(a) ==
  OnQueue(a, Done([a EXCEPT !.queue = FALSE, !.visible = {}, !.hidden = {}], Nothing))

ListQueues(a) == Done(a, IF a.queue THEN {"queue"} ELSE {})

PutMessage(a, m) == OnQueue(a, Done([a EXCEPT !.visible = @ \cup {m}], Nothing))

PeekMessages(a) == OnQueue(a, Done(a, a.visible))

GetMessages(a, m) ==
  LET taken == a.visible \X {m}
  IN  OnQueue(a, Done([a EXCEPT !.visible = {}, !.hidden = @ \cup taken], taken))

DeleteMessage(a, taken) ==
  OnQueue(a, IF taken \in a.hidden
             THEN Done([a EXCEPT !.hidden = @ \ {taken}], Nothing)
             ELSE Refused(a, "missing"))

ClearMessages(a) ==
  OnQueue(a, Done([a EXCEPT !.visible = {}, !.hidden = {}], Nothing))

-----------------------------------------------------------------------------
(* With time a lease runs out, and a message that was taken and not deleted *)
(* shows again                                                              *)
LeaseEnds(a) == [a EXCEPT !.blob.lease = Nothing]

ShowsAgain(a, taken) ==
  [a EXCEPT !.hidden = @ \ {taken}, !.visible = @ \cup {taken[1]}]

Messages(a) == a.visible \cup {taken[1] : taken \in a.hidden}

(* Something that was stored is gone or has been replaced by something else *)
Loses(before, after) ==
  \/ HasContainer(before) /\ after.container # before.container
  \/ HasBlob(before) /\ ~HasBlob(after)
  \/ HasBlob(before) /\ HasBlob(after) /\
       \/ \E part \in {"content", "type", "cache", "metadata", "tags", "tier"} :
            after.blob[part] # before.blob[part]
       \/ ~(before.blob.snapshots \subseteq after.blob.snapshots)
  \/ before.queue /\ ~after.queue
  \/ ~(Messages(before) \subseteq Messages(after))
=============================================================================
