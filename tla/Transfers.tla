------------------------------ MODULE Transfers ------------------------------
(***************************************************************************)
(* The desktop application's activity registry and the four transfer       *)
(* commands that use it (upload_blob, upload_folder, download_blob,        *)
(* download_blob_prefix in app/src-tauri/src/commands.rs).                 *)
(*                                                                         *)
(* The registry is AppState.inner: a Vec of activity rows, newest first    *)
(* and cut to ActivityLimit, and a map from activity id to cancellation    *)
(* token, under one mutex.  Each critical section of the code is one       *)
(* action; between two of them every other command may run.  A transfer    *)
(* is its own activity id (the code draws a fresh UUID per command).       *)
(* Chunks are not counted: a source may go on for ever, as a file that     *)
(* something keeps appending to does.                                      *)
(***************************************************************************)
EXTENDS Naturals, FiniteSets, Functions

CONSTANTS
  Transfers,      \* the transfer commands, each with its own activity id
  Uploads,        \* those that read local files; the others read blobs
  Folders,        \* those that move a folder or a prefix
  Recorded,       \* ids of activities recorded already finished
  FileCount,      \* how many files each transfer moves
  ActivityLimit   \* rows the registry keeps (200 in the code)

ASSUME TransfersAssumption ==
  /\ Uploads \subseteq Transfers
  /\ Folders \subseteq Transfers
  /\ Transfers \cap Recorded = {}
  /\ FileCount \in [Transfers -> Nat]
  /\ \A t \in Transfers \ Folders : FileCount[t] = 1
  /\ ActivityLimit \in Nat \ {0}

VARIABLES
  activities,  \* InnerState.activities: a row per id, pos its index in the Vec
  registered,  \* the keys of InnerState.activity_cancellations
  cancelled,   \* transfers whose token's flag is set
  pc,          \* where each command stands
  verdict,     \* the status a command is about to report
  moved,       \* files each command has completed
  late         \* what each command did after its token was set (observation)

vars == <<activities, registered, cancelled, pc, verdict, moved, late>>

Ids == Transfers \cup Recorded

Final == {"done", "error", "cancelled"}

Row == [status : {"running"} \cup Final,
        result : {"none", "progress", "cancelling", "final"},
        pos    : Nat]

PCs == {"idle", "begun", "opening", "reading", "awaiting", "passing",
        "storing", "failing", "reporting", "returned"}

LateWork == [chunks : 0..2, files : Nat, stopped : BOOLEAN]

TypeOK ==
  /\ DOMAIN activities \subseteq Ids
  /\ \A i \in DOMAIN activities : activities[i] \in Row
  /\ registered \subseteq Transfers
  /\ cancelled \subseteq Transfers
  /\ pc \in [Transfers -> PCs]
  /\ verdict \in [Transfers -> Final]
  /\ moved \in [Transfers -> Nat]
  /\ late \in [Transfers -> LateWork]

Init ==
  /\ activities = [i \in {} |-> [status |-> "done", result |-> "final", pos |-> 0]]
  /\ registered = {}
  /\ cancelled = {}
  /\ pc = [t \in Transfers |-> "idle"]
  /\ verdict = [t \in Transfers |-> "error"]
  /\ moved = [t \in Transfers |-> 0]
  /\ late = [t \in Transfers |-> [chunks |-> 0, files |-> 0, stopped |-> FALSE]]

-----------------------------------------------------------------------------
(* The registry's operations.                                              *)

(* activities.insert(0, row); activities.truncate(ActivityLimit) *)
Insert(id, status, result) ==
  LET older == [i \in DOMAIN activities |-> [activities[i] EXCEPT !.pos = @ + 1]]
      kept  == {i \in DOMAIN older : older[i].pos < ActivityLimit}
  IN  [i \in kept \cup {id} |->
         IF i = id THEN [status |-> status, result |-> result, pos |-> 0]
                   ELSE older[i]]

(* activities.retain(...): the rows that stay close up *)
Retain(keep) ==
  [i \in keep |-> [activities[i] EXCEPT
     !.pos = Cardinality({j \in keep : activities[j].pos < activities[i].pos})]]

(* update_activity_progress: finds the row, or does nothing if it was dropped *)
Progressed(id) ==
  [i \in DOMAIN activities |->
     IF i = id THEN [activities[i] EXCEPT !.result = "progress"] ELSE activities[i]]

(* Mutant: the token is dropped only when the row is still listed. *)
FinishActivityIfListed(id, status) ==
  /\ activities' = [i \in DOMAIN activities |->
       IF i = id THEN [activities[i] EXCEPT !.status = status, !.result = "final"]
                 ELSE activities[i]]
  /\ registered' = IF id \in DOMAIN activities THEN registered \ {id} ELSE registered

(* Mutant: a failed transfer keeps its token. *)
FinishActivityKeepsToken(id, status) ==
  /\ activities' = [i \in DOMAIN activities |->
       IF i = id THEN [activities[i] EXCEPT !.status = status, !.result = "final"]
                 ELSE activities[i]]
  /\ registered' = IF status = "done" THEN registered \ {id} ELSE registered

(* finish_activity: the row gets its final status and the token is dropped in *)
(* the same critical section.                                                 *)
FinishActivity(id, status) ==
  /\ activities' = [i \in DOMAIN activities |->
       IF i = id THEN [activities[i] EXCEPT !.status = status, !.result = "final"]
                 ELSE activities[i]]
  /\ registered' = registered \ {id}

-----------------------------------------------------------------------------
(* A transfer command.                                                     *)

Goto(t, next) == pc' = [pc EXCEPT ![t] = next]

(* begin_activity: the row appears, running *)
BeginActivity(t) ==
  /\ pc[t] = "idle"
  /\ activities' = Insert(t, "running", "none")
  /\ Goto(t, "begun")
  /\ UNCHANGED <<registered, cancelled, verdict, moved, late>>

(* begin_cancellable_activity takes the lock a second time for the token *)
RegisterToken(t) ==
  /\ pc[t] = "begun"
  /\ registered' = registered \cup {t}
  /\ Goto(t, "opening")
  /\ UNCHANGED <<activities, cancelled, verdict, moved, late>>

(* Reports the status v next, through finish_activity. *)
Report(t, v) ==
  /\ verdict' = [verdict EXCEPT ![t] = v]
  /\ Goto(t, "reporting")

(* No file is left (an empty folder has had its marker blob written) *)
AllMoved(t) ==
  /\ pc[t] = "opening"
  /\ moved[t] = FileCount[t]
  /\ Report(t, "done")
  /\ UNCHANGED <<activities, registered, cancelled, moved, late>>

(* An error the folder upload reports without asking whether it was cancelled: *)
(* the marker of an empty folder, or a source file that cannot be inspected.   *)
LocalError(t) ==
  /\ pc[t] = "opening"
  /\ t \in Uploads \cap Folders
  /\ FileCount[t] = 0 \/ moved[t] < FileCount[t]
  /\ Report(t, "error")
  /\ UNCHANGED <<activities, registered, cancelled, moved, late>>

(* The source opens: the local file, or the blob's byte stream *)
OpenSource(t) ==
  /\ pc[t] = "opening"
  /\ moved[t] < FileCount[t]
  /\ \/ Goto(t, IF t \in Uploads THEN "reading" ELSE "awaiting")
     \/ Goto(t, "failing")
  /\ UNCHANGED <<activities, registered, cancelled, verdict, moved, late>>

(* The stream ends with the error "transfer cancelled" *)
StopByToken(t) ==
  /\ Goto(t, "failing")
  /\ late' = [late EXCEPT ![t].stopped = TRUE]

(* Mutant: an upload reads without looking at the token first. *)
CheckTokenNever(t) ==
  /\ pc[t] = "reading"
  /\ Goto(t, "awaiting")
  /\ UNCHANGED <<activities, registered, cancelled, verdict, moved, late>>

(* An upload looks at the token before it reads *)
CheckToken(t) ==
  /\ pc[t] = "reading"
  /\ IF t \in cancelled THEN StopByToken(t) ELSE Goto(t, "awaiting") /\ UNCHANGED late
  /\ UNCHANGED <<activities, registered, cancelled, verdict, moved>>

(* Mutant: the read hands its chunk over without looking at the token. *)
ReadChunkUnchecked(t) ==
  /\ pc[t] = "awaiting"
  /\ Goto(t, "passing")
  /\ UNCHANGED <<activities, registered, cancelled, verdict, moved, late>>

(* The read completes with a chunk, and the token is looked at (again) *)
ReadChunk(t) ==
  /\ pc[t] = "awaiting"
  /\ IF t \in cancelled
     THEN StopByToken(t)
     ELSE Goto(t, "passing") /\ UNCHANGED late
  /\ UNCHANGED <<activities, registered, cancelled, verdict, moved>>

(* The read fails; a download looks at the token first, with the same outcome *)
ReadFails(t) ==
  /\ pc[t] = "awaiting"
  /\ Goto(t, "failing")
  /\ UNCHANGED <<activities, registered, cancelled, verdict, moved, late>>

(* The chunk goes on to the blob service or into the file *)
PassChunk(t) ==
  /\ pc[t] = "passing"
  /\ activities' = Progressed(t)
  /\ late' = IF t \in cancelled /\ late[t].chunks < 2
             THEN [late EXCEPT ![t].chunks = @ + 1] ELSE late
  /\ Goto(t, IF t \in Uploads THEN "reading" ELSE "awaiting")
  /\ UNCHANGED <<registered, cancelled, verdict, moved>>

(* The chunk cannot be staged, or written; an upload has reported it by then *)
PassFails(t) ==
  /\ pc[t] = "passing"
  /\ activities' = IF t \in Uploads THEN Progressed(t) ELSE activities
  /\ Goto(t, "failing")
  /\ UNCHANGED <<registered, cancelled, verdict, moved, late>>

(* The source ends; what is left is the commit, or the flush, of the file *)
EndOfSource(t) ==
  /\ pc[t] = "awaiting"
  /\ Goto(t, "storing")
  /\ UNCHANGED <<activities, registered, cancelled, verdict, moved, late>>

(* The commit or flush returns; no token is looked at here *)
StoreFile(t) ==
  /\ pc[t] = "storing"
  /\ moved' = [moved EXCEPT ![t] = @ + 1]
  /\ late' = IF t \in cancelled THEN [late EXCEPT ![t].files = @ + 1] ELSE late
  /\ activities' = IF t \in Folders THEN Progressed(t) ELSE activities
  /\ Goto(t, "opening")
  /\ UNCHANGED <<registered, cancelled, verdict>>

StoreFails(t) ==
  /\ pc[t] = "storing"
  /\ Goto(t, "failing")
  /\ UNCHANGED <<activities, registered, cancelled, verdict, moved, late>>

(* Mutant: the token is taken out of the map by the reading. *)
ReadVerdictTaking(t) ==
  /\ pc[t] = "failing"
  /\ Report(t, IF t \in registered \cap cancelled THEN "cancelled" ELSE "error")
  /\ registered' = registered \ {t}
  /\ UNCHANGED <<activities, cancelled, moved, late>>

(* Mutant: a transfer that had moved some file reports an error. *)
ReadVerdictPartial(t) ==
  /\ pc[t] = "failing"
  /\ Report(t, IF t \in registered \cap cancelled /\ moved[t] = 0
               THEN "cancelled" ELSE "error")
  /\ UNCHANGED <<activities, registered, cancelled, moved, late>>

(* finish_transfer_error, first critical section: is_activity_cancelled *)
ReadVerdict(t) ==
  /\ pc[t] = "failing"
  /\ Report(t, IF t \in registered \cap cancelled THEN "cancelled" ELSE "error")
  /\ UNCHANGED <<activities, registered, cancelled, moved, late>>

(* finish_activity, and the command returns to the user interface *)
Finish(t) ==
  /\ pc[t] = "reporting"
  /\ FinishActivity(t, verdict[t])
  /\ Goto(t, "returned")
  /\ UNCHANGED <<cancelled, verdict, moved, late>>

-----------------------------------------------------------------------------
(* The user interface and the other commands.                              *)

(* cancel_activity; without a token it changes nothing (Ok for a finished row, *)
(* an error for a running one).                                                *)
CancelActivity(t) ==
  /\ t \in registered
  /\ cancelled' = cancelled \cup {t}
  /\ activities' = [i \in DOMAIN activities |->
       IF i = t THEN [activities[i] EXCEPT !.result = "cancelling"] ELSE activities[i]]
  /\ UNCHANGED <<registered, pc, verdict, moved, late>>

(* clear_activities with scope "completed" *)
ClearCompleted ==
  /\ activities' = Retain({i \in DOMAIN activities : activities[i].status = "running"})
  /\ UNCHANGED <<registered, cancelled, pc, verdict, moved, late>>

(* Mutant: the scope "successful" keeps only what failed. *)
ClearAllButFailed ==
  /\ activities' = Retain({i \in DOMAIN activities :
                            activities[i].status \in {"error", "cancelled"}})
  /\ UNCHANGED <<registered, cancelled, pc, verdict, moved, late>>

(* clear_activities with scope "successful" *)
ClearSuccessful ==
  /\ activities' = Retain({i \in DOMAIN activities : activities[i].status # "done"})
  /\ UNCHANGED <<registered, cancelled, pc, verdict, moved, late>>

(* record_activity: a delete, a rename... that has already ended *)
RecordActivity(id) ==
  /\ id \notin DOMAIN activities
  /\ activities' = Insert(id, "done", "final")
  /\ UNCHANGED <<registered, cancelled, pc, verdict, moved, late>>

TransferStep(t) ==
  \/ BeginActivity(t) \/ RegisterToken(t) \/ AllMoved(t) \/ LocalError(t)
  \/ OpenSource(t) \/ CheckToken(t) \/ ReadChunk(t) \/ ReadFails(t) \/ PassChunk(t)
  \/ PassFails(t) \/ EndOfSource(t) \/ StoreFile(t) \/ StoreFails(t) \/ ReadVerdict(t) \/ Finish(t)

Next ==
  \/ \E t \in Transfers : TransferStep(t) \/ CancelActivity(t)
  \/ ClearCompleted
  \/ ClearSuccessful
  \/ \E id \in Recorded : RecordActivity(id)

(* The runtime keeps polling a command once it has begun, and the disk or the  *)
(* service on the other side of a read or a commit answers or drops the        *)
(* connection (the HTTP client itself bounds only the time to connect).        *)
Fairness ==
  \A t \in Transfers : WF_vars(TransferStep(t) /\ pc[t] # "idle")

Spec == Init /\ [][Next]_vars /\ Fairness
-----------------------------------------------------------------------------
(* Properties.                                                             *)

(* A token is registered exactly while its command can still read it: none *)
(* outlives its command, even one whose row the list has dropped.          *)
TokensWhileActive ==
  registered = {t \in Transfers : pc[t] \notin {"idle", "begun", "returned"}}

(* A row that says "running" belongs to a command that has not returned, and *)
(* cancel_activity finds a token for it, but for the moment between the two  *)
(* critical sections of begin_cancellable_activity.                          *)
RunningRowCancellable ==
  \A t \in DOMAIN activities :
    activities[t].status = "running" =>
      t \in Transfers /\ (t \in registered \/ pc[t] = "begun")

(* What a finished row says is what happened: "done" means every file was     *)
(* moved, "cancelled" that the user asked for it, and a command its token     *)
(* stopped never reports an error, however the lock changed hands in between. *)
OutcomeIsTruthful ==
  \A t \in Transfers \cap DOMAIN activities :
    pc[t] = "returned" =>
      /\ activities[t].status = "done" => moved[t] = FileCount[t]
      /\ activities[t].status = "cancelled" => t \in cancelled
      /\ late[t].stopped => activities[t].status = "cancelled"

(* Once the token is set at most one chunk more is passed on, and an upload *)
(* commits at most one file more: the one it was already past its check in. *)
(* A download looks at the token only when a chunk arrives, so it may still *)
(* go through any number of empty blobs.                                    *)
LateWorkBounded ==
  \A t \in Transfers :
    /\ late[t].chunks <= 1
    /\ t \in Uploads => late[t].files <= 1

(* A finished row never changes again (but for its place in the list): the   *)
(* user cannot cancel it and no straggling progress report reaches it.       *)
FinishedRowFrozen ==
  [][\A i \in DOMAIN activities \cap DOMAIN activities' :
       activities[i].status # "running" =>
         activities'[i].status = activities[i].status
         /\ activities'[i].result = activities[i].result]_vars

(* A running row leaves the list only by being the oldest of a full list; no *)
(* clearing hides a transfer that still works.                               *)
RunningRowKept ==
  [][\A i \in DOMAIN activities \ DOMAIN activities' :
       activities[i].status = "running" =>
         activities[i].pos = ActivityLimit - 1]_vars

(* A cancelled transfer comes to its end, whatever the source goes on to give. *)
CancelEndsTransfer ==
  \A t \in Transfers : t \in cancelled ~> pc[t] = "returned"
=============================================================================
