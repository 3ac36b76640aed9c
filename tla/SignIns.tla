-------------------------------- MODULE SignIns --------------------------------
(***************************************************************************)
(* The Azure sign-ins of the desktop (app/src-tauri/src/commands.rs) and   *)
(* its direct connections.  A sign-in is kept in four places that no       *)
(* transaction covers: the memory of the process, a row of the SQLite      *)
(* store, its refresh token in the keychain and a snapshot file shared by  *)
(* all of them.  Connections opened through a sign-in live in the memory   *)
(* alone.  A direct connection (account key, SAS, connection string, the   *)
(* emulator) has the first three: its row is in the table                  *)
(* attached_resource, and its token is the secret it was given.            *)
(*                                                                         *)
(* Every step between two of the places is an action.  The commands that   *)
(* are not async (remove_sign_in, update_sign_in_filter,                   *)
(* disconnect_connection) and the restoring at the start are run by the    *)
(* main thread, one after the other; a login, the renewed login of a       *)
(* tenant and the opening of a connection are tasks of the runtime.  Any   *)
(* step may fail and the process may stop anywhere.                        *)
(*                                                                         *)
(* The keychain is what SecretCell says: readable after a put that         *)
(* completes, perhaps not after one that does not.  All that is put under  *)
(* one id is the same token.  Of the file only what decides the            *)
(* course of a command is modelled: whether it can be parsed.              *)
(***************************************************************************)
EXTENDS Naturals

CONSTANTS
  Ids,    \* sign-ins and direct connections; each login draws a new one
  Direct, \* the direct connections
  Keyless, \* those of them that have no secret: the emulator's
  Tasks,  \* tasks of the runtime
  Main,   \* the main thread
  NoId

ASSUME SignInsAssumption ==
  Main \notin Tasks /\ NoId \notin Ids /\ Direct \subseteq Ids /\ Keyless \subseteq Direct

SignInIds == Ids \ Direct

Workers == Tasks \cup {Main}

VARIABLES
  up,      \* the process: "down", "restoring", "running"
  memory,  \* InnerState::sign_ins, and the direct ones of InnerState::connections
  conns,   \* the sign-ins with an open connection
  row,     \* the store's tables sign_in and attached_resource
  token,   \* the refresh tokens and secrets that can be read from the keychain
  file,    \* arkived-shell-state.json
  todo,    \* the rows still to be restored
  op,      \* what each worker is doing
  used,    \* the ids drawn so far
  shown,   \* those the interface has been shown since the start
  removed, \* history: remove_sign_in returned Ok, disconnect_connection found no error
  late,    \* history: removed while a task was past its look at the memory
  hurt     \* history: a step on its token or its row failed or was cut short

disk == <<row, token, file>>
vars == <<up, memory, conns, row, token, file, todo, op, used, shown, removed, late, hurt>>

(* The steps of persist_direct_connection and of                             *)
(* remove_persisted_direct_connection                                        *)
AttachSteps == {"token", "delete", "insert"}
DetachSteps == {"row", "secret"}

(* persist_sign_in_session_snapshot and remove_sign_in have the same, and    *)
(* end with those on the file.                                               *)
FileSteps    == {"load", "truncate", "write"}
PersistSteps == {"get"} \cup AttachSteps \cup FileSteps
RemoveSteps  == DetachSteps \cup FileSteps

MainKinds == {"filter", "restore", "remove", "detach"}
TaskKinds == {"login", "reauth", "connect", "attach"}

Op == [kind : {"none"} \cup MainKinds \cup TaskKinds,
       pc : {"idle", "wait"} \cup PersistSteps \cup RemoveSteps,
       id : Ids \cup {NoId},
       had : BOOLEAN]   \* persist: there is a row; remove: the memory had the sign-in

Idle == [kind |-> "none", pc |-> "idle", id |-> NoId, had |-> FALSE]
Work(k, p, i, h) == [kind |-> k, pc |-> p, id |-> i, had |-> h]


TypeOK ==
  /\ up \in {"down", "restoring", "running"}
  /\ memory \subseteq Ids /\ conns \subseteq Ids /\ row \subseteq Ids /\ token \subseteq Ids
  /\ used \subseteq Ids /\ shown \subseteq Ids
  /\ removed \subseteq Ids /\ late \subseteq Ids /\ hurt \subseteq Ids
  /\ file \in {"whole", "empty", "torn"}
  /\ todo \subseteq Ids
  /\ todo # {} => up = "restoring"
  /\ op \in [Workers -> Op]
  /\ \A w \in Workers :
       /\ op[w].kind \in IF w = Main THEN {"none"} \cup MainKinds ELSE {"none"} \cup TaskKinds
       /\ IF op[w].kind = "none"
          THEN op[w].pc = "idle" /\ op[w].id = NoId
          ELSE op[w].pc # "idle" /\ op[w].id \in Ids /\ up # "down"
       /\ op[w].kind # "none" => (op[w].kind = "restore" <=> up = "restoring")

Init ==
  /\ up = "down" /\ file = "whole"
  /\ memory = {} /\ conns = {} /\ row = {} /\ token = {} /\ todo = {}
  /\ used = {} /\ shown = {} /\ removed = {} /\ late = {} /\ hurt = {}
  /\ op = [w \in Workers |-> Idle]

-----------------------------------------------------------------------------
(* Mutant: a login enters the memory even when it could not be stored. *)
EndRegardless(w, ok) ==
  LET entered == IF op[w].kind \in {"restore", "login", "attach"} THEN {op[w].id} ELSE {}
  IN /\ op' = [op EXCEPT ![w] = Idle]
     /\ memory' = memory \cup entered
     /\ shown' = shown \cup entered
     /\ removed' = IF op[w].kind \in {"remove", "detach"} /\ ok THEN removed \cup {op[w].id} ELSE removed

(* The end of a command.  The session of a login enters the memory once it is *)
(* stored, that of a restored sign-in and a direct connection in any case;    *)
(* disconnect_connection, too, only logs what went wrong.                     *)
End(w, ok) ==
  LET entered == IF op[w].kind \in {"restore", "attach"} \/ (op[w].kind = "login" /\ ok) THEN {op[w].id} ELSE {}
  IN /\ op' = [op EXCEPT ![w] = Idle]
     /\ memory' = memory \cup entered
     /\ shown' = shown \cup entered
     /\ removed' = IF op[w].kind \in {"remove", "detach"} /\ ok THEN removed \cup {op[w].id} ELSE removed

Goto(w, p) ==
  /\ op' = [op EXCEPT ![w].pc = p]
  /\ UNCHANGED <<memory, shown, removed>>

(* Neither the process starts or stops nor a command begins *)
Within == UNCHANGED <<up, conns, todo, used, late>>

(* persist_sign_in_session_snapshot; a direct connection begins with the token *)
Get(w) ==
  /\ op[w].pc = "get"
  /\ op' = [op EXCEPT ![w].pc = "token", ![w].had = op[w].id \in row]
  /\ Within /\ UNCHANGED <<memory, disk, shown, removed, hurt>>

PutToken(w) ==
  /\ op[w].pc = "token"
  /\ token' = token \cup {op[w].id}
  /\ Goto(w, IF op[w].had \/ op[w].kind = "attach" THEN "delete" ELSE "insert")
  /\ Within /\ UNCHANGED <<row, file, hurt>>

DeleteRow(w) ==
  /\ op[w].pc = "delete"
  /\ row' = row \ {op[w].id}
  /\ Goto(w, "insert")
  /\ Within /\ UNCHANGED <<token, file, hurt>>

(* The id is the table's primary key: the insertion fails when another worker *)
(* was faster.                                                                *)
InsertRow(w) ==
  /\ op[w].pc = "insert"
  /\ row' = row \cup {op[w].id}
  /\ CASE op[w].id \in row -> End(w, FALSE)
       [] op[w].id \notin row /\ op[w].kind = "attach" -> End(w, TRUE)
       [] OTHER -> Goto(w, "load")
  /\ Within /\ UNCHANGED <<token, file, hurt>>

(* Mutant: the token is forgotten. *)
RemoveRowOnly(w) ==
  /\ op[w].pc = "row"
  /\ row' = row \ {op[w].id}
  /\ Goto(w, "load")
  /\ Within /\ UNCHANGED <<token, file, hurt>>

(* remove_sign_in and disconnect_connection, after the memory *)
RemoveRow(w) ==
  /\ op[w].pc = "row"
  /\ row' = row \ {op[w].id}
  /\ Goto(w, "secret")
  /\ Within /\ UNCHANGED <<token, file, hurt>>

RemoveToken(w) ==
  /\ op[w].pc = "secret"
  /\ token' = token \ {op[w].id}
  /\ IF op[w].kind = "detach" THEN End(w, TRUE) ELSE Goto(w, "load")
  /\ Within /\ UNCHANGED <<row, file, hurt>>

(* load_persisted_shell_state, write_persisted_shell_state: std::fs::write    *)
(* empties the file before it writes.  Of two that overlap, the later may     *)
(* leave the end of the longer text of the other.                             *)
Load(w) ==
  /\ op[w].pc = "load"
  /\ IF file = "whole" THEN Goto(w, "truncate") ELSE End(w, FALSE)
  /\ Within /\ UNCHANGED <<disk, hurt>>

Truncate(w) ==
  /\ op[w].pc = "truncate"
  /\ file' = "empty"
  /\ Goto(w, "write")
  /\ Within /\ UNCHANGED <<row, token, hurt>>

Write(w) ==
  /\ op[w].pc = "write"
  /\ file' \in IF file = "empty" THEN {"whole"} ELSE {"whole", "torn"}
  /\ End(w, op[w].kind = "remove" => op[w].had)
  /\ Within /\ UNCHANGED <<row, token, hurt>>

(* What a step on the keychain or the table leaves when it does not complete *)
Broken(ws) ==
  LET cut(ps) == {op[w].id : w \in {v \in ws : op[v].pc \in ps}}
  IN /\ token' \in {token \ lost : lost \in SUBSET cut({"token", "secret"})}
     /\ file' \in {file} \cup {"torn" : w \in {v \in ws : op[v].pc = "write"}}
     /\ hurt' = hurt \cup cut({"token", "delete", "insert", "secret"})

(* A step fails: "?" returns its error.  (That a new direct connection had no *)
(* row to delete is ignored.)                                                 *)
Fail(w) ==
  /\ op[w].pc \in PersistSteps \cup RemoveSteps
  /\ ~(op[w].kind = "attach" /\ op[w].pc = "delete")
  /\ Broken({w})
  /\ End(w, FALSE)
  /\ Within /\ UNCHANGED row

Step(w) ==
  \/ Get(w) \/ PutToken(w) \/ DeleteRow(w) \/ InsertRow(w)
  \/ RemoveRow(w) \/ RemoveToken(w)
  \/ Load(w) \/ Truncate(w) \/ Write(w)
  \/ Fail(w)

-----------------------------------------------------------------------------
Free(w) == up = "running" /\ op[w].kind = "none"

(* start_entra_browser_login, start_entra_discovery_login: the user has logged *)
(* in, and the session that was found gets a new id.                           *)
BeginLogin(t, i) ==
  /\ Free(t) /\ i \in SignInIds \ used
  /\ used' = used \cup {i}
  /\ op' = [op EXCEPT ![t] = Work("login", "get", i, FALSE)]
  /\ UNCHANGED <<up, memory, conns, disk, todo, shown, removed, late, hurt>>

(* connect_account_key, connect_sas, connect_connection_string, connect_azurite: *)
(* what was given has been tried, and the connection gets a new id.              *)
BeginAttach(t, i) ==
  /\ Free(t) /\ i \in Direct \ used
  /\ used' = used \cup {i}
  /\ op' = [op EXCEPT ![t] =
             Work("attach", IF i \in Keyless THEN "delete" ELSE "token", i, FALSE)]
  /\ UNCHANGED <<up, memory, conns, disk, todo, shown, removed, late, hurt>>

(* start_sign_in_tenant_reauth and connect_discovered_storage_account look the *)
(* sign-in up and then wait for the user or for Azure.                         *)
BeginWait(t, k, i) ==
  /\ Free(t) /\ i \in memory \ Direct
  /\ op' = [op EXCEPT ![t] = Work(k, "wait", i, FALSE)]
  /\ UNCHANGED <<up, memory, conns, disk, todo, used, shown, removed, late, hurt>>

(* Not completed, refused, or a sign-in that is gone *)
StopWaiting(t) ==
  /\ op[t].pc = "wait"
  /\ op' = [op EXCEPT ![t] = Idle]
  /\ UNCHANGED <<up, memory, conns, disk, todo, used, shown, removed, late, hurt>>

(* Mutant: the sign-in found at the start is stored without another look. *)
RenewUnseen(t) ==
  /\ op[t].kind = "reauth" /\ op[t].pc = "wait"
  /\ op' = [op EXCEPT ![t].pc = "get"]
  /\ UNCHANGED <<up, memory, conns, disk, todo, used, shown, removed, late, hurt>>

(* refresh_sign_in_tenant looks again and stores what it cloned *)
Renew(t) ==
  /\ op[t].kind = "reauth" /\ op[t].pc = "wait"
  /\ op[t].id \in memory
  /\ op' = [op EXCEPT ![t].pc = "get"]
  /\ UNCHANGED <<up, memory, conns, disk, todo, used, shown, removed, late, hurt>>

(* connect_discovered_storage_account does not *)
Connected(t) ==
  /\ op[t].kind = "connect"
  /\ conns' = conns \cup {op[t].id}
  /\ op' = [op EXCEPT ![t] = Idle]
  /\ UNCHANGED <<up, memory, disk, todo, used, shown, removed, late, hurt>>

(* disconnect_connection, of a connection opened through a sign-in *)
Disconnect(i) ==
  /\ Free(Main) /\ i \in conns
  /\ conns' = conns \ {i}
  /\ UNCHANGED <<up, memory, disk, todo, op, used, shown, removed, late, hurt>>

(* update_sign_in_filter *)
BeginFilter(i) ==
  /\ Free(Main) /\ i \in memory \ Direct
  /\ op' = [op EXCEPT ![Main] = Work("filter", "get", i, FALSE)]
  /\ UNCHANGED <<up, memory, conns, disk, todo, used, shown, removed, late, hurt>>

(* Is the task past its last look at the memory? *)
Past(t, i) ==
  /\ op[t].id = i
  /\ op[t].kind = "connect" \/ (op[t].kind = "reauth" /\ op[t].pc # "wait")

(* Mutant: the connections are left open. *)
BeginRemoveKeeping(i) ==
  /\ Free(Main) /\ i \in shown \ Direct
  /\ memory' = memory \ {i}
  /\ late' = IF \E t \in Tasks : Past(t, i) THEN late \cup {i} ELSE late
  /\ op' = [op EXCEPT ![Main] = Work("remove", "row", i, i \in memory)]
  /\ UNCHANGED <<up, conns, disk, todo, used, shown, removed, hurt>>

(* remove_sign_in, to the drop of the lock.  A removal that failed leaves the *)
(* sign-in on the screen, where it can be removed again.                      *)
BeginRemove(i) ==
  /\ Free(Main) /\ i \in shown \ Direct
  /\ memory' = memory \ {i}
  /\ conns' = conns \ {i}
  /\ late' = IF \E t \in Tasks : Past(t, i) THEN late \cup {i} ELSE late
  /\ op' = [op EXCEPT ![Main] = Work("remove", "row", i, i \in memory)]
  /\ UNCHANGED <<up, disk, todo, used, shown, removed, hurt>>

(* disconnect_connection, of a direct connection *)
BeginDetach(i) ==
  /\ Free(Main) /\ i \in memory \cap Direct
  /\ memory' = memory \ {i}
  /\ op' = [op EXCEPT ![Main] = Work("detach", "row", i, TRUE)]
  /\ UNCHANGED <<up, conns, disk, todo, used, shown, removed, late, hurt>>

-----------------------------------------------------------------------------
(* AppState::restore, before the first command *)
Start ==
  /\ up = "down"
  /\ up' = "restoring"
  /\ todo' = row
  /\ UNCHANGED <<memory, conns, disk, op, used, shown, removed, late, hurt>>

(* From the snapshot or by a live refresh, with the token from the keychain; *)
(* the session is stored again.                                              *)
Restore(i) ==
  /\ up = "restoring" /\ op[Main].kind = "none"
  /\ i \in (todo \cap token) \ Direct
  /\ todo' = todo \ {i}
  /\ op' = [op EXCEPT ![Main] = Work("restore", "get", i, FALSE)]
  /\ UNCHANGED <<up, memory, conns, disk, used, shown, removed, late, hurt>>

(* restore_direct_attachments comes after restore_sign_ins *)
SignInsRestored == todo \subseteq Direct

(* restore_direct_attachment: the row and its secret are all it takes *)
Reattach(i) ==
  /\ up = "restoring" /\ op[Main].kind = "none"
  /\ SignInsRestored
  /\ i \in todo \cap (token \cup Keyless)
  /\ todo' = todo \ {i}
  /\ memory' = memory \cup {i}
  /\ shown' = shown \cup {i}
  /\ UNCHANGED <<up, conns, disk, op, used, removed, late, hurt>>

(* No token, no keychain, no network: the error is logged (of a direct *)
(* connection not even that) and the row stays                         *)
Skip(i) ==
  /\ up = "restoring" /\ op[Main].kind = "none"
  /\ i \in todo
  /\ i \in Direct => SignInsRestored
  /\ todo' = todo \ {i}
  /\ UNCHANGED <<up, memory, conns, disk, op, used, shown, removed, late, hurt>>

Restored ==
  /\ up = "restoring" /\ op[Main].kind = "none" /\ todo = {}
  /\ up' = "running"
  /\ UNCHANGED <<memory, conns, disk, todo, op, used, shown, removed, late, hurt>>

(* The process ends, wherever it is *)
Stop ==
  /\ up # "down"
  /\ up' = "down"
  /\ memory' = {} /\ conns' = {} /\ shown' = {} /\ todo' = {}
  /\ op' = [w \in Workers |-> Idle]
  /\ Broken(Workers)
  /\ UNCHANGED <<row, used, removed, late>>

Next ==
  \/ \E w \in Workers : Step(w)
  \/ \E t \in Tasks, i \in Ids : \/ BeginLogin(t, i) \/ BeginAttach(t, i)
                                \/ BeginWait(t, "reauth", i) \/ BeginWait(t, "connect", i)
  \/ \E t \in Tasks : StopWaiting(t) \/ Renew(t) \/ Connected(t)
  \/ \E i \in Ids : \/ Disconnect(i) \/ BeginFilter(i) \/ BeginRemove(i) \/ BeginDetach(i)
                    \/ Restore(i) \/ Reattach(i) \/ Skip(i)
  \/ Start \/ Restored \/ Stop

Spec == Init /\ [][Next]_vars

-----------------------------------------------------------------------------
At(i, ps) == \E w \in Workers : op[w].id = i /\ op[w].pc \in ps

(* A sign-in or a direct connection the user sees can be restored at the next *)
(* start: its token and its row are stored, except while its row is being     *)
(* replaced (persist_sign_in_session_snapshot deletes it and inserts it       *)
(* again), and unless a step that stores them failed.                         *)
ShownIsStored ==
  \A i \in memory \ hurt : i \in token \cup Keyless /\ (i \in row \/ At(i, {"insert"}))

(* No refresh token and no secret is left in the keychain without the row     *)
(* through which it can be found and removed, whatever persists and removals  *)
(* interleave.                                                                *)
NoStrayToken ==
  \A i \in token \ hurt : i \in row \/ At(i, {"delete", "insert", "secret"})

(* A sign-in whose removal was reported done, and a direct connection whose   *)
(* removal went through, stay removed, from the memory, the store and the     *)
(* keychain, over every restart, unless a task was already past its look at   *)
(* the memory when remove_sign_in took it out.                                *)
RemovedStaysRemoved ==
  \A i \in removed \ late : i \notin memory /\ i \notin row /\ i \notin token

(* A connection opened through a sign-in goes with it, unless it was being    *)
(* opened when the sign-in was removed.                                       *)
ConnectionsHaveSignIn == conns \subseteq memory \cup late

(* "Cached tokens for this sign-in are deleted" (App.tsx:1109) when           *)
(* remove_sign_in has returned Ok.                                            *)
RemovedTokenDeleted == removed \cap token = {}
=============================================================================
