------------------------------ MODULE Operations ------------------------------
(***************************************************************************)
(* Commands of the surfaces (Surfaces), carried out: who is asked, what is *)
(* sent (Pipeline, one request per operation), what it does to the account *)
(* (StorageAccount) and what the caller learns of it.                      *)
(*                                                                         *)
(* Two commands run at the same time, in one process or in two.  A request *)
(* <<c, i>> is the i-th operation of call c.                               *)
(***************************************************************************)
EXTENDS Pipeline, StorageAccount, Surfaces

CONSTANTS
  Calls,      \* calls of commands
  Shaky,      \* the requests that may fail or be put off (a bound)
  Starts      \* what may happen together: the calls' commands and the account

ASSUME OperationsAssumption ==
  /\ Requests = Calls \X {1, 2}
  /\ \A start \in Starts :
       start.commands \in [Calls -> Commands] /\ IsFound(start.account)

VARIABLES
  call,       \* the calls
  value,      \* what the answer to a request carried
  account     \* the storage account

ovars == <<vars, call, value, account>>

(* stage: "new", "ready" for its next operation, "allowed" to start it,     *)
(* "sending", "over".  consent: who has agreed: "nobody", a "person" asked, *)
(* or the "settings".  earlier: the calls that were over before this one    *)
(* started (observation).                                                   *)
NewCall(command) ==
  [command |-> command, at |-> 1, stage |-> "new", consent |-> "nobody",
   arg |-> Nothing, outcome |-> "none", earlier |-> {}]

OInit ==
  /\ Init
  /\ \E start \in Starts :
       /\ call = [c \in Calls |-> NewCall(start.commands[c])]
       /\ account = start.account
  /\ value = [r \in Requests |-> Nothing]

-----------------------------------------------------------------------------
(* Operations *)

(* Mutant: replacing the tags is not confirmed. *)
GatedButTags ==
  {"overwrite_blob", "delete_blob", "delete_blob_and_snapshots", "delete_container",
   "create_public_container", "set_container_public_access", "set_metadata",
   "set_properties", "set_access_tier", "rehydrate_blob", "delete_snapshot",
   "break_lease", "generate_sas", "delete_queue", "delete_message", "clear_messages"}

(* The operations that call Policy::confirm before they send anything *)
Gated ==
  {"overwrite_blob", "delete_blob", "delete_blob_and_snapshots", "delete_container",
   "create_public_container", "set_container_public_access", "set_metadata",
   "set_properties", "set_tags", "set_access_tier", "rehydrate_blob", "delete_snapshot",
   "break_lease", "generate_sas", "delete_queue", "delete_message", "clear_messages"}

Operation(c) == call[c].command.ops[call[c].at]

(* Mutant: set-props sends only the property it was given. *)
UpdateAlone(r) ==
  [f \in {"type", "cache"} |-> IF f = call[r[1]].arg THEN r ELSE Nothing]

(* set_props: the property it was given, the others as it has read them *)
Update(r) == [value[<<r[1], 1>>] EXCEPT ![call[r[1]].arg] = r]

(* Request r of operation op, carried out on account a *)
Perform(op, r, a) ==
  LET m == <<r, effects[r] + 1>>
      arg == call[r[1]].arg
  IN  CASE op = "list_containers"             -> ListContainers(a)
        [] op = "create_container"            -> CreateContainer(a, "private")
        [] op = "create_public_container"     -> CreateContainer(a, "public")
        [] op = "delete_container"            -> DeleteContainer(a)
        [] op = "set_container_public_access" -> SetContainerPublicAccess(a, "public")
        [] op = "list_blobs"                  -> ListBlobs(a)
        [] op = "read_blob"                   -> ReadBlob(a)
        [] op = "write_blob"                  -> WriteBlob(a, r, FALSE)
        [] op = "overwrite_blob"              -> WriteBlob(a, r, TRUE)
        [] op = "copy_blob"                   -> CopyBlob(a, r)
        [] op = "delete_blob"                 -> DeleteBlob(a, FALSE)
        [] op = "delete_blob_and_snapshots"   -> DeleteBlob(a, TRUE)
        [] op = "undelete_blob"               -> UndeleteBlob(a)
        [] op = "create_snapshot"             -> CreateSnapshot(a, m)
        [] op = "delete_snapshot"             -> DeleteSnapshot(a, arg)
        [] op = "get_properties"              -> GetProperties(a)
        [] op = "set_properties"              -> SetProperties(a, Update(r))
        [] op = "get_metadata"                -> GetMetadata(a)
        [] op = "set_metadata"                -> SetMetadata(a, r)
        [] op = "get_tags"                    -> GetTags(a)
        [] op = "set_tags"                    -> SetTags(a, r)
        [] op = "set_access_tier"             -> SetAccessTier(a, "archive")
        [] op = "rehydrate_blob"              -> RehydrateBlob(a, "hot")
        [] op = "acquire_lease"               -> AcquireLease(a, m)
        [] op = "release_lease"               -> ReleaseLease(a, arg)
        [] op = "break_lease"                 -> BreakLease(a)
        [] op = "list_queues"                 -> ListQueues(a)
        [] op = "create_queue"                -> CreateQueue(a)
        [] op = "delete_queue"                -> DeleteQueue(a)
        [] op = "put_message"                 -> PutMessage(a, m)
        [] op = "peek_messages"               -> PeekMessages(a)
        [] op = "get_messages"                -> GetMessages(a, m)
        [] op = "delete_message"              -> DeleteMessage(a, arg)
        [] op = "clear_messages"              -> ClearMessages(a)

FailsNot(r) == r \notin Shaky

(* What the service would do with request r now *)
Outcomes(r) == Perform(call[r[1]].command.ops[r[2]], r, account)

-----------------------------------------------------------------------------
(* Asking *)

Stage(c, next) == call' = [call EXCEPT ![c].stage = next]

End(c, outcome) == call' = [call EXCEPT ![c].stage = "over", ![c].outcome = outcome]

Over(c) == call[c].stage = "over"

(* What the arguments of a command may name: for set-props a property, for *)
(* the others the lease, the snapshot or the message of an earlier answer  *)
Arguments(c) ==
  LET known == {value[r] : r \in {s \in Requests : result[s] = "ok"}}
  IN  CASE call[c].command = SetProps -> {"type", "cache"}
        [] call[c].command.ops = <<"release_lease">> ->
             known \cup {Original}
        [] call[c].command.ops = <<"delete_snapshot">> -> {Original}
        [] call[c].command.ops = <<"delete_message">> -> account.hidden
        [] OTHER -> {Nothing}

(* The command is given: its arguments are read, its backend is resolved *)
Start(c) ==
  /\ call[c].stage = "new"
  /\ \E arg \in Arguments(c) :
       call' = [call EXCEPT ![c].stage = IF call[c].command.asks THEN "asking" ELSE "ready",
                            ![c].arg = arg,
                            ![c].earlier = {d \in Calls : Over(d)}]
  /\ UNCHANGED <<vars, value, account>>

(* approve: the MCP client shows the tool's request to a person.  Everything *)
(* but a yes refuses it, a client that cannot ask included.                  *)
Approve(c) ==
  /\ call[c].stage = "asking"
  /\ \/ call' = [call EXCEPT ![c].stage = "ready", ![c].consent = "person"]
     \/ End(c, "refused")
  /\ UNCHANGED <<vars, value, account>>

(* CliPolicy::confirm: --yes or the mode "yes" allow, the mode "auto" denies, *)
(* otherwise a person at a terminal is asked                                  *)
CliPolicy(decision) ==
  \E yes, terminal, y \in BOOLEAN, mode \in {"ask", "auto", "yes"} :
    decision =
      CASE yes \/ mode = "yes"                                -> "settings"
        [] ~(yes \/ mode = "yes") /\ mode = "ask" /\ terminal /\ y -> "person"
        [] OTHER                                              -> "denied"

(* The operation calls Policy::confirm; the MCP server (that has asked) and the *)
(* desktop allow everything                                                     *)
Confirm(c) ==
  /\ call[c].stage = "ready" /\ Operation(c) \in Gated
  /\ IF call[c].command.by = "cli"
     THEN \/ \E who \in {"settings", "person", "nobody"} :
               /\ CliPolicy(who)
               /\ call' = [call EXCEPT ![c].stage = "allowed", ![c].consent = who]
          \/ CliPolicy("denied") /\ End(c, "refused")
     ELSE Stage(c, "allowed")
  /\ UNCHANGED <<vars, value, account>>

-----------------------------------------------------------------------------
(* Doing *)

MayGoOn(c) ==
  \/ call[c].stage = "allowed"
  \/ call[c].stage = "ready" /\ Operation(c) \notin Gated

(* generate_sas sends nothing, it signs ... *)
Sign(c) ==
  /\ call[c].stage = "allowed" /\ Operation(c) = "generate_sas"
  /\ End(c, "ok")
  /\ UNCHANGED <<vars, value, account>>

(* ... if it has the account's key, for which it looks before it asks *)
LackKey(c) ==
  /\ call[c].stage = "ready" /\ Operation(c) = "generate_sas"
  /\ End(c, "Backend")
  /\ UNCHANGED <<vars, value, account>>

Send(c) ==
  /\ MayGoOn(c) /\ Operation(c) # "generate_sas"
  /\ Stage(c, "sending")
  /\ Begin(<<c, call[c].at>>)
  /\ UNCHANGED <<value, account>>

(* The service does what the request asks; the caller reads the answer, if one *)
(* comes                                                                       *)
ServeOperation(r) ==
  /\ Serve(r)
  /\ FailsNot(r) => answer'[r].kind = "success"
  /\ Outcomes(r).kind = "success"
  /\ account' = Outcomes(r).account
  /\ value' = [value EXCEPT ![r] = IF answer'[r].kind = "success" THEN Outcomes(r).value ELSE @]
  /\ UNCHANGED call

(* The service refuses for the account's sake, or for another reason *)
RefuseOperation(r) ==
  /\ Refuse(r)
  /\ answer'[r].kind \in {Outcomes(r).kind} \cup
       (IF FailsNot(r) THEN {} ELSE {"forbidden", "expired", "busy", "failed"})
  /\ UNCHANGED <<call, value, account>>

BreakOperation(r) ==
  /\ Break(r) /\ ~FailsNot(r)
  /\ IF effects' = effects THEN UNCHANGED account
     ELSE Outcomes(r).kind = "success" /\ account' = Outcomes(r).account
  /\ UNCHANGED <<call, value>>

(* A copy that arrives late and is refused might as well never arrive *)
ArriveOperation(r) ==
  /\ Arrive(r)
  /\ Outcomes(r).kind = "success"
  /\ account' = Outcomes(r).account
  /\ UNCHANGED <<call, value>>

(* The rest of send: nothing outside the pipeline changes *)
SendStep(r) ==
  /\ (Unsent(r) /\ ~FailsNot(r)) \/ Transmit(r) \/ Return(r) \/ BackOff(r) \/ Retry(r)
  /\ UNCHANGED <<call, value, account>>

(* Mutant: a command goes on whatever became of its first operation. *)
ConcludeAnyway(c) ==
  /\ call[c].stage = "sending"
  /\ LET returned == result[<<c, call[c].at>>]
     IN  /\ returned # "none"
         /\ IF call[c].at < Len(call[c].command.ops)
            THEN call' = [call EXCEPT ![c].stage = "ready", ![c].at = @ + 1]
            ELSE End(c, returned)
  /\ UNCHANGED <<vars, value, account>>

(* The operation has returned: the command goes on to the next, or ends *)
Conclude(c) ==
  /\ call[c].stage = "sending"
  /\ LET returned == result[<<c, call[c].at>>]
     IN  /\ returned # "none"
         /\ IF returned = "ok" /\ call[c].at < Len(call[c].command.ops)
            THEN call' = [call EXCEPT ![c].stage = "ready", ![c].at = @ + 1]
            ELSE End(c, returned)
  /\ UNCHANGED <<vars, value, account>>

(* Time passes for a lease or for a message that was taken *)
Lapse ==
  /\ \/ HasBlob(account) /\ account.blob.lease # Nothing /\ account' = LeaseEnds(account)
     \/ \E taken \in account.hidden : account' = ShowsAgain(account, taken)
  /\ UNCHANGED <<vars, call, value>>

RequestStep(r) ==
  ServeOperation(r) \/ RefuseOperation(r) \/ BreakOperation(r) \/ SendStep(r)

ONext ==
  \/ \E c \in Calls : Start(c) \/ Approve(c) \/ Confirm(c) \/ LackKey(c) \/ Sign(c)
                      \/ Send(c) \/ Conclude(c)
  \/ \E r \in Requests : RequestStep(r) \/ ArriveOperation(r)
  \/ Lapse

(* The process runs on and the service or the network ends every attempt; *)
(* nobody need answer a question or start a command                       *)
OFairness ==
  /\ \A c \in Calls : WF_ovars(Sign(c)) /\ WF_ovars(Send(c)) /\ WF_ovars(Conclude(c))
  /\ \A r \in Requests : WF_ovars(RequestStep(r))

OSpec == OInit /\ [][ONext]_ovars /\ OFairness
-----------------------------------------------------------------------------
(* Properties *)

Certain(c) == \A r \in {c} \X {1, 2} : ~doubtful[r]

(* "The core never performs a destructive operation without calling          *)
(* Policy::confirm first" (policy/mod.rs): what the account held is lost, in *)
(* whole or in part, only to a request of a desktop or embedder, or to one   *)
(* that a person or the settings agreed to before it was sent -- late copies *)
(* of it included.  (But for copies of the command line, and what time takes *)
(* away.)                                                                    *)
NothingLostUnasked ==
  [][Loses(account, account') =>
       \E r \in Requests :
         /\ effects'[r] > effects[r]
         /\ \/ call[r[1]].consent \in {"person", "settings"}
            \/ call[r[1]].command.by \in {"desktop", "embedder"}
            \/ call[r[1]].command = Cli("copy_blob")]_ovars

(* What the service has handed out -- a lease, a message that others no longer *)
(* see, a snapshot's name -- is in the hands of the caller it was made for, or *)
(* the caller still waits for the answer, or it was left in doubt.             *)
HandedOut ==
  (IF HasBlob(account) THEN account.blob.snapshots \cup {account.blob.lease} ELSE {})
    \cup {taken[2] : taken \in account.hidden}

HandedOutIsHeld ==
  \A m \in HandedOut \ {Nothing, Original} :
    LET r == m[1]
    IN  \/ doubtful[r] \/ pc[r] = "answered"
        \/ result[r] = "ok" /\ IF call[r[1]].command.ops = <<"get_messages">>
                               THEN m \in {taken[2] : taken \in value[r]}
                               ELSE value[r] = m

(* A call that was never in doubt has stored at most one message and made at *)
(* most one snapshot, however often it was put off and tried again.          *)
NoDoubleWork ==
  LET made == Messages(account)
                \cup (IF HasBlob(account) THEN account.blob.snapshots ELSE {})
  IN  \A m, n \in made \ {Original} :
        m[1] = n[1] /\ m # n => doubtful[m[1]]

(* Call e writes nothing over what call c has written: it has not started, it *)
(* was over before c started, or it cannot lose anything                      *)
StaysOut(e, c) ==
  \/ call[e].stage = "new"
  \/ e \in call[c].earlier /\ Certain(e)
  \/ \A i \in DOMAIN call[e].command.ops :
       call[e].command.ops[i] \notin Gated \cup {"copy_blob"}

(* "unspecified system properties are preserved (Azure otherwise clears them)" *)
(* (crates/arkived-cli/src/commands.rs): of two set-props one after the other  *)
(* that say they succeeded, the second leaves the property the first one set,  *)
(* unless a third command has written to the blob.                             *)
PropertiesPreserved ==
  \A c, d \in Calls :
    /\ call[c].command = SetProps /\ call[d].command = SetProps
    /\ c \in call[d].earlier /\ Certain(c)
    /\ call[c].outcome = "ok" /\ call[d].outcome = "ok"
    /\ call[c].arg # call[d].arg
    /\ \A e \in Calls \ {c, d} : StaysOut(e, c)
    => account.blob[call[c].arg] = <<c, 2>>

(* A command that says it failed or was refused, and was never in doubt, has *)
(* changed nothing; one that says it succeeded has done each operation once. *)
OutcomeIsExact ==
  \A c \in Calls :
    Over(c) /\ Certain(c) /\ Operation(c) # "generate_sas" =>
      \A i \in DOMAIN call[c].command.ops :
        effects[<<c, i>>] =
          IF call[c].outcome = "ok" \/ i < call[c].at THEN 1 ELSE 0

(* A command that has been allowed to go on ends, or asks for the next thing, *)
(* however often the service puts it off.                                     *)
CommandEnds ==
  \A c \in Calls :
    MayGoOn(c) \/ call[c].stage = "sending" ~>
      Over(c) \/ (call[c].stage = "ready" /\ Operation(c) \in Gated)
=============================================================================
