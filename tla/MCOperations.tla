----------------------------- MODULE MCOperations -----------------------------
(* Operations with two calls.  Either each is any command on one thing -- a   *)
(* lease, the properties, the blob's versions, the container, the queue (one  *)
(* surface stands for the others where they do the same) -- or the first is   *)
(* any command of any surface and the second only signs.  The first request   *)
(* of the first call may fail; each pair occurs either way round.             *)
EXTENDS Operations

CONSTANTS c, d

MCCalls == {c, d}

MCRequests == MCCalls \X {1, 2}

Leases == {Cli("acquire_lease"), Cli("release_lease"), Desktop("break_lease")}

Properties == {SetProps}

Versions ==
  {Free("create_snapshot"), Cli("delete_blob"), Approved("overwrite_blob")}

Containers == {Cli("create_container"), Desktop("delete_container"), Cli("write_blob")}

Queues ==
  {Free("put_message"), Cli("get_messages"), Approved("clear_messages")}

Blob ==
  [NewBlob(Original) EXCEPT !.type = Original, !.cache = Original, !.metadata = Original,
                            !.tags = Original, !.tier = "archive", !.snapshots = {Original}]

Full ==
  [container |-> "private", blob |-> Blob, trash |-> NoBlob, queue |-> TRUE,
   visible |-> {Original}, hidden |-> {<<Original, Original>>}]

Empty == [Full EXCEPT !.blob = NoBlob, !.trash = Blob, !.visible = {}, !.hidden = {}]

(* Reads are alike whoever makes them *)
Alone == Commands \ (McpReads \cup CliShows \cup {x \in DesktopMetadata : x.ops[1] \notin Gated})

WithBystander(command) == [x \in MCCalls |-> IF x = c THEN command ELSE Desktop("generate_sas")]

From(commands, found) == {[commands |-> f, account |-> found] : f \in commands}

MCStarts ==
  From(UNION {[MCCalls -> some] : some \in {Leases, Properties, Versions, Containers}}, Full)
    \cup From({WithBystander(command) : command \in Alone}, Full)
    \cup From([MCCalls -> Queues \cup {Free("undelete_blob")}], Empty)

MCShaky == {<<c, 1>>}
=============================================================================
