------------------------------- MODULE Surfaces -------------------------------
(***************************************************************************)
(* What the command line (crates/arkived-cli/src/commands.rs), the MCP     *)
(* server (crates/arkived-mcp/src/lib.rs) and the desktop's commands       *)
(* (app/src-tauri/src/commands.rs) make of the operations of arkived-core. *)
(*                                                                         *)
(* A command is the surface it belongs to, whether the surface itself asks *)
(* a person first, and the operations it calls, one after the other, each  *)
(* only if the one before it succeeded.  ("Public", "overwrite" and        *)
(* "snapshots" in a name stand for the argument that says so.)             *)
(***************************************************************************)
EXTENDS Naturals, Sequences

Command(by, asks, ops) == [by |-> by, asks |-> asks, ops |-> ops]

Cli(op) == Command("cli", FALSE, <<op>>)

Free(op) == Command("mcp", FALSE, <<op>>)

Approved(op) == Command("mcp", TRUE, <<op>>)

Desktop(op) == Command("desktop", FALSE, <<op>>)

-----------------------------------------------------------------------------
(* The command line *)

(* ls, cat, doctor *)
CliReads == {Cli("list_containers"), Cli("list_blobs"), Cli("read_blob")}

(* cp, with and without --force; between two blobs it asks nobody *)
CliCopies == {Cli("write_blob"), Cli("overwrite_blob"), Cli("copy_blob")}

(* rm, sas, set-tier *)
CliBlobs == {Cli("delete_blob"), Cli("generate_sas"), Cli("set_access_tier")}

CliContainers ==
  {Cli("create_container"), Cli("create_public_container"), Cli("delete_container"),
   Cli("set_container_public_access")}

(* set-props reads the properties and writes back those it does not change *)
SetProps == Command("cli", FALSE, <<"get_properties", "set_properties">>)

(* set-meta, set-props, tags, set-tags *)
CliMetadata == {Cli("set_metadata"), SetProps, Cli("get_tags"), Cli("set_tags")}

(* snapshot, undelete, rehydrate *)
CliVersions == {Cli("create_snapshot"), Cli("undelete_blob"), Cli("rehydrate_blob")}

CliLeases == {Cli("acquire_lease"), Cli("release_lease"), Cli("break_lease")}

(* properties, meta *)
CliShows == {Cli("get_properties"), Cli("get_metadata")}

CliQueues ==
  {Cli("list_queues"), Cli("create_queue"), Cli("delete_queue"), Cli("put_message"),
   Cli("peek_messages"), Cli("get_messages"), Cli("clear_messages")}

(* dispatch *)
CliCommands ==
  CliReads \cup CliCopies \cup CliBlobs \cup CliContainers \cup CliMetadata
    \cup CliVersions \cup CliLeases \cup CliShows \cup CliQueues

-----------------------------------------------------------------------------
(* The MCP server *)

McpReads ==
  {Free("list_containers"), Free("list_blobs"), Free("read_blob"), Free("get_properties"),
   Free("get_metadata"), Free("get_tags")}

(* write_blob always overwrites *)
McpWrites == {Approved("overwrite_blob"), Approved("delete_blob"), Approved("copy_blob")}

McpElevated == {Approved("generate_sas"), Approved("set_access_tier"), Approved("set_tags")}

McpVersions == {Free("create_snapshot"), Free("undelete_blob")}

McpQueues ==
  {Free("list_queues"), Free("peek_messages"), Free("create_queue"), Free("put_message"),
   Approved("delete_queue"), Approved("clear_messages")}

McpTools == McpReads \cup McpWrites \cup McpElevated \cup McpVersions \cup McpQueues

-----------------------------------------------------------------------------
(* The desktop's commands on one blob or container *)

DesktopDeletes == {Desktop("delete_blob"), Desktop("delete_blob_and_snapshots")}

DesktopElevated == {Desktop("generate_sas"), Desktop("set_access_tier")}

DesktopMetadata ==
  {Desktop("get_properties"), Desktop("get_metadata"), Desktop("set_metadata"),
   Desktop("get_tags")}

DesktopTags == {Desktop("set_tags"), Desktop("create_snapshot"), Desktop("undelete_blob")}

DesktopLeases == {Desktop("acquire_lease"), Desktop("release_lease"), Desktop("break_lease")}

DesktopAccess == {Desktop("rehydrate_blob"), Desktop("set_container_public_access")}

DesktopContainers ==
  {Desktop("create_container"), Desktop("create_public_container"), Desktop("delete_container")}

DesktopCommands ==
  DesktopDeletes \cup DesktopElevated \cup DesktopMetadata \cup DesktopTags
    \cup DesktopLeases \cup DesktopAccess \cup DesktopContainers

(* Who embeds arkived-core may also call the two operations no surface calls *)
Embedders ==
  {Command("embedder", FALSE, <<op>>) : op \in {"delete_snapshot", "delete_message"}}

Commands == CliCommands \cup McpTools \cup DesktopCommands \cup Embedders
=============================================================================
