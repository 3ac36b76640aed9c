# Arkived, verified

TLA+ models of Arkived (a browser for Azure storage: a Rust core, a command line
tool, an MCP server and a Tauri desktop application), checked with TLC and proved
with TLAPS. The modules are translated from the code under `src/`; short paths
below are: `commands.rs` = `app/src-tauri/src/commands.rs`, `App.tsx` =
`app/src/App.tsx`, `cli/` = `crates/arkived-cli/src/`, `mcp/` =
`crates/arkived-mcp/src/`, all others under `crates/arkived-core/src/`.

To repeat a run: `tlc -config X.cfg M`, with the pairs in the table of runs. To
repeat a proof: `tlapm M.tla` for each module named `...Proofs`.

## The system

| component | state it keeps | operations | models |
|---|---|---|---|
| Activity registry and transfers (`commands.rs`) | rows newest first, cut to 200; a cancellation token per running transfer; both under one mutex that is taken and released many times per command | upload a file or folder, download a blob or prefix, cancel, clear, record | `Transfers` |
| Downloads and previews (`commands.rs`, `cli/commands.rs` `cp`, `App.tsx`) | local names and files; the pane and the request it waits for | choose a name, write a file; preview a blob, page through it | `Downloads`, `Previews` |
| Credential store (`auth/credentials.rs`) | OS keychain entries; a long secret is a marker and chunks | put, get, delete | `Keyring`, `SecretCell` |
| Request pipeline (`backend/azure/http.rs`, `retry.rs`, `error.rs`, `auth_bridge.rs`) | one call's attempts and pause | `send` | `Pipeline` |
| Block blob upload (`backend/azure/ops/write_blob.rs`) | buffer and block ids of an upload; at the service the blob and its uncommitted blocks | `write_blob` | `BlockUpload`, `AtomicBlob` |
| Rename, copy, delete of blobs and folders (`commands.rs`, `ops/{copy,delete,list}_blob*.rs`) | the container | `rename_blob_item`, `copy_blob_item`, `delete_blob_prefix`, `delete_blob` | `BlobMoves` |
| Containers, blob properties, metadata, tags, tiers, snapshots, leases, SAS, queues (`backend/azure/ops/`, `queue.rs`) | at the service | one request each | `StorageAccount`, `Operations` |
| Policy gate (`policy/`, `cli/policy.rs`) | none that is used | `confirm` | `Operations`, `BlobMoves` |
| Command line (`cli/main.rs`, `commands.rs`), MCP server (`mcp/lib.rs`) | none | their commands and tools, as the operations they call and who is asked | `Surfaces`, `Operations` |
| Command line accounts (`cli/account.rs`, `discover.rs`, `auth.rs`; `arm.rs`, `connect.rs`, `auth/entra/login.rs`) | SQLite tables and the keychain, shared by processes | account add, use, forget, discover; login, logout | `Accounts`, `Connections` |
| Store (`store/`) | SQLite tables with foreign keys | insert, upsert, get, list, delete | through `Accounts` and `SignIns` |
| Entra sign-in and tokens (`auth/entra/`) | a token bundle per credential; a login's polling or listener | device code, browser, cached token; `get_token` | `Tokens` |
| Desktop sign-ins (`commands.rs`) | the same sign-in in memory, a SQLite row, the keychain and a JSON snapshot file; connections opened through it | log in, renew a tenant, filter, connect, remove, restore at the start | `SignIns` |
| Direct connections (`commands.rs` 804-903, 3492-3512, 4071-4259) | memory, an `attached_resource` row, the keychain | connect, disconnect, restore | `SignIns` |
| Signing, XML, types, output, the rest of the user interface | none | pure functions, rendering | no |

How they interact. The user interface calls the desktop's commands; the
commands that are not async run on the main thread one after the other, the others are
tasks of a multi-threaded runtime. They share `InnerState` under one mutex that
is never held over an await. Every surface calls the operations of the core,
which ask `Policy::confirm` where they destroy something and send through
`HttpPipeline::send`; a token for it comes from `get_token`. Sign-ins and
accounts keep their secrets in the credential store and their rows in SQLite,
and each invocation of the command line is a process of its own over both. Every Ok
of a lower layer is what the layer above builds on, so the modules compose there:
`Operations` runs `Pipeline` under the commands of `Surfaces` on the account of
`StorageAccount`; `Previews` shares the blobs of `Downloads`; `SecretCell` is what
`SignIns` and `Accounts` assume of the keychain, `AtomicBlob` what a command may
assume of an upload, and a lost answer means to `BlockUpload` and `BlobMoves` what
`Pipeline` says.

What is hard: a mutex taken for each step rather than for a command; a user who
cancels, clears, closes or asks again between the steps; answers that are lost after the
service acted, and requests sent again or arriving late; several stores written one
after the other with no transaction over them, by several processes; a process that
ends anywhere; names looked up and taken later; tokens whose end two clocks count
differently; block ids that are the same in every upload. `PROJECT.json` lists
each hazard at its line with the properties that cover it, and a note where none does.

## The modules

**Transfers.** One action per critical section of the code. `activities` is the
Vec of rows (a function from id to status, outcome and index), `registered` the
keys of `activity_cancellations`, `cancelled` the tokens that are set, `pc` where
a command stands. `BeginActivity` lists the row under one lock and `RegisterToken` adds
the token under the next; `CheckToken`, `ReadChunk`, `PassChunk` are the stream of
an upload, `StopByToken` what ends a download; `ReadVerdict` and `Report` are the
two locks of `finish_transfer_error`. `CancelActivity` and the two kinds of
`clear_activities` come at any time. Chunks are not counted, a source may go on
for ever. Left out: bytes of progress; what a download does to the disk is in `Downloads`.

**Downloads.** `Begin` and `Look` are `unique_download_path` and its kin, one look at
the disk per name; `Take`, `MakeDirectory`, `CreateFile`, `Ask`, `WriteChunk`, `FinishFile`
are the loop of a download in the order of the desktop (the file first, then the
request) or of `cp` (the other way round); `Abort` is a failure or a cancel anywhere after
the name was chosen. `ChangeBlob` is another client. A file is the sequence of its chunks,
each marked with blob, version and number.

**Previews** extends it by `preview_blob` (`Answer`: what is loaded, cut and shown by
format) and the pane of `App.tsx` (`AskFor`, `Receive` with `previewRequestId`,
the pager's buttons, `Close`). Rows are chunks; an odd `Cap` cuts a row in two, and a
blob shorter than the cap is shown to its end (`Rows`).

**Keyring, SecretCell.** One action per keychain call of `OsKeyring`. `base` is
the key's own entry (absent, a whole secret or a marker with a count), `chunk` the
entries beside it, of which each piece is a secret and a position. `Begin`,
`PurgeChunk`, `WriteChunk`, `WriteBase`, `Erase`, `Fetch` and `Collect` are the calls
in the code's order; `Interrupt` is a call that fails or a process that dies. `SecretCell`
is the promise of the `CredentialStore` trait: an operation that returns Ok took
effect at one instant; one that failed may leave the old, the new, nothing or a
damaged secret.

**Pipeline.** `Begin`, `Transmit`, `Serve`, `Refuse`, `Break`, `BackOff`, `Retry`,
`Return` follow `with_retries` and `send_once`; `ErrorOf` is `map_rest_error`,
`IsRetryable` and `Backoffs` are `retry.rs` (the jitter is a choice, so `Backoffs`
is the set of pauses the code may draw). The service (external) serves,
refuses, throttles or breaks the connection before or after it acted, and
`Arrive` carries out a copy that was still on its way.

**StorageAccount, Surfaces, Operations.** `StorageAccount` has one operator per operation of
the core: what the request it builds does to an account of one container, blob (with
properties, metadata, tags, tier, lease, snapshots and what soft delete keeps) and queue (with
visible and hidden messages), and what the answer carries. The rules of the service are external, the
choice of request (headers, conditions, what is sent back) is the code's. `Surfaces` lists every
command of the command line, every tool of the MCP server and every command of the desktop on
one blob, container or queue, as the operations it calls one after the other and
whether it asks first. `Operations` runs them: `Start`, `Approve` (the MCP server's `approve`),
`Confirm` (`Policy::confirm` at the head of a gated operation, with `CliPolicy` as
`cli/policy.rs` decides), `Send`, the steps of `Pipeline` joined with the account, and
`Conclude`. A request is `<<c, i>>`, the i-th operation of call `c`. A success whose body cannot be read
(`queue.rs:314`) ends the call like a connection that breaks after the service acted on the last attempt, and is no case of its own.

**BlockUpload, AtomicBlob.** An upload's locals are a record (bytes read, bytes
buffered, blocks staged); `ReadChunk`, `Flush`, `Fill`, `Slice`, `EndOfStream`,
`Commit`, `Send` and `Reject` are the parts of `write_blob`. The service (external)
keeps the committed blob and, per block id, the block staged last, resolves
`<Latest>`, and drops uncommitted blocks when a blob is replaced. `AtomicBlob` is
the promise: the blob is replaced as a whole, at one instant, by an upload that was
asked for, and never by one with `overwrite = false` when a blob is there.

**BlobMoves.** `store` maps names to contents, a command is a record of what is
listed, copied and still to delete. `ListPage` reads one page (the listing
is not a snapshot of the container), `Copy`, `Delete` are one request each,
`LoseAnswer` lets one take effect while the command is not told, `Fail` ends the
command where it stands, and `Begin` gives it again. `Create` is another client.

**Tokens.** A clock ticks. `Begin`, `CodeArrives`, `Poll`, `Serve`, `Receive`, `Wake` are the device
code flow, `Redirect`, `Connect`, `Accept` the listener of the browser flow, which takes the first
connection whatever it is; `Finish` makes the bundle the connection's. `Build` gives a command a
credential of its own, `GetToken` runs to its only wait, `TakeRefreshed` and `RefreshFails` end
the wait. A bundle carries when its token really expires and when the client thinks so.

**Connections, Accounts.** `Connections` holds the parts a user may give and the two ladders of
`connect.rs` that read them, `Summary` (what the list says) and `Materialize` (what is opened).
`Accounts` is the command line over SQLite and the keychain: one action per SQL statement or
keychain operation (`PutSecret`, `UpsertAttached`, ... for `account add`, `use`, `forget`; `CacheToken` to
`Activate` for login; `Who` to `Clear` for logout; `Session` to `SaveKey` for discovery), any number
of processes, `Fail` at any of them. `SignInDelete` has the cascades of the schema. `unsettled` and
`alone` observe which accounts and sign-ins a failed or overlapping command has touched since a
command that ran alone put them right, `keyless` which accounts discovery last listed without their key.

**SignIns.** `memory`, `row`, `token`, `file` are the four places, `op` what the
main thread and each task are doing. `Get`, `PutToken`, `DeleteRow`, `InsertRow`,
`Load`, `Truncate`, `Write` are `persist_sign_in_session_snapshot`; `BeginRemove`,
`RemoveRow`, `RemoveToken` and the same file steps are `remove_sign_in`;
`Start`, `Restore`, `Skip`, `Restored` are `AppState::restore`. Any step may fail
(`Fail`) and the process may end anywhere (`Stop`); a keychain call that does
not complete may lose the token, as `SecretCell` says. `std::fs::write` is two steps,
because a stop between them leaves an empty file. Of the file only that it can
be parsed is modelled, since nothing else of it decides what a command does; what it
says of tenants and subscriptions is left out. A direct connection (`Direct`) is a second kind of entry in the same
places but the file: `BeginAttach` and the steps from the secret to the row are the four `connect_*` commands,
`BeginDetach` and the two removals `disconnect_connection`, `Reattach` and `Skip` its restoring. A connection by
`start_entra_device_login`, which belongs to no sign-in and is stored nowhere, is left out.

## The runs

| run | module, cfg | instance | states |
|---|---|---|---|
| `transfers` | `MCTransfers`, `MCTransfers.cfg` | a folder upload of two files, a folder download, one recorded activity, a list of two rows | 36 thousand |
| `previews` | `MCPreviews`, `MCPreviews.cfg` | two downloads that want one name (file and folder, two folders, file and `cp`), or a pane and three requests over four blobs | 174 thousand |
| `keyring` | `MCKeyring`, `MCKeyring.cfg` | four secrets: of one entry, two of two chunks, one of three | 11 thousand |
| `keyring_torn` | `MCKeyring`, `KeyringTorn.cfg` | the same | violated |
| `operations` | `MCOperations`, `MCOperations.cfg` | two calls: any two commands on one thing, or any command of any surface beside one that only signs | 417 thousand |
| `uploads` | `MCBlockUpload`, `MCBlockUpload.cfg` | two uploads of three blocks and one Put Blob in turn; or one of three blocks and two Put Blobs together, with late requests | 557 thousand |
| `moves` | `MCBlobMoves`, `MCBlobMoves.cfg` | two folders of two names: a folder rename given twice, also while it runs; a blob copied over another; the folder deleted | 1.5 million |
| `moves_unconfirmed` | `MCBlobMoves`, `MovesUnconfirmed.cfg` | one rename onto existing names | violated |
| `tokens` | `MCTokens`, `MCTokens.cfg` | one login of any kind, two callers, fourteen ticks | 151 thousand |
| `accounts` | `MCAccounts`, `MCAccounts.cfg` | two processes, four commands, two accounts, a sign-in, a subscription | 1.8 million |
| `sign_ins` | `MCSignIns`, `MCSignIns.cfg` | one sign-in, one direct connection, the main thread and two tasks | 2.4 million |
| `sign_ins_removed` | `MCSignIns`, `SignInsRemoved.cfg` | the same | violated |

What the passing runs show:

- `transfers`: `TokensWhileActive` (a token is registered exactly while its
  command works), `RunningRowCancellable` (a row shown as running belongs to a
  command that a cancel reaches, but for the moment before its token is
  registered), `OutcomeIsTruthful` ("done" means every file was moved, "cancelled"
  that the user asked, and a command stopped by its token reports no error
  though status and token are read under different locks), `LateWorkBounded`
  (how much passes after a cancel), `FinishedRowFrozen` (late progress and cancels do not
  touch a finished row), `RunningRowKept` (a running row is lost only to the cut
  of the list), `CancelEndsTransfer` (liveness).
- `previews`: `DoneIsWhole` (a file of a finished download is one version of its blob from
  the first chunk to the last, unless another used its place), `KeepsWhatWasThere` (no file
  that was there when the name was chosen is touched; `cp` overwrites only once the service has begun to send),
  `DownloadEnds`; `ShowsWhatWasAsked` (never an answer to an earlier
  request), `PagesShowEveryRow` (paging forward shows each loaded row once and in order).
- `keyring`: `NoMixture` (no marker covers chunks of two secrets),
  `CompletedPutReadable`, `NothingLeftBehind`, and `ActsAtomically`, the refinement of
  `SecretCell`.
- `operations`: `NothingLostUnasked` (what the account held is lost only to a request that a
  person or the settings agreed to, late copies included; the desktop asks in its interface,
  embedders themselves), `OutcomeIsExact` and `ExactWhenCertain` (with definite answers a command has done
  what it says), `HandedOutIsHeld` (a lease, a snapshot or a hidden message is in its caller's hands or
  was left in doubt by a lost answer), `NoDoubleWork` (retries after definite answers store nothing twice), `PropertiesPreserved` (`set-props` keeps
  what an earlier one set, unless a third command that may write comes between), `CommandEnds` (liveness).
- `uploads`: `BlocksTile` (cutting loses and repeats no byte and its subtraction does not
  underflow), `OkIsStored`, `CreateNeverReplaces`, and `ReplacesAtomically`, the
  refinement of `AtomicBlob`.
- `moves`: `NothingLost` (whatever fails or is repeated, every content that was not
  given up is still somewhere), `DoneMeansAll` (success means that every blob,
  also on later pages and left by earlier attempts, was dealt with; it says nothing of a command that fails, such as a delete
  whose answer was lost and whose repetition finds the blob gone).
- `tokens`: `HandedOutIsValid` (no expired token that could be refreshed is handed out),
  `RefreshesHardlyGoBack` (answers out of order take the credential back by no more than an answer is late),
  `ApprovalIsHonoured` (an approved login ends without a session only if the approval came within the last two
  pauses and two requests), `LoginEnds` (liveness).
- `accounts`: `CatalogConsistent` (the foreign keys), `SettledNamesAgree` and
  `SettledSignInsAgree` (secret, row and selection agree of what no failed or overlapping command has left half done).
  The list names what is opened, exactly, of an attached account whose credentials are not refused and of a discovered one whose key came with it, with the
  two exceptions below.
- `sign_ins`: `ShownIsStored` (what the user sees can be restored), `NoStrayToken` (no refresh token
  and no secret without the row through which it is found), `RemovedStaysRemoved` (over every restart),
  `ConnectionsHaveSignIn`.

Each of these properties has a mutant in the modules: an operator marked
"Mutant" that makes a plausible mistake in one definition and with which TLC
finds the property violated.

### Where the code and its words disagree

- `keyring_torn`, `ReturnsStored`: a put of a longer secret that is abandoned after some of
  its chunks leaves the old marker over new chunks; `get` returns a part of the
  new secret as if it were whole (`auth/credentials.rs:98`).
- `moves_unconfirmed`, `LossesConfirmed`: a rename or copy replaces an existing
  destination and asks no policy (`copy_blob` takes no `Ctx`). `NothingLostUnasked` makes the same
  exception for the command line's copies between blobs.
- `sign_ins_removed`, `RemovedTokenDeleted`: a renewed login of a tenant that is past its
  look at the memory stores the sign-in after `remove_sign_in` has returned Ok, against the
  confirmation "Cached tokens for this sign-in are deleted" (`App.tsx:1109`).
  `RemovedStaysRemoved` is what does hold.

Two more that no sentence of the repository denies, so they are no runs; `SettledNamesAgree` states what is left:

- `account discover` over an account of the same name renews the list entry whatever `list_keys` then answers
  (`discover.rs:49-74`). Without a key the old credentials stay, an attached account's or an earlier key, and may open
  another endpoint than the list now names. Such an account is `keyless`, and of its endpoint nothing is claimed, only that it is listed.
- When ARM gives no endpoint the list names none, while the saved key opens the account's public endpoint (`Discovered`).

Not a run: `backoff_for` caps the delay that `retry.rs:9-10` calls a lower bound, so a
`Retry-After` beyond the cap is cut short (`Backoffs` shows it); and `map_rest_error` makes
`Error::Backend` of every status without a variant of its own, which `is_retryable` repeats, so a
400 is sent eight times although `http.rs:8` speaks of transient errors only.

### Bounds, and why they are enough

- `transfers`: the list of two rows is full with three activities, so the cut, a running
  row pushed out and positions that shift all happen; a folder of two files has a
  first, a last and a step between. Transfers interact only through the list.
- `previews`: `Wanted` are the pairs that can meet at one name. `MaxIndex` = 1 makes
  both the number after a taken name and the end of the numbers happen (999 in the code). `Changing` and `MaxVersion` = 2:
  one blob is replaced once or deleted at any time. Two and three rows, pages of one and two and a
  cap of two and a half rows give whole and cut blobs, a last page that is full and one that is not. `MaxAsks` = 3: a
  page, the next, and one asked for in between. Of the two caps one is larger than the blob it cuts. Downloads and the pane only read the service, so
  neither can disturb the other and each is run without the other.
- `keyring`: sizes 0, 2, 2, 3 give every change between plain and
  chunked, shorter and longer, and two secrets of one size. One process: with two
  at once `NoMixture` does not hold, and the code does not claim it.
- `operations`: `Starts` pairs every two commands that share a lease, the properties, the
  versions, the container or the queue, and runs all the others alone. `Shaky` lets the
  first request of the first call be refused, put off, broken off and carried out late; either command of a pair may be the first.
  `MaxAttempts` = 2 (the code's 8) is one retry after one failure, the pauses are irrelevant here (`MaxBackoff` = 0); the proofs hold
  for any number of calls and attempts and any pauses.
- `uploads`: a block of 3 bytes, an inline threshold of 4 and chunks to 6 make chunks
  shorter than, equal to and longer than the room in the buffer and a whole
  block; lengths 8 and 7 end on different remainders; 3 and 4 stay inline. `Companies` are the uploads of one behaviour: `Alone` those in
  turn, with lost answers and stale blocks of one to be met by the next, `Late` those together, with requests that arrive late. Concurrent multi-block uploads
  are beyond the run: their block ids collide, and `OkIsStored` is stated for uploads in turn only.
- `moves`: two folders with two names each have a page boundary, a name to
  collide with and one left over. Ranks give the order of listing. `Together`: only the rename may run twice at once.
- `tokens`: `Lead` = `MaxDelay` = 2 is the least lead for which the answer's way is made up for; a lifetime of 4 makes refreshes
  fall due twice, a code that lives 8 intervals is polled up to its end. One login: logins share only
  the connection they end in. `LastStart` = 0 and `MaxTime` = 14 let the login end at its latest and its token expire.
- `accounts`: four commands (`Rounds`) are enough for add, forget, login and discovery to
  overlap in twos and be repeated after a failure. The processes are interchangeable (`SYMMETRY`, safety only). The proofs hold for any number.
- `sign_ins`: sign-ins share nothing but the file, whose only effect is that a command
  fails, which it may do anyway: one sign-in with two tasks has every
  interleaving of persists, removals and connections of that sign-in (`SYMMETRY` of tasks, safety only). A direct
  connection has its id for itself; one, with a secret, meets every failure and stop. The emulator's, which has none
  (`Keyless`), is left to the proofs, which hold for any number.

`CHECK_DEADLOCK FALSE` stands where the system may really stop: all transfers,
commands, downloads, uploads or moves over, the clock at its bound.

### Fairness

- `Transfers`: weak fairness of each step of a command that has begun, since the
  runtime polls a task that is ready, and a read or write of a local file or an answer of the
  service is taken to end, with a result or an error. Nothing is assumed of the user.
- `Operations`: weak fairness of `Sign`, `Send` and `Conclude` of each call and of the steps of each
  request: an attempt ends, in an answer or an error, and the sleep ends. Nobody need start a
  command or answer a question.
- `Tokens`: time passes; each login's and each call's steps are taken, so a request is answered or breaks, and a
  connection to the listener sends something or closes.
- `Downloads`, `Previews`: each download's `Step`. A preview may wait for ever.

The code bounds only connecting in time (`http.rs:138`); a service that accepts a request and
then says nothing at all holds a call for ever, which these liveness properties do not
see and which is listed as a hazard. The other modules state safety only and have no fairness.

## What is proved

For every value of the constants, from the assumptions named in the modules:

- `TransfersProofs`: `TypeOK`, `TokensWhileActive`, `RunningRowCancellable`,
  `OutcomeIsTruthful`, `LateWorkBounded`, `FinishedRowFrozen`, `RunningRowKept`. The inductive invariant is
  `IInv == TypeOK /\ TokensWhileActive /\ RowsInv /\ OutcomeInv /\ LateInv`: `RowsInv`
  ties a row's status to where its command stands (so that a finished row is
  one whose command is over), `OutcomeInv` says what a command has seen when it is about to
  report, `LateInv` what it may still do at each point once its token is set. `RunningRowKept` rests on `PlacesInv`:
  the rows of the list have distinct places, below the limit; what an insertion cuts is then counted with
  injections.
  The same module has the downloads and the previews that share their blobs (`PSpec`): `DoneIsWhole`,
  `KeepsWhatWasThere`, `ShowsWhatWasAsked`, `PagesShowEveryRow`, for any downloads and blobs, any caps and pages, and any
  changes of the blobs. `DInv` says of each download where it stands among its blobs (`Account`: to come, in hand and
  fetched are apart), that the file in hand is a prefix of one version (`Progress`) and those behind it are whole
  (`Finished`), unless another download or another blob of the same prefix is in its place (`Shared`, `Overlaid`), and that
  the desktop puts its files where there was none (`Chosen`). `PInv` says that an answer on its way is that request's
  (`RequestInv`), that a pane that does not wait shows the last request's (`PaneInv`), and that what has been seen
  are the first rows of one version, from whose end an awaited next page goes on (`ViewedInv`).
- `KeyringProofs`: `NoMixture`, `CompletedPutReadable`, `NothingLeftBehind` and the refinement
  `ActsAtomically`, for one process (`OneProcess`, an assumption of each theorem).
  `NoMixture` alone is not inductive: `ChunksInv` adds what the chunks are at every point
  of an operation (purged up to here, written up to there, from which
  secret), `GetInv` and `HeldInv` what a get has collected and what a completed put is to leave.
- `OperationsProofs`: of `Pipeline` alone (`Spec`) `TypeOK`, `EffectsBounded` (a request takes effect at most as often as
  it was sent), `OkTookEffect`, `ExactWhenCertain`, by counting: effects and copies on their way together never
  exceed the attempts. Then `OfThePipeline`: every step of `Operations` is a step of the pipeline or leaves it alone, so `ExactWhenCertain`
  carries over (`OSpecExactWhenCertain`); and `OSpecOutcomeIsExact`, with `Ordered` (operations before the one in hand
  returned ok, those after it were not begun) and `Truthful` (what the call will say is what the pipeline returned). Last `OSpecNothingLostUnasked`: every operation of
  `StorageAccount` outside `Gated` and `copy_blob` is shown to lose nothing (`Harmless`, a lemma per operation), and
  `ConsentInv` says who has agreed before a request that may lose something is sent.
  `OSpecNoDoubleWork` and `OSpecHandedOutIsHeld` rest on `MarkInv`: every message, snapshot, lease and receipt
  in the account is from before or carries the mark of a request that took effect (`Minted`), and unless that request
  is in doubt, its answer, also one on its way, has that mark (`Held`, `Taken`). `OSpecPropertiesPreserved` needs `PropsInv`: a
  `set-props` goes on from a whole reading (`ReadWhole`), what it has set is there while nobody is near who might write over it
  (`StoredInv`), and the next one, which sets the other property, reads it (`FollowedInv`). `OperationsAssumption` asks that
  no call has yet left its mark in an account a run begins with (`IsFound`).
- `BlockUploadProofs`: `TypeOK`, `BlocksTile`, `CreateNeverReplaces`, for any lengths, chunks
  and block sizes, any number of uploads at once and late requests. `OkIsStored` and the refinement `ReplacesAtomically`
  for uploads of which no two stage blocks at the same time: `InTurn` and `OneAtATime`, the assumptions of the two
  theorems, ask that of two uploads that stage blocks one runs alone and neither has late requests
  (uploads that go inline may do as they like). The block ids are the same in every upload, so neither property
  is inductive: `ShapeInv` says which part of the stream a block is (`Part`) and how many blocks there are (`IsCount`), `OwnInv`
  that under an id an upload has staged for certain nothing but its own part is found, though others have left theirs under
  the same ids and a list that was carried out has dropped them; what is committed is then its parts in order.
- `BlobMovesProofs`: `TypeOK` and `NothingLost`, for commands given in turn
  (`InTurn`: `Together` is empty, and no rename whose target and source contain each other,
  which the code refuses in `commands.rs:3219` and the interface's rename, a change of
  the last segment, cannot ask for). The invariant follows a rename's blobs: what is about to be
  deleted has its content at its destination. `DoneMeansAll` needs that no target contains its source, of copies too
  (`TargetsApart`: the hazard at `commands.rs:3388` is what happens otherwise). `Followed` says where each blob stands
  that was there when the command began: listed or ahead of the listing, then copied, deleted or still among the rest.
- `TokensProofs`: `TypeOK`, `HandedOutIsValid`, `RefreshesHardlyGoBack`, `ApprovalIsHonoured`, for any times with
  `MaxDelay <= Lead`. `Close` bounds by how much a bundle's claimed end is late, `Punctual` how long a login or a
  call has waited, `Approvable` when, given where the login stands, the user can have approved.
- `AccountsProofs`: `TypeOK`, `CatalogConsistent`, `SettledNamesAgree`, `SettledSignInsAgree`, for any processes, accounts,
  sign-ins and subscriptions, with `UnparsableAssumption` (a string that does not parse is no parsed string). The last two rest on `Apart` (who is alone shares nothing, and what two work on is
  unsettled), `Elsewhere` (a step touches only what its process works on) and `SignInFact` and `NameFact`, what a command
  has stored or removed so far at each stage, claimed as long as it is alone or what it works on is settled.
- `SignInsProofs`: `TypeOK`, `ShownIsStored`, `NoStrayToken`, `RemovedStaysRemoved`,
  `ConnectionsHaveSignIn`, for any sign-ins, direct connections and tasks. `IInv` gathers that a login or a new connection has its id for itself
  (`LoginInv`), that from the moment `remove_sign_in` drops the lock nothing can bring a
  sign-in back unless it is `late` (`RemovingInv`, `RemovedInv`), and `OwnInv` what a
  login or a restored sign-in has stored before its session enters the memory.

The type invariants, `EffectsBounded` and `OkTookEffect` are proved and listed in no run.

Every safety property of the passing runs is so proved. Only model-checked are the liveness properties `CancelEndsTransfer`,
`CommandEnds`, `LoginEnds` and `DownloadEnds`, since liveness under fairness is beyond the prover, like ENABLED. Induction over data and
RECURSIVE operators are out of its reach too; the modules use neither.

## Plan

Done: `Transfers`; `SecretCell`, `Keyring`; `Pipeline`; `AtomicBlob`, `BlockUpload`; `BlobMoves`; `SignIns`;
`Connections`, `Accounts`; `Tokens`; `StorageAccount`, `Surfaces`, `Operations`; `Downloads`, `Previews`.

Left, in this order:

1. What the snapshot file says of tenants and subscriptions, which overlapping commands can lose (hazard at `commands.rs:3958`).
2. Two multi-block uploads at once, with a statement of what may be mixed.
3. Proofs: of the keychain what survives when two processes use one key.

## Not modelled, and why

Signing and XML are pure functions of text, which the repository's test vectors cover; of connection
strings only what decides the endpoint and the kind of credential is modelled. Output, argument parsing, menus
and rendering decide no state. ARM discovery reads only; what it finds is a choice in `Accounts` and `SignIns`.
`if_match` of `write_blob`, the table `policy_memory` and the decision `AllowAlways` have no caller. A server-side copy that is
only started when it is answered (`copy_blob.rs:19`) would need the service's copy queue.
