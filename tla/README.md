# amallo: formal models, checks and proofs

amallo is a tray application that puts a local Ollama behind an
authenticated proxy, carries requests of a paired browser to it through a
relay over an end-to-end encrypted connection, and keeps a store through which
the user's devices synchronise documents and blobs.  This directory holds TLA+
models of its stateful parts, the TLC runs that check them, and proofs that
TLAPS checks.  Paths below are relative to `src-tauri/src/`.

## 1. Inventory

| Component | State | Operations | Interacts with |
|---|---|---|---|
| Document store (`store/records.rs`, `store/mod.rs`) | SQLite: records, seq counter, reap floor, device cursors | push (one transaction), pull by page or by keys, record a cursor, reap tombstones, open | v1 API (one mutex around the connection), blob references |
| Blob store (`store/blobs.rs`) | files named by hash, `blobs` and `record_blobs` tables | put, read, check, sweep, seal legacy files | pushes, the maintenance task |
| v1 API (`api/v1.rs`) | none of its own | handlers; maintenance every six hours | both stores, each under separate lock acquisitions |
| Relay connection (`relay/conn.rs`) | session (idle, handshaking, established), held frames, channels, writer's session | read loop, handshake tasks, writer task | dispatcher, supervisor (status), settings (key watch) |
| Dispatcher (`relay/dispatch.rs`) | streams: body sender and abort handle per stream id | REQ, REQ_BODY, REQ_END, CANCEL, the request task | router, writer, read loop (back pressure) |
| Supervisor (`relay/mod.rs`, `state.rs`) | task handle, status, captured token and URL, backoff | connect, disconnect, respawn, redial | settings, tray, updater |
| Crypto (`relay/crypto.rs`) | ephemeral key and nonce of a handshake, counters of sealer and opener | hello, confirm, seal, open | relay connection, the paired browser |
| Wire codec (`relay/wire.rs`), allowlist (`relay/policy.rs`) | none | parse, encode, check, filter | relay connection, dispatcher, the proxy's router (whose lists it repeats) |
| Legacy sync (`sync.rs`) | one file per collection, key check file | exchange, seal at start | proxy, clients of the older protocol |
| Proxy (`proxy.rs`) | the listening task, one router for LAN and relay | check the token, route, forward, respawn | settings, dispatcher, stores |
| Updater (`update.rs`) | update status | tick, install | relay status |
| Settings, secrets, commands (`commands.rs`, `settings.rs`, `secrets.rs`, `pairing.rs`) | settings, token, keys | save, regenerate | supervisor, proxy |
| At-rest encryption (`at_rest.rs`) | none | seal, open | secrets, both stores, legacy sync |
| Tray, window, scripts | none or wiring only | | |

What is hard: pushes, pulls and sweeps of several devices interleave between
lock acquisitions and answers get lost; uploads and the sweep share files that
no lock protects; in the relay connection a read loop, a writer and any number
of handshake tasks exchange messages over small bounded channels while the
peer comes and goes; settings change under a running connection.  `hazards` in
PROJECT.json lists these at their lines.

What makes each component correct:

- *Document store*: the winner of two versions does not depend on the order of
  arrival; a stored version never goes back; a device whose cursor is accepted
  has missed nothing; what the floor says is collected is collected.
- *Blob store*: a reference always has a row and a row always has a file; a
  blob just uploaded is not collected.
- *Relay connection*: the two halves of a session belong together; a retired
  handshake is silent; a frame held during a handshake is not lost; the read
  loop always comes back to its select.
- *Dispatcher*: a stream gets one end; CANCEL and bodies reach the request
  they are meant for; entries do not outlive their requests.
- *Supervisor, settings*: status and running task agree; the key the relay
  knows ends up as the one in the settings; the proxy accepts what the
  dispatcher stamps.
- *Crypto*: two ends that accept a session share it with each other alone; no
  key seals twice under one nonce; what an end opens is what the other sealed,
  in order.
- *Wire codec*: decoding is the inverse of encoding, and a payload that is not
  what an encoder writes yields nothing at all.
- *Allowlist, proxy*: a lane reaches what its list means and no more; the list
  and the router agree; nothing is served without the current token; a change
  of the settings takes effect.
- *Legacy sync*: what was acknowledged is not displaced, clients that go on
  syncing end with the same versions, and a collection changes by whole
  exchanges only.
- *Opening the stores*: a crash at any step leaves data that the next start
  reads.

## 2. Modules

### SyncRecords (`store/records.rs`, parts of `store/mod.rs` and `api/v1.rs`)

`db` is what SQLite has committed (`rows`, `serverAt`, `next`), `tx` the push
transaction that holds the lock with its remaining records and its working
copy.  A push is `BeginPush`, one `PushOne` per record (`HoldBack` for
rejected and missing blobs, `KeepStored` for duplicate and superseded,
`Apply`), then `Commit` or `Rollback`.  A pull is `Pull` or `PullKeys` under
the lock, `RecordClientCursor` under the lock again, and then the answer's
way to the device: `ReceivePage`, `ReceiveKeys`, `ReceiveRefusal` or
`LoseReply`.  The device (`cursor`, `view`) is not in the repository; it does
what the protocol asks of it: keep the cursor of the answer, start again from
0 when refused, treat the pages from 0 on as a reconcile.  A sweep holds the
lock too and is two commits, the DELETE (`ReapTombstones`) and the new floor
(`RaiseFloor`), with `sweep` what it knows between them; `SweepCut` is a death
or an error there, and `orphans` the keys whose tombstones are gone since with
no floor to tell of it.  `SetClock` moves the wall clock either way.  A
document is its content hash, hashes are numbers in the order of their hex
text.  Blob references are in BlobStore; a live record may be held back for
missing blobs here at any time.  `db.newest` and `orphans` are history
variables.

### BlobStore (`store/blobs.rs`, the references of `records.rs`)

An upload is `PutWrite`, `PutRename`, `PutInsert`, the sweep `BeginSweep`,
`SelectCandidates`, `DeleteRows` and one `RemoveFile` per candidate, because
only single statements hold the lock.  `Push` replaces a document's references
if all have rows.  `DeleteAllowed` is the foreign key.  `PutFail`,
`SweepFails` and `Restart` are errors and crashes at each point.  Checking and
reading a blob change nothing and have no action.  `uploadedAt` and `struck`
are history variables.

### RelaySession (`relay/conn.rs`)

One connection after its hello.  `reader` is the read loop: its session, the
frame it has taken and not finished with (`busy`: an await in the middle of
handling), the failures counted, whether it returned.  `task[h]` is the h-th
handshake task with its inbox, `done` the channel of results, `cmds` the
channel to the writer, `writer` the writer's session.  Every arm of the select
and every branch on a frame's channel is an action; every send to a bounded
channel waits for room.  The relay and the browser may send any frame they can
know, in any order: a HELLO, the CONFIRM of a handshake whose HELLO they saw, a
frame sealed in a session whose CONFIRM they saw.  A handshake is its number,
and so is the session it yields; a sealed frame is its session, its counter
and whether its plaintext decodes.

### Dispatcher (`relay/dispatch.rs`, its callers in `relay/conn.rs`)

One session's dispatcher, its request tasks and the way to the writer.  The
read loop calls `handle`, one frame after the other; `handling` is the call
under way, and the awaits inside it (`Refuse` on a full outgoing channel,
`SendChunk` on a full body channel) are where other tasks run.  `HandleReq`
spawns the task and `Insert` makes its entry, two steps because the task may
run in between.  A request task answers (`SendHead`, `SendRespBody`,
`SendEnd`), lets go and removes its entry.  `Retire` and `CloseFrames` end the
session under it.  The router is the environment: it reads the request body or
drops it, answers or not.  A stream is a request; the peer uses an id once.

### RelayControl (`relay/mod.rs`, `commands.rs`, `tray.rs`, hello and key watch of `relay/conn.rs`)

The commands of the settings window and the tray are one step each: they are
synchronous Tauri commands and menu events, which run on the main thread one
at a time, with no await inside.  `sup[i]` is the i-th supervisor with its
connection: `Begin`, `SendHello`, `HelloOk`, `KeyChanged` (rekey, or redial
for a lane), `StartHandshake`, `SessionUp`, `SessionDown`, `ConnectionEnds`,
`BackoffEnds`.  What the session does inside is RelaySession's; here only its
state, because the status and the updater depend on it.  `abort()` only asks:
an aborted supervisor may take further steps until `Cancel`.  Pairing and URL
are one number, tokens and keys are numbers.  `astray` and `unpublished` are
history variables for the two places where the code gives a promise up.

### Updater (`update.rs`, over RelayControl)

Two tasks, the monitor's tick and the install button, each `Check`, then
`NothingNewer`, `CheckFails`, `Hold` (available, deferred) or `Download`, then
`DownloadFails` or `Restart`.  Between them everything of RelayControl runs;
the module composes the two over the relay status, which `Hold` and
`Download` read.

### AtRest (`secrets.rs`, `Store::open`, `sync.rs`, `at_rest.rs`)

A start, from the secrets file to serving, and what later writes leave on
disk; `pc` says how far the start has got.  `GetBearerToken` and
`GetStorageKey` read or write secrets.json, which is torn between
`WriteSecrets` and `SecretsWritten`.  `CheckKey`, `MoveStoreAside`,
`SealRows`, `Vacuum` and `SealBlobs` are `Store::open`; `ReadKeyCheck`, one of
`SealCollection`, `LeaveCollection`, `MoveAside` and `CollectionFails` per
collection, `WriteKeyCheck` and `KeyCheckWritten` are `SyncStore::new`.
`ExchangeStores` and `Answer` are the two ends of an exchange that changes a
collection, with the temporary file between them.  `Crash` comes at any point,
`ReplaceSecrets` is what the error message for a corrupt file advises, or a
restored backup.  A sealed thing is its key and its version and opens with
that key alone.  A database from before encryption may hold plaintext in freed
pages with or without a plaintext row (`Init`), and `MoveStoreAside` renames
the store's directory with all in it: `aside` is the plaintext that lies in
such directories.  `acked`, `failed` and `excused` are history variables: the
last two name what the code leaves wrong (section 4).  CollectionFile is the
abstract specification of the collections, in which an exchange is one step and
a collection is lost as a whole or not at all; that is what LegacySync builds
on with its one-step `Exchange` and its `Wipe`.  The refinement takes the
version of each file as `kept` (none while it is torn) and `acked` as
`answered`.

### PairedSession and FrameStream (`relay/crypto.rs`, handshake of `relay/conn.rs`)

PairedSession has any number of handshakes at each end of a pair.
`StartHandshake`, `ReceiveHello`, `ReceiveConfirm` are the steps of
`perform_handshake`, `Seal` and `ReceiveFrame` the sealer and the opener,
counters and closing included, `Retire` what the read loop does to a
handshake or a session.  The browser's program is not in the repository; it is
given the same steps with the roles swapped, as the test vectors have it.
`wire` keeps every message, and each `Receive` takes any of them, or a damaged
one: that is the relay.  An ephemeral key is the handshake it was drawn for
and derived keys are what they are derived from, so keys are equal exactly if
their inputs are.  FrameStream is the abstract specification, a stream per
direction of a session that hands out what it was given, in order; the
refinement takes as `sent` and `received` the bodies sealed and opened by two
handshakes that have verified each other's HELLO.  RelaySession asks when
which handshake and session are installed; here is what their messages mean.

### InnerFrames and RelayRequest (`relay/wire.rs`, `relay/policy.rs`, `proxy.rs`, head of `handle_req`)

InnerFrames is the codec as operators: digits, `Encodable`, `EncodeInner`, and
`Whole`, `First`, `Rest`, which are one turn of `decode_inner_all`.  The base
of a byte is a constant, and a stream id is any number of four digits.
RelayRequest follows a request: `ReadFrame` takes a message of a lane,
`DecodeInnerOne`, `DecodeInnerAll` and `DecodeFails` decode it, `Handle` checks
a head against the lane's list, filters its headers and stamps the token,
`Serve` is the router with its layers (CORS outermost, then the token, then the
routes).  Which heads there are and which payloads spell them (`Heads`,
`Spells`) are parameters, for JSON is a library's.  `LanRequest` enters at the
router. `RegenerateBearerToken`, `Connect` and `SessionUp` come in between.  A
path is a sequence of segments; the lists of both sides are written out,
because whether they agree is the question.  It composes with Dispatcher at
`handle_req`: there a request is an opaque stream, here it has no body.

### LegacySync (`sync.rs`)

One collection and clients that each have at most one request out.  `Exchange`
is the whole of `SyncStore::exchange`, one step because the lock is held
throughout and `store_map` commits by a rename (AtRest has what a crash in it
leaves); `ExchangeFails` is a map that cannot be read or stored.  `GiveUp` is a
client's timeout, after which the request may still be carried out
(`ExchangeLate`).  `Wipe` is the collection moved aside at a start under
another key.  The clients are external and do what the structures ask of them:
push what they changed until it is acknowledged, send the times they know, take
what is newer, push back what is `missing`.

### ProxyListener (`proxy::respawn`)

`SaveSettings` aborts the listening task and spawns the next one; `Bind` is
that task's first turn, `Drop` the moment the runtime drops the aborted one
and with it the socket.

### Left of the plan

A module of power loss in SyncRecords (a second copy of the database that
commits fall back to); Replica, an abstract specification of devices that copy
a store, which SyncRecords implements; a proof that the wait of `relay_stuck` is
the only one the read loop does not come back from.

## 3. Runs

| Run | Module, cfg | Shows |
|---|---|---|
| `sync_pull` | MCSyncRecords, SyncPull.cfg | `FloorExact`, `CursorComplete`, `StoredIsNewest`, `RowsOnlyMoveUp` hold |
| `sync_reconcile` | MCSyncRecords, Reconcile.cfg | violation: a device that was refused is refused again after each reconcile |
| `blob_store` | MCBlobStore, BlobStore.cfg | `RefsHaveRows`, `PhantomsAreStruck`, `YoungRowsStay` hold |
| `relay_session` | RelaySession, RelaySession.cfg | `HalvesAgree`, `HeldFramesOpened` hold |
| `relay_stuck` | RelaySession, RelayStuck.cfg | violation: read loop and handshake task wait for each other |
| `dispatcher` | Dispatcher, Dispatcher.cfg | `BodyWhole`, `CancelReaches`, `EntriesEnd` hold, and `HandleReturns`, `RequestsEnd` under fairness |
| `updater` | Updater, Updater.cfg | `OneSupervisor`, `KeyKnown`, `StatusTells`, `DownloadIsReal` hold, and `KeyComes` under fairness |
| `at_rest` | AtRest, AtRest.cfg | `ServedReadable`, `NoPlaintext`, `OnlyForeignMoved` hold, `Recovers` under fairness, and AtRest implements CollectionFile (`ImplementsCollections`) |
| `paired_session` | MCPairedSession, PairedSession.cfg | `EndsAgree`, `NonceOnce` hold, and PairedSession implements FrameStream (`ImplementsStream`) |
| `relay_request` | MCRelayRequest, RelayRequest.cfg | `DecodesExactly`, `InferenceOnly`, `RoutesAgree`, `TokenDecides` hold |
| `legacy_sync` | LegacySync, LegacySync.cfg | `NotDisplaced` holds, and `Converges` under fairness |
| `proxy_rebind` | ProxyListener, ProxyListener.cfg | violation: a change of the settings can leave the proxy without a listener |

Bounds.  `sync_pull` has two keys, one device, pages of one row, five push
records (two versions of one time, a deletion of the same millisecond and a
later rewrite of one key; one version of the other), sent alone or as two
batches of two (one key twice; both keys, a version that wins being rolled back
with one of the other key), three seqs and two clock values with retention and
ttl 0: enough for a page to be cut, for a push or a sweep to come between page,
record and receipt, for a tombstone to be collected by either rule, for a sweep
to be cut off, and for its key to be written again after it.  Devices only
meet through the floor, which any value of a recorded cursor reaches with one
device; the proofs are for any number.  `sync_reconcile` needs only a document,
a tombstone after it and one sweep.  `blob_store` has two hashes, one
document, two uploads, three clock values and a grace of 1: a candidate needs
age 2.  Hashes and uploads are symmetric.  `relay_session` has two handshakes,
capacities of 1, two held frames and counters 0 and 1, which lets results of
both handshakes wait, inboxes and channels fill up and the buffer overflow; the
code has 64, 4 and 16.  `MaxSeq`, `MaxNow`, `MaxHandshakes` and `MaxCounter`
are bounds of the models; the other constants are parameters of the code.
`dispatcher` has two streams and channels of one frame, so that each is full
after one send and two requests compete for the writer.  `updater` has two
supervisors (one aborted beside its successor is the hard case, a third adds
another aborted one) and three commands, start-up included: connect and
disconnect, switch on and off, save and regenerate in any order; `MaxSpawns`
and `MaxCommands` are bounds.  `at_rest` has two collections, two storage keys,
two versions and five crashes, failures and changes by the user: a key that is
lost, replaced by a new one and put back, with two starts cut off in between,
needs five.  `MaxKeys`, `MaxVersion` and `MaxFailures` are bounds. With
capacity 4 in place of 1 the deadlock of `relay_stuck` takes four results not
yet taken and a full inbox in place of one.  `paired_session` has two
handshakes at each end, two bodies and counters up to 2; with no more than
`MaxFrames` frames sealed in all, one stream still reaches and passes its last
counter, and two handshakes of one end with two of the other give every way to
cross, repeat or mix their messages.  Handshakes and bodies are symmetric.
`relay_request` has bytes of two bits: eight bytes of header, and lengths that
end at 63, so that a frame of 65 bytes is too long and would be taken for one
of 1.  Batches have one or two frames and are cut at every byte.  Requests
share nothing but the token, so one at a time (`MaxRequests`) is enough, and
one regeneration (`MaxToken`) before, between or after its steps.  The paths
are every entry of the lists with neighbours that differ in a segment, a method
or a query.  `legacy_sync` has two clients, one record, two times, three edits,
two faults and one loss: records of different ids never meet in `wins`, `known`
or `missing`. `proxy_rebind` has two ports and two tasks.

Deadlock is checked in `sync_pull`, `sync_reconcile`, `blob_store`,
`relay_request` and `legacy_sync`.  The others say `CHECK_DEADLOCK FALSE`: a connection ends, its
number of handshakes, frames or changes is bounded, and no start gets past a
torn secrets file.

Fairness.  `sync_reconcile`: a push or a sweep that holds the lock lets go of
it (`WF`), and the device pulls again and again and gets answers now and then
(`SF`, external); pushes and sweeps need not come.  `relay_stuck`: the read loop goes on with a frame it has taken and
takes results that wait (`WF`, tokio runs a ready task), a handshake task that
waits for room in a channel gets it (`SF`, tokio's bounded mpsc serves senders
in the order they came), and the writer takes commands (`WF`).  Frames,
failures and the writer's end need not happen.  The socket's sink is assumed
not to block for ever.  `dispatcher`: `handle` and the request tasks go on
(`WF`, and `SF` where they wait for room in a channel, for the same reason),
the writer writes; `RequestsEnd` and `HandleReturns` also assume of the router
(`RouterFairness`, external) that it goes on reading or lets go of a body and
answers in the end, which is what an Ollama that is up does; REQ_END and
CANCEL need not come.  `updater`: a supervisor that was started begins, its
read loop takes a changed key (`WF`; the arm is first of a `biased` select),
and the relay reads its rekeys (external); the relay's answers, sessions and
commands need not come.  `at_rest`: the app is started again and a start that
can go on does (`WF` of all its steps together); failures end at their bound.
`legacy_sync`: a client syncs again and again and takes the answers it gets
(external), and an exchange that can be carried out is (`WF`, a blocking task);
late requests need not arrive.  `proxy_rebind`: a spawned task runs and an
aborted one is dropped (`WF`); in which order is open.

Every property of a passing run has a mutant in PROJECT.json: a definition
that models code, changed the way a bug might, for which TLC finds that
property violated.

## 4. Divergences found

- A re-push of the stored content keeps its old `updated_at`
  (`store/records.rs:284`), so arrival order decides against an edit made
  between the two times: of A at 1, A at 3 and B at 2, in this order, B stays.
  `StoredIsNewest` holds, and is proved, when no content of a key is pushed
  under two times; no run shows the violation.
- A device that is refused for its cursor is to fall back to a full reconcile
  (`api/v1.rs:289`).  The cursor it gets with a page from 0 is the seq of the
  page's last row (`store/records.rs:461`), and the floor may be above that:
  the rows above were tombstones and are collected, or the page was cut below
  the floor.  The next pull is refused (`api/v1.rs:292`), the device starts
  from 0 and gets the same page, and so on until something is pushed; with more
  than a page of rows below the floor (the server's limit is 256) a push does
  not help.  `Reconciles` states it, `sync_reconcile` shows the shorter way.
- The inbox of a finished handshake and the channel of results can be full at
  once (`relay/conn.rs:778`), and then the read loop never returns to its
  select, nor to its silence check.
- `respawn` of the proxy spawns the new listener before the aborted one has
  closed (`proxy.rs:244`): if it binds first it fails and ends, and the proxy
  stays down until the next change or start.

Seven more are stated as properties in the modules, with no run of their own;
each is refuted by TLC when it is put in place of the property of a run of the
same module.

- `NothingForgotten` (SyncRecords): a sweep deletes the tombstones and writes
  its floor in two commits (`store/records.rs:533`).  Cut off in between it
  leaves the floor of before, and a device whose cursor lies between the two is
  accepted and keeps the deleted document; if the floor came from the age of
  those tombstones, no later sweep makes it again.  `CursorComplete` says that
  this is the only way to such a document.
- `NoPhantom` (BlobStore): `gc_blobs` removes files without the lock
  (`store/blobs.rs:212`), and an upload in between ends with a row and no file,
  the phantom its comment excludes.  `PhantomsAreStruck` says this is the only
  way there; a later upload mends it.
- `NothingPlainOnDisk` (AtRest): plaintext may stay in the app's data directory
  for good, in the two places named below.
- `FreshUploadsStay` (BlobStore): `INSERT OR IGNORE` (`store/blobs.rs:109`)
  does not restart the grace period of a blob uploaded again, which the comment
  at `api/v1.rs:36` excludes.
- `RetiredIsSilent` (RelaySession): results of handshakes carry no identity
  (`relay/conn.rs:628`), so the failure of a retired one retires its successor.
- `StampAccepted` (RelayControl): the bearer token is captured when a
  supervisor is spawned (`relay/mod.rs:127`) and `regenerate_bearer_token`
  restarts nothing, so relayed requests are refused until the next connect.
  `TokenDecides` of RelayRequest shows that this is the only way they are.
- `NeverInterrupts` (Updater): the updater looks at the relay status before the
  download and not after it (`update.rs:103`), so a session established
  meanwhile is cut off.

Met on the way and not a run of its own: the floor rises to the smallest
recorded cursor whether a tombstone was collected or not, so a device that
lost an answer, or is on the second page of a reconcile, can be refused though
it has missed nothing; `FloorExact` says nothing of that.  A request that ends
before `handle_req` has inserted its entry leaves the entry behind until the
session ends (`relay/dispatch.rs:182`); `EntriesEnd` exempts it (`late`).  A
request task holds the dispatcher and with it its own body sender
(`relay/dispatch.rs:177`), so when the session is retired before REQ_END, a
handler that waits for the rest of the body waits for ever; `RequestsEnd` asks
only after REQ_END.  `handle` awaits room in a request's
body channel and the read loop awaits `handle`, so a request whose body the
router does not read holds up every other stream while its channel is full.
The comment at `relay/dispatch.rs:58` says so; the one at line 287 and the
test at line 500, which sends no REQ_BODY, speak of per-stream isolation.  A
check for updates that was under way may overwrite `Downloading`
(`update.rs:72`), and both installers may then run.  Settings saved with the
endpoint on whose key could not be made publish nothing until the next change
(`commands.rs:40`).  A method in lower case passes the allowlist, which
ignores case, and is then refused by the router, which does not
(`relay/policy.rs:161`): `RoutesAgree` excepts it.

The legacy sync promises less than it seems to.  An answer carries what is
newer than the client's time (`sync.rs:220`), so of two versions of one time
the server keeps one and the client that holds the other is never told; clients
agree in times, which is what `Converges` asks.  After a collection was lost
`missing` names ids the server has nothing of: the first client to sync pushes
its version, and one with a newer version that is not dirty is then neither
asked for it nor told of the older.  `Converges` asks for some version of every
record in that case.

`AtRest` excepts by name what the code leaves wrong.  The key check file is
written in place (`sync.rs:156`), and after the collections: a start that is
cut off while it is written, that cannot write it, or that seals a plain
collection while the file still speaks of an older key leaves a check that does
not match, and the next start moves readable collections aside (`"check"` in
`excused`).  A collection that cannot be moved aside counts as readable from
the next start on, and every exchange on it fails (`failed`).

Plaintext outlives a start in two places, which `NoPlaintext` allows only to
the parts of the store named in `excused`.  Freed pages (`"pages"`): only a
start that found a plaintext row runs VACUUM (`store/mod.rs:182`), so they stay
after a crash between the commit of the sealed rows and the VACUUM, and in a
database from before encryption whose rows were since deleted.  Stores moved
aside (`"row"`, `"blob"`, `"pages"`): a start that is cut off once the key check
is committed and before all is sealed, with secrets.json lost then, makes the
next start rename the directory to `store-unreadable-*` (`store/mod.rs:117`),
where what was not yet sealed stays readable, although the comment calls it
unrecoverable.

## 5. Proofs

`SyncRecordsProofs`, `BlobStoreProofs`, `DispatcherProofs`,
`RelayControlProofs`, `AtRestProofs`, `PairedSessionProofs`,
`RelaySessionProofs` and `RelayRequestProofs` prove, for every value of the
constants allowed by the named assumptions of the modules, every invariant and
every action property that a passing run checks, and the two refinements:
PairedSession implements FrameStream, AtRest implements CollectionFile.  The
assumptions say what kind of value a constant is (bounds and capacities are
numbers, at least 1 where the code's are), and of RelayRequest that the base of
a byte is at least 2 and that batches and heads are sequences of frames and
heads.  Only the liveness properties are left to TLC (below).

*SyncRecords.*  `TypeCorrect` is inductive by itself up to the facts about
seqs.  `FloorIsExact` needs that cursors, recorded cursors, answers on their
way and the transaction's work never run ahead of the seqs handed out, and
that rows of the work above the floor are kept.  `CursorIsComplete` is not
inductive either: the invariant it rests on says of every answer in flight
what `UpToDate` says of the device, for the view the device will have once it
has merged it, at the cursor the answer carries; that seqs of different keys
differ; that between the two commits of a sweep its floor lies between the old
one and the head and no tombstone is left at or below it (`SweepInv`), while
`Untold` speaks for the devices which that floor does not tell yet; and that a committed transaction only adds rows above the head the
answers were made at.  `RowsMoveUp` needs that the transaction's work is
related to the committed rows the same way as two successive states are, and
of a sweep that what it deletes is at or below the largest of the three floors,
each of which is a reason to go (`MayGo`).
`ArrivalOrderIrrelevant` assumes `OneStamp`, that a content has one time per
key, and shows that the stored row and the newest version answered for are
equal.  Two theorems say what follows for a device and are stated in the proofs
module only.  `AtHeadAllAgree`: at the head it has exactly the server's
documents of its scope, orphaned keys excepted, by `CursorComplete`, because no row and no floor is
above the head.  `PagesGoForward`: an answered page that holds a row moves the
cursor up and an empty one moves it to the head, which is the safety half of a
device's catching up; the other half fails where `Reconciles` does.

*BlobStore.*  The invariant ties the candidates of a sweep to rows that are
old enough, and files to rows and to uploads past their rename, except for the
hashes in `struck`.

*Dispatcher.*  `BodiesAreWhole`, `CancelAlwaysReaches` and `NoEntryLeaks` are
not inductive.  The invariant adds that a chunk waiting to be sent is for a
stream whose entry is open unless its request has ended, that nothing exists of
a stream before its REQ was taken, and that a request in progress can be found
by a CANCEL, or will be by the next one because its insert is under way, or was
asked for by one that came before its entry.

*RelayControl.*  `OneSupervised` and `StatusIsTold` are inductive with each
other.  `KeyIsKnown` is not: it needs that the watched key is the one of the
settings while there is a supervisor (`WatchMatches`) and that the last word
on its way to the relay is the key the supervisor has seen (`Told`).

*Updater.*  Its specification is the relay's and its own steps beside it, so
`UpdateInvariant` takes the invariant above over from the same module and adds
`DownloadIsReal`, which is inductive with the types; a restart takes the
supervisors with it (`RestartKeeps`).  `RelayUnharmed` says that the relay's
properties hold in the composition.

*RelaySession.*  `TypeCorrect` needs that a handshake starts only from a frame
that was taken within the bound (`MayStart`), that nothing is queued of one
that was not started, and of its frames that those on the socket and those in
the queue are no more than its task has sent (`SentOK`), which gives the two.
`HalvesAgree` needs that an ended writer has no queue and no session, and that
a task that ended has its result in the queue while the read loop still routes
to it (`Reported`): a read loop that finds the inbox closed goes idle without
telling the writer, and it is that result which will.  Five lemmas say what the
writer comes to have when a command is queued, taken or dropped.
`HeldFramesOpened` speaks of one step, and what that step computes is a
recursive function over the frames held, the opener's counter as `pending` is
drained.  `DrainOpensAll` proves by induction on the frames that under the
property's condition the counter after i of them is the number of those of the
session among them.

*AtRest.*  The properties speak of a start that has gone through, or of one
step; the invariant `Kept` says what holds on the way there: rows and blobs
are sealed under the key of the database's check (`StoreKeyed`), which past
`CheckKey` is the key in memory (`Opened`); while the key check file is sound,
every collection sealed is sealed under its key (`CheckSpeaks`); the verdict
is that of the file (`VerdictOfCheck`); plaintext aside or in freed pages is
excused unless the start under way is still to clear it (`PlainExcused`); and the collections already looked at
open, unless the file that vouched for them was wrong (`DealtWith`).

For the refinement (`CollectionsAreKept`) it is enough that no collection is
torn and each has what was answered for (`AnsweredKept`, which is a theorem of
its own), and that an exchange under way replaces a collection by a newer one
(`NewerInHand`), which is inductive because only an exchange that finds no
other under way starts.  Sealing then maps to a stutter, `MoveAside` to a loss
and `Answer` to an exchange.

*LegacySync.*  `NotDisplaced` follows from winning being transitive
(`MergeKeeps`), once it is known of every record that is acknowledged that it
stood when its answer was made: `AnsweredStand` says so of the answers on their
way, and that a request, given up or not, has one record of an id
(`RequestsOK`) is what makes a merge well defined.  The rest of the invariant is
about the clients: they push only what they hold.  The proof is in
AtRestProofs, beside the store under it.

*PairedSession.*  None of its properties is inductive.  The invariant says of
every message on the wire who wrote it: a CONFIRM names the HELLO its writer
verified (`ConfirmsSent`), and a sealed frame is the n-th body of the one end
that has its key (`FramesSent`).  So an end that accepts a CONFIRM of its own
session is its peer's peer (`PeersAgree`), which with the transcript gives
`Agreement`; that the sealer's counter is the number of bodies sealed
(`Counted`) gives `NoncesUnique`; and that what is opened is a prefix of what
the peer sealed (`OpenedInOrder`) gives the refinement, in which a step is a
`Send`, a `Receive` of the next body, or a stutter of FrameStream.

*InnerFrames and RelayRequest.*  Two digit lemmas (a number below a power of
the base is what its digits spell, and digits are those of the number they
spell) carry the codec: `EncodedIsDecoded` says an encoded frame followed by
anything is whole, decodes to itself and leaves the rest, `DecodedIsEncoded`
that a frame taken from a payload encodes to the bytes it was taken from.
`Payload` and `Selected` are recursive functions, and what they compute is
proved by induction on the length of the batch.  `DecodesExactly` then rests on
`DecoderInv`: while a payload is decoded, the encoding of what was taken and
what is left make up the payload, and of a batch of this protocol the frames
taken are its first ones; an encoding determines its first frame, so the next
one taken is the next one written (`NextOfBatch`), and none is left when no
byte is.  The three properties of requests rest on `Sound`, of each request:
its lane's list let it in, its credential is its connection's stamp, which no
token has overtaken at that moment, and what served it was decided by its
method and by its credential against the token of the moment it records as
`expected`.  Which handler the router then picks for each entry of the lists is
`E2EPathsRouted` and `HttpPathsForwarded`, from the routes being disjoint
(`OneRoute`).  That no credential goes on to Ollama is about sequences of
headers of any length.

Inductions over batches, held frames and headers take the set of numbers a fact
holds of and show that it is all of them (`NatSets`): if not, it would leave
out a least number, by the library's theorem about well-founded relations.

Only model-checked: the liveness properties (`Reconciles`, `BackpressureEnds`,
`HandleReturns`, `RequestsEnd`, `KeyComes`, `Recovers`, `Converges`,
`ChangesApply`), which need fairness and `ENABLED` and are out of the prover's
reach.  The properties of the violation runs, and those of section 4 that do
not hold, have no theorem.

## 6. Not modelled

The text of JSON and of HTTP answers, and size limits beyond those named; the
ciphers; the store id; the development bridge without encryption
(`run_once_insecure`); the retry of a session that fails again and again
(`session_failures` is reset by every session that establishes, and a property
would only say so); power loss; the browser's and the devices' programs but for
what the code asks of them; user interface, scripts and the smoke test.  See
`components` and `hazards` of PROJECT.json.
