# A TLA+ verification of para-mcp

para-mcp is an MCP server over PARA-organised Markdown vaults. It reads and
writes notes in local directories, in Postgres or in S3, federates several
vaults behind one set of tools, follows remote servers, and derives summaries
and embeddings from note bodies in the background.

This directory holds TLA+ modules that model its core, the TLC configurations
that check them on small instances, and TLAPS proofs of theorems that hold for
every instance. `PROJECT.json` maps definitions to source lines and lists the
runs, the mutants each property has to catch, the hazards of the code, and the
theorems. Paths below are relative to `src/internal/` unless they begin with
`src/`; `localvault/` is `infrastructure/storage/localvault/`.

## Inventory

| Component | State | Operations | Interacts with |
| --- | --- | --- | --- |
| Actor pool (`infrastructure/actor/pool.go`) | map from (scope, path) to a buffered channel, `closed`, an RWMutex, a WaitGroup | `Do`, `create`, `Close`; one goroutine per key | every file mutation and indexing runs inside `Do` |
| Local vault (`localvault/local.go`, `mutations.go`, `scan.go`, `helpers.go`, `batch.go`) | files, note cache, backlink graph, full-text index | `Create`, `UpdateBody`, `Replace`, `PatchFrontMatter`, `Move`, `Delete`, `IndexFile`, `RemoveFile`, `RescanVault`, batches | actor pool, file system, watcher |
| Watcher (`localvault/watcher.go`, `rename_tracker.go`) | pending removals, timers, `dirty`, `rescanActive` | events, timers, ticks, rescans; a fallback without fsnotify | calls `IndexFile`, `RemoveFile`, `RescanVault` |
| Backlink graph and note cache (`infrastructure/storage/noteutil/noteutil.go`) | outbound links and their inverse; summaries | `Upsert`, `UpsertDiff`, `Remove`, `Links`; `Set`, `Move`, `Delete` | all three vaults |
| Full-text index (`infrastructure/index/index.go`) | postings, a queue of 512 operations, a writer goroutine | `Add`, `Remove`, `Search`, `Close` | vaults |
| Federation (`application/federation.go`, `cursor.go`, `registry.go`) | vault registry, tombstones, idempotency cache, cursors | fan-out queries with paging, `Promote`, scoped mutations | vaults, cursor store, tombstone store |
| Tombstone file store (`infrastructure/storage/tombstone/file_store.go`) | a set and the file it is saved to | `Add`, `Has`, load | federation |
| Cursor store (`server/cursorstore`) | handle to cursor with a deadline | `Put`, `Get`, expiry | federation |
| Remote vault (`infra/remotevault`) | summary and body caches with TTL, an event connection | reads through the caches, writes that invalidate, reconnect | event bus of the other server |
| Event bus (`infrastructure/mcp/events.go`) | subscribers with bounded buffers | `Publish`, `Subscribe` | MCP handlers, remote vaults |
| Semantic pipeline (`infra/semantic/pipeline.go`, `derived/`) | debounce timers, single-flight keys, derived records, vectors | events in, derive, embed, retry, delete | summariser, embedder, vector store, budget |
| Purger (`infra/semantic/tombstone`) | tombstoned records with a grace period | `Sweep` | vector store |
| Budget (`infra/semantic/budget`) | a rolling window of spending, a breaker | `Allow`, `Record` | pipeline |
| Wait for index (`infra/semantic/waitforindex`) | none | polls until a version is indexed | pipeline |
| Postgres and S3 vaults (`infrastructure/storage/postgresv`, `s3vault`) | rows or objects, the same cache, graph and index | the vault interface | database, object store |
| Audit log (`server/audit`) | a bounded queue and its writer | `Log`, `Search`, `Close` | middleware |
| Auth and RBAC (`server/auth`, `server/rbac`) | none | checks of a request | middleware |
| MCP handlers, note service, domain values, command line, evaluation | none of their own, or offline | decoding, delegation | |

### What is hard

* **Concurrency.** A note is changed by API calls, by the watcher's loop, by a
  rescan, by rename timers and by an editor that knows nothing of the server.
  Only the first three go through the actor; a timer's `RemoveFile` does not,
  and `Move` holds the actor of one of the two paths it writes.
* **Locks and channels.** `Do` holds a read lock while it sends, `Close` closes
  channels after it has released the write lock: a wrong order is a panic or a
  deadlock, not a wrong result.
* **Failure.** File events get lost, writes fail after truncation, contexts end
  while the operation is already queued.
* **Time.** A removal and a creation are paired within a window; the timer of
  the window races with the creation; a tick races with the rescan before it.
* **Derived state.** Cache, graph and full-text index are updated one after the
  other, under locks of their own, and repaired by rescans. With Postgres or S3
  two goroutines may change the store in one order and the indexes in another.
* **Distance.** A remote scope is read through two caches that another server's
  events are meant to keep fresh; the events are dropped when a buffer is full
  and lost when the stream breaks.
* **Paging.** A listing of several vaults is put together from answers given at
  different times, with offsets a client carries in a cursor.
* **Slow work.** Embedding a body takes long enough for the note to change, to
  be deleted or to be swept meanwhile.

### What makes each part correct

* Actor pool: operations of a key run one at a time and in the order of
  acceptance; no panic on a closed channel; everything accepted runs; nobody
  waits for ever.
* Local vault: a conditional write replaces what it compared; the indexes come
  to agree with the disk; nothing is listed that is gone; no backlink without
  its link.
* Federation: pages of a query cover every note once; `Promote` with one key has
  one effect; a tombstone hides exactly what was deleted.
* Remote vault: a reader never sees a note older than its own write; caches
  forget what changed.
* Semantic pipeline: the vectors of a note are those of its newest body, and a
  deleted note has none; the breaker closes again.
* Postgres and S3 vaults: the cache agrees with the newest committed row, a
  conditional write replaces what it compared, no note is lost.

Not all of these hold as they stand. Where the code has a hole that its authors
accept or did not close, the property names the hole and says that there is no
other; see the limits of the properties below.

`PROJECT.json` lists the hazards at their lines, with the properties that cover
them or the reason why none does yet.

## Modules

| Module | Models |
| --- | --- |
| `Serializer` | what the `Executor` interface promises: the abstract specification of the pool |
| `ActorPool` | `pool.go`: `Do`, `create`, `Close`, the actor goroutines, the RWMutex, the channels, ended contexts |
| `ActorPoolProofs` | theorems about `ActorPool` |
| `BacklinkGraph` | the graph as operators on its value |
| `LocalVault` | mutations, indexing, the files, the indexes, the editor |
| `VaultWatcher` | the watcher, composed with `LocalVault` |
| `VaultProofs` | theorems about `VaultWatcher` |
| `FederatedQuery` | reads of several vaults: `Query` with its cursors and the cursor store, `Search`, `SemanticSearch`, `Backlinks` |
| `FederatedWrites` | `Promote`, `Delete`, `Create` and updates of a federation, the idempotency cache, the tombstone store and its file, crashes |
| `FederatedQueryProofs` | theorems about `FederatedQuery` |
| `FederatedWritesProofs` | theorems about `FederatedWrites` |
| `RemoteCache` | the two caches of a `RemoteVault`, the handlers and the event bus of the server it reads, the event stream |
| `RemoteCacheProofs` | theorems about `RemoteCache` |
| `SemanticPipeline` | the pipeline, the vector store, the derived metadata, the purger |
| `SemanticPipelineProofs` | theorems about `SemanticPipeline` |
| `SharedVault` | `PostgresVault` and `S3Vault`: the store and the indexes in memory |
| `SharedVaultProofs` | theorems about `SharedVault` |
| `InductionFacts` | induction over natural numbers, for the proofs about queues and ranks |
| `MCActorPool`, `MCVaultWatcher`, `MCFederatedQuery`, `MCFederatedWrites`, `MCRemoteCache`, `MCSemanticPipeline`, `MCSharedVault` | small instances for TLC |

### ActorPool and Serializer

A caller of `Do` is a member of `Calls`, a caller of `Close` a member of
`Closers`; `pc` says between which two blocking points it is. `actors`, `queue`,
`closed` are the fields of `Pool`; `running`, `finished` and `exited` describe
the actor goroutines; `toClose` is the local slice of `Close`. `readers` and
`writer` are the RWMutex: an announced writer keeps new readers out and enters
when the readers have left, as `sync.RWMutex` does. The sections under the write
lock do not block, so each is one step.

| Code | Actions |
| --- | --- |
| `Do`: lookup, `create`, second look at `closed` | `Invoke`, `Lookup`, `CreateLock`, `Create`, `Relock` |
| `Do`: the two selects | `Send`, `CancelSend`, `Reply`, `CancelWait` |
| actor goroutine | `Start`, `Finish`, `Exit` |
| `Close` | `InvokeClose`, `CloseLock`, `MarkClosed`, `CloseChannel`, `AwaitActors` |

`Serializer` has no locks, channels or goroutines. Under the mapping
`waiting <- queue, active <- running, ran <- finished, shut <- closed` and
`quiet <-` "some `Close` that waited has returned", every behaviour of the pool
is a behaviour of it.

### LocalVault, VaultWatcher and BacklinkGraph

A thread is a goroutine with one operation at a time: a slot that serves API
calls, the watcher's loop, a rescan, and one thread per path for the removal a
rename timer starts. `job[th].at` is its next step, and a step is one access to
the disk or to one index. The actor pool appears as its abstract specification:
`busy[p]` is the operation in execution and a queued one begins when the actor
is free, in any order, since properties of the vault do not depend on it.

A file's content is a version, a body, whether it has a note id, and who wrote
it last. Two contents with the same version have the same ETag; the ETag ignores
derived front matter, so the write-back of an id keeps the version. Version 0 is
no file, version 1 an empty one. A file whose front matter does not parse
(`Garbled`, which an editor may save) is refused by every mutation that reads it,
and indexing leaves the indexes as they are (`scan.go:62`). What `ParseLinks` finds
in a body is the constant `LinksOf`. Events queue up in the order of the changes.

| Code | Actions |
| --- | --- |
| call, entry of the actor | `Invoke`, `Begin` |
| `readNote` and the ETag comparison | `ReadNote` |
| `Create` | `CreateFile`, `ReadBack`, then the index steps |
| `UpdateBody`, `Replace`, `PatchFrontMatter` | `WriteNote`, `ExistingLinks`, then the index steps |
| a write that fails after truncation | `WriteFails` |
| `Move` | `RenameNote`, `MoveCache`, `MoveGraph`, `MoveFts` |
| `Delete` soft and hard | `RenameNote` or `DeleteNote`, `DropCache`, `DropGraph`, `DropFts` |
| `indexNote` | `IndexRead`, `WriteBack`, `CacheSet`, `GraphLinks`, `GraphDiff`, `FtsAdd` |
| `RemoveFile` | `DropCache`, `DropGraph`, `DropFts`, outside the actor |
| `handleEvent` | `HandleCreate`, `HandleWrite`, `HandleGone`, `HandleTmp` |
| `fw.Errors` | `LoseEvent` |
| `time.AfterFunc` | `TimerFires` |
| tickers, `scanVault` | `Tick`, `TickRescan`, `ScanVisit`, `ScanDone` |
| editor (external) | `Truncate`, `Save`, `RemoveByEditor` |

Abstractions. The truncation and the write of an API call are one step, because
readers of the file in between are other operations of the same actor; the
editor's are two, because the watcher does see its file empty. `Remove` and
`Upsert` of the graph in a move, and `Remove` and `Add` of the full-text index,
are one step each. `Replace` is an update: they differ in front matter only. The
full-text index shows its queued operations as applied; its queue is FIFO. A
rescan visits the files in any order. A path has one thread for its timers'
removals: two removals of one path do not overlap. Sets stand for the lists of
links, since `ParseLinks` drops duplicates.

### FederatedQuery

One client of a gateway asks for one listing, or one search; everything else is
done by others. A vault's content is a set of ranks, places in the order of the
listing, so rows of two scopes can tie. A note may take any of several ranks
(`NameOf`), one at a time: a listing is sorted by the time of the update
(`mcp/handlers.go:301`), and so an update moves a note. A fan-out is one step per
vault and one step for the merge, since each vault is asked at a time of its own.

| Code | Actions and operators |
| --- | --- |
| `notes_list` and `Query` without a cursor, `effectiveScopes` | `StartQuery`, `EffectiveScopes` |
| `Query` with a cursor: `DecodeCursor`, `resolveScopesAndOffsets` | `NextQuery`, `DecodeCursor`, `StickyScopes` |
| `Search`, `SemanticSearch`, `HybridSearch`, `Backlinks` | `StartSearch`, `MergeSearch`, `BestMatches`, `AllBacklinks`, `NotCapable` |
| goroutine per scope, the vault's `Query`; a remote vault's summary pages | `AnswerQuery`, `VaultQuery`, `past` |
| the vault's `Search` and what its indexes offer | `AnswerSearch`, `Offers`, `TextHits`, `VaultSearch` |
| the 500 limit of a remote `notes_list`; `RemoteVault.Search` | `Refuses`, `Refused` |
| a vault that fails or lacks the capability | `Fail` |
| merge, sort, cut, `EncodeCursor`, `Put` | `Collect`, `TopRows`, `Advance`, `EncodeCursor`, `PutCursor` |
| no scope answered; a slice with a negative limit | `Unavailable`, `Panic` |
| cursor store TTL, restart with a new `cursorKey` | `ExpireHandle`, `Restart` |
| other callers, a change of the caller's grants | `OtherCreate`, `OtherUpdate`, `OtherDelete`, `Revoke` |

*Limits and offsets.* They reach `Query` as the client gave them. A limit of zero
gives an empty page and a cursor to where it was; a negative one slices out of range
(`Panic`). A vault takes a limit that is not positive for its default and a negative
offset for zero, while the gateway counts on from the negative one. Only the first
request of a listing has a start offset, and an offset above `MaxListOffset` is
refused.

*Remote pages.* A remote vault caches the summaries of each page apart, so that two
pages of one listing may be of different times. `past` has the earlier contents that
a cached page may still show: all since the listing began, until a restart. A vault
need not answer from any of them, so dropping one takes no step.

*Search.* Search ranks stand for scores; fusion and boosts are left out. What a
vault's index offers is in `Offers`: a text search takes `OverFetch` hits for each
row it wants and only then leaves out those that the filter rejects or that have no
summary (`localvault/queries.go:62`), and which these are is any set; what the
vectors find is any subset of the notes. `RemoteVault.Search` is not an answer
at all: it decodes the list in a reply that wraps it in an object
(`remotevault/vault.go:137`, `mcp/handlers.go:316`), so the call fails and a remote scope
never contributes to a text search (`Refuses`).

Other abstractions. Tied rows may come in any order. A cursor is inline when it names
at most `InlineBudget` scopes, in place of 1024 bytes; its mac holds exactly when the
incarnation that made it still runs. The order a listing asks for (`Sort`, `Desc`) is
one order, which the client repeats on later pages, as it has to: the cursor's copy of
it is not used. The server behind a remote scope serves one vault, so that the scope
argument it ignores makes no difference. Handles are numbered by the pages that show
rows. What others do before the first request is part of the initial states.

### FederatedWrites

Each client runs one call; a step is one call to a vault, one access to the
idempotency cache, or one access to the tombstone file. A note is its NoteID and a
number for its content; its ETag is the content alone, as `etag.go` leaves the id
out. The content stands for what `Create` sends to a remote server (title, status,
area, project, tags, body), which mints the NoteID of the copy itself.

| Code | Actions |
| --- | --- |
| `Promote`: `lookupIdempotency` | `PromoteCall` |
| its `Get` and the caller's `if_match` | `PromoteGet`, `Read` |
| `bodies.set` and `SetNoteID` | `PromoteMint` |
| `Create`, or `Replace` on a conflict | `PromoteCreate`, `PromoteReplace` |
| `Move` of the source to `archives/` | `PromoteArchive` |
| `storeIdempotency`, eviction, the daily expiry | `PromoteStore`, `ExpireIdempotency` |
| body cache of a remote scope | `FillBody`, `DropBody` |
| `Delete` and the tombstone store's `Add` | `DeleteCall`, `DeleteVault`, `TombstoneAdd` |
| `flush`: `os.WriteFile` | `FlushOpen`, `FlushWrite`, `FlushError` |
| `Query` of one scope | `QueryCall`, `QueryFetch`, `QueryMerge`, `ExpireSnapshot` |
| `Create`, `UpdateBody`, `PatchFrontMatter`, `Replace` | `Create`, `UpdateBody` |
| the gateway stops, and loads the tombstone file | `Crash`, `Start` |

`os.WriteFile` truncates and then writes, so a crash between the two leaves a
file that does not parse; `New` then returns an error and the gateway does not
start (`Start` is not enabled). The source of a promotion out of a remote scope may
come from the body cache and be old, or deleted since. `SetNoteID` writes into the
map that the source's front matter shares, except when the source had none:
`PromoteReplace` says what either leads to. With a cached source the map is the
cache's, so a second promotion of the note that overlaps the first writes its NoteID
into the copy of the first as well; the ghost `aliased` has these ids. The move to
`archives/` overwrites what is archived there when the scope is a `LocalVault` and is
refused when it is a `SharedVault`; `PromoteArchive` allows both, for every scope.

### RemoteCache

The server's notes are versions, the gateway holds a body cache (first in first
out, with a capacity in bytes) and a summary cache with one listing. Reads are a
miss, a call and the entry of the answer into the cache; writes change the note,
publish, answer and invalidate, in this order.

| Code | Actions |
| --- | --- |
| `Get`, `Query` through the caches | `GetMiss`, `GetCall`, `GetSet`; `QueryMiss`, `QueryCall`, `QuerySet` |
| TTLs | `ExpireBody`, `ExpireListing` |
| handlers of `mcp/handlers.go`, `notePromote` of another client among them | `Mutate`, `EventsOf`, `Publish` |
| what no handler publishes | `Unpublished` |
| changes behind the tools: an editor, the watcher, a failed write (external) | `Edit` |
| `RemoteVault` after a write; an answer that is lost | `Answer`, `AnswerLost` |
| `WatchEvents`, `streamSSE`, `SSEHandler` | `Connect`, `Receive`, `Cut`, `Disconnect` |

`UpdateBody`, `PatchFrontMatter` and `Replace` are one operation, a batch has one
item. A move, a soft delete (to a `.trash` path, operation `trash`) and a promotion
(to an `archives` path) may replace the note that is there, as `os.Rename` does. The
handlers publish the path as the client wrote it, before the vault's normalisation:
`raw` is a client that wrote it otherwise. The handlers of a delete and a promotion
know the source only, so where the note went is never published.

### SemanticPipeline

`Workers` are goroutines: of a timer that has run out, or of an event that is not
debounced. `debounce`, `embedFree`, `sumFree` and `closed` are the pipeline's
fields, `timers` the timers that still run, `vec` and `meta` the two stores, `tix` and
`sweep` the purger's. A body is a number that stands for its hash. The vector store is
`PgVectorStore` or `SqliteVecStore`, chosen in Init; the second has one vector per note
(`one`), because the note's id is the primary key of its vector table.

| Code | Actions |
| --- | --- |
| `Submit`, `NotePurge` | `SubmitBody`, `SubmitFrontmatter`, `SubmitDelete`, `Purge` |
| the timer's function and its generation check | `Fire`, `TimerLock` |
| `processFrontmatter`, `processBody`, singleflight | `ProcessFrontmatter`, `ProcessBodySkip`, `ProcessBody` |
| `runBodyPipeline`: semaphores, calls, stores | `AcquireEmbed`, `Embed`, `Upsert`, `UpsertAll`, `AcquireSummary`, `Summarize`, `SetDerived` |
| `retryWithBackoff`, errors | `Retry`, `GiveUp`, `GiveUpAcquire`, `StoreFails` |
| `Tombstone`, `NotePurge` of the purger | `Tombstone`, `TombstoneRecord`, `PurgeVectors`, `PurgeVector`, `PurgeMeta` |
| `Sweep` | `SweepList`, `SweepSelect`, `SweepDelete`, `SweepDeleteVector`, `SweepFails` |
| `Close` | `Close` |

Vectors and summaries are the body they were made from. A `PgVectorStore` upserts a
row per statement, a `SqliteVecStore` all rows in one transaction; either keeps the rows
of a longer, older body when a shorter one is upserted, and deletes only whole notes, the
second in two statements without a transaction. The sequence numbers of the timers begin
again when a note has no entry left (`pipeline.go:143`). Any tombstone whose age the
purger knows may be old enough for a sweep, one of an earlier process always is.
`PurgeMeta` has three outcomes: the record is emptied, nothing happens (there is no note
to write to), or the goroutine goes no further (`SidecarStore.Set` panics on the
empty record, `sidecar.go:99`); that the panic may end the whole process is left out, and
so is the loss of a frontmatter store's metadata together with its file. `ON CONFLICT` on
the vector table of SQLite is taken at its word. The count of failed sweeps only raises
an alarm and is left out.

### SharedVault

A Postgres call is a transaction: `PgRead` (with `SELECT ... FOR UPDATE`) and
`PgCommit` or `PgRollback`. An S3 call is a sequence of requests: `S3Read`,
`S3Put` or `S3PutRefused`, `S3Trash`, `S3Drop`. Both go on with `SetCache` and
`SetDoc`, outside any lock. The summary cache is keyed by the path in lower case
(`KeyOf`), rows, objects, graph and full-text index by the path itself: two paths that
differ in case only share one entry, which is that of the note put there last, and
whoever removes one of them removes the entry.

A rescan of a rescanner is `RescanStart` (a new cache), `RescanGraph`, `RescanFts`,
`RescanRead` and one `RescanLoad` per path: Postgres reads a snapshot, S3 each object in
its turn. `RescanFail` is a query or listing that fails with the indexes emptied,
`RescanSkip` an object that S3 could not read. Rescans may overlap. `Foreign` is a write
or a removal by another process, which respects the row locks and tells this process
nothing; a foreign move is a removal and a creation. Loading a row into cache, graph and
full-text index is one step.

Updates by body and by `Replace` are one operation, a patch is another because it keeps
the links and leaves the full-text index alone. The precondition an S3 update sends is
the ETag computed over the note (`s3vault/mutations.go:80`), which S3 does not know: such
a put is always refused (`S3PutRefused`).

## Runs

| Run | Instance | Shows |
| --- | --- | --- |
| `actorpool_safety` | 3 calls on one or two keys, 2 closers, buffer 2 | `TypeOK`, `NoSendOnClosed`, `NoDoubleClose`, `RealTimeOrder`, `ImplementsSerializer` |
| `actorpool_live` | 3 calls on two keys, 1 closer, no buffer | `Responsive`, `AcceptedRuns` |
| `vault_safety` | a note and its trash path, 2 slots, 2 bodies with different links | `TypeOK`, `NoGhost`, `NoPhantom`, `NoSilentOverwrite` |
| `vault_converges` | the same with 1 slot and 1 body, with fairness | `Converges` |
| `vault_late_removal` | 1 slot, 2 calls | violates `IndexedAtRest` |
| `vault_move_race` | 2 slots, 3 calls | violates `StaleWriteRejected` |
| `federation_query` | 2 scopes, one remote; 2 notes on 3 ranks; limits and start offsets -1 to 2 | `TypeOK`, `OnlyAllowed`, `NoRepeat`, `PagingExact`, `SearchBest`, `PagingEnds` |
| `federation_limit` | the same with a vault maximum of 1 and limit 1, nobody else at work | violates `PagingExact` |
| `federation_writes` | 2 clients, a local and a remote scope, 1 path, 2 keys | `TypeOK`, `ReplayKnown`, `ArchivedWasCopied`, `UniqueIDs`, `NoGhostRow`, `AckedDeletesKept` |
| `remote_cache` | 2 goroutines of the gateway, 1 other client, an editor, 2 paths | `TypeOK`, `StaleExplained`, `ReadYourWrite`, `BodyBudget` |
| `semantic` | both vector stores, 1 note, 2 goroutines, 2 bodies of 1 and 2 chunks | `TypeOK`, `LastBodyIndexed`, `DeletedNotSearchable`, `WorkEnds` |
| `shared_vault` | both backends, 2 goroutines and a rescanner, 3 paths, two of one key | `TypeOK`, `IndexExplained`, `StaleWriteRejected`, `NoNoteLost` |

**Pool.** Three calls are enough for two of them to race in `create` while a
third blocks, two closers for one to find the pool closed. With a buffer of two
and one key, all of the full, the partly filled and the empty channel occur.
Without a buffer a sender holds the read lock for as long as the actor works,
which is the worst case for `Responsive`. `BufferSize` may be zero in the code
(`WithBufferSize`).

**Vault.** The constant `Budgets` bounds the inputs: each of its members says how
many API calls, editor's changes and lost events a behaviour may have, and Init
picks one. `vault_safety` has two calls, or a call and a change by the editor, or
one of these and a lost event, or two changes by the editor; everything else
(events, timers, ticks, rescans, failed writes) is unbounded. The second path has
the base name of the first, so that the tracker can pair a removal of one with a
creation of the other. Two bodies, one with a link that the other lacks, make
`UpsertDiff` both add and drop. The slots are interchangeable, so the safety run
uses symmetry; the liveness run does not.

**Federated query.** Two scopes with one or two notes each at first give listings of up
to four pages of one row, with ties and with scopes that run out before the other. Of
the three ranks two belong to one note, on either side of the other's: an update moves
the first note behind the second, or back. `MaxPage` is 3, the largest number of rows a
vault is asked for, so that the third finding does not occur here; `MaxListOffset` is 1,
so that a start offset and a remote scope's second offset are refused; `InlineBudget` is
1, so that a listing of both scopes needs a handle and a listing of one does not.
`DefaultLimit` is 1 and `OverFetch` 2, so that a search with a larger limit, or behind
rejected hits, sees the cut. `MaxChanges` is 1: a creation, an update, a deletion, a
failure, a revocation or a restart, at any point of a listing whose initial state may
have a tombstone; two of them in a row are what the theorems cover. `MaxPages` is 6,
more than any of these listings has. `federation_limit` has no changes, one limit and no
start offset.

**Federated writes.** Three calls by two clients: two that overlap and a third
that looks at what they left. `IdemMax` is 1 and there are two keys, so the cache
evicts; `MaxMint` is 5, three more than the notes of the start; one crash at any step. `const_Promotions` lists the promotions: across scopes
with and without overwriting and keeping the source, within a scope, and with
both keys. The clients are interchangeable.

**Remote cache.** A body cache of 2 bytes and notes of 1 and 2 bytes: an entry
grows when it is replaced, evicts the other, or fills the cache alone. The buffer
of a subscriber holds one event. Two versions of a path are one change of each path, by
whoever comes first: a tool, a promotion or an editor.

**Semantic pipeline.** Three events on one note, two goroutines at once: a body
that changes back, a delete between two changes, a purge under a timer. One slot
per semaphore makes a goroutine wait for the other. One sweep, which may fail. The
second body has one chunk more than the first, so that going back leaves a row behind.
Only one note, because notes share nothing but the semaphores, which one note's
goroutines contend for as well. A timer's function that waits until its sequence number
is used again (`reused`) needs more events than these: that cause is covered by the
proof only.

**Shared vault.** Two calls, or a call and a foreign write, and one rescan on three paths:
enough for a lost race in either direction, for a move whose new path has the key of
its old one, for a twin that loses its summary, and for a rescan that fails after
it has emptied the indexes. Two of the paths have one key and are interchangeable, as
the goroutines are. Overlapping rescans and a third call are left to the theorems.

### The properties of the vault, and their limits

* `NoSilentOverwrite`: an update, patch, move, conditional delete or write-back
  of an id replaces the content it has read and compared, or something an editor
  did since. It is stated for paths that no note is moved to (`Dests`), see the
  second finding. That an editor can be overwritten is not excluded: the vault
  has no lock that an editor would respect.
* `NoGhost`: a watched vault at rest lists no note that is gone. It excludes
  paths whose removal event was lost (`missed`): a rescan does not remove entries.
  It excludes paths where `RemoveFile` ran into a live note or a busy actor
  (`clobbered`), see the first finding.
* `NoPhantom`: the inverse index names a note only under targets it links to, in
  every state, with `RemoveFile` between any two steps of `upsertWithLinks`.
* `Converges`: in the end the cache, the graph and the full-text index agree with
  each file that parses and stay so. A file whose front matter does not parse is indexed
  by nobody and keeps the entries it had (`scan.go:62`). It excludes `clobbered` paths, and behaviours in which a
  tick consumed `dirty` while a rescan was active (`skipped`), which needs a
  rescan longer than the interval of 60 seconds.

### The properties of the other modules, and their limits

* `PagingExact` and `NoRepeat` speak of listings that nothing disturbed; the ghost
  `upset` names what did. `created`, `updated`, `removed`: a note, by others. `hidden`: a
  tombstone over a row that the vault still lists shifts the later offsets
  (`federation.go:207`), and a note created again stays hidden (`federation.go:591`).
  `stale`: a remote page of a time before a change (`remotevault/vault.go:117`); cached
  pages that show what the remote vault still holds are no disturbance. `failed`,
  `revoked`: a scope. `negative`: a listing that starts before the first note, which the
  vault answers from the first on. `zero`: a limit of zero. `NoRepeat` needs the absence
  of `created`, `updated`, `hidden`, `stale` and `negative` only: after a removal, a
  failure or a revocation rows may be skipped but none is repeated. `PagingExact` needs
  the absence of all but `zero`.
* `PagingEnds` lets a client go on for ever that asks for pages of zero rows: each such
  page returns a cursor to where it was.
* `SearchBest` says that the merge keeps the best of what the scopes' indexes offered. It
  says nothing of a note that its index did not offer, because of the cut at three times
  the limit before the filter, because its scope is remote and cannot answer a text
  search, or because its vectors are missing.

* `ReplayKnown` promises a known result to a call whose key was answered, not one
  effect: two overlapping calls with a key both run, and a call that fails after
  its `Create` leaves the copy.
* `ArchivedWasCopied` is about contents: an archived note's is in another scope, or was.
  It does not keep an older archived note from being overwritten by the move.
* `UniqueIDs` leaves out the ids in `aliased`: overlapping promotions of one cached remote
  note share the front matter map that `SetNoteID` writes to.
* `NoGhostRow` is about deletes that were answered before the query began;
  `AckedDeletesKept` excludes behaviours where the disk refused a write of the
  tombstone file, because its errors are ignored (`file_store.go:50`).
* `StaleExplained`: a stale entry in a cache has one of the causes `dropped` (full
  buffer), `unsubscribed` (no stream at the time), `misspelt` (the event carries
  another spelling), `unpublished` (no event at all: a batch, the `archives` path of a
  promotion, the `.trash` path of a soft delete, a change made behind the server's tools
  by an editor or found by its watcher), `race` (an answer from before the change was
  cached after it). The TTL ends all of them.

* `LastBodyIndexed` and `DeletedNotSearchable`: what a search may return of a note is
  exactly the chunks of its last body, or nothing for a deleted one. The causes of
  anything else are `overlap` (two goroutines on different bodies), `failed`, `revived`
  (a timer that was running when the note was deleted), `reused` (a goroutine that waited
  since an older entry took a later one with the same sequence number), `skipped` (the
  hash in the metadata says the work is done while the vectors are of another body),
  `swept`, and `longer` (the rows past the last chunk of a shorter body,
  `pipeline.go:202`). Each is set by the step that meets it and cleared by the next
  complete run alone on the note; `longer` stays until the note is deleted or has a body
  as long again. For a `SqliteVecStore` "the vectors" is the one vector it keeps, of the
  last chunk (`sqlitevec.go:30`).

* `IndexExplained`: `race` (two changes of a path, or one and a rescan, reach the
  index in another order than the store), `kept` (S3 could not delete the old
  object of a move), `unread` (a rescan emptied the index and then failed, or skipped the
  object), `foreign` (another process changed the path; nothing tells this one until
  the next rescan) and, for the summary cache alone, `case` (a path that differs in case
  only took or removed the entry). For S3 it does not say that a conditional write is
  checked at the moment of the change: `StaleWriteRejected` and `NoNoteLost` are claims of
  the Postgres transactions only, and of this process's.

Further observations made while modelling, which the models show as they are:
a rescan of an S3 vault lists the copies under `.trash/` (`shown`); an S3 delete
removes the object unconditionally after the comparison
(`s3vault/mutations.go:245`, `:299`); a listing over a remote scope cannot go past
offset 500 (`mcp/handlers.go:281`); a negative limit panics (`application/federation.go:220`); a
remote scope never answers a text search (`remotevault/vault.go:137`); cursors do not survive a restart, because
their key is random per process (`README.md:278` of the repository).

### Findings

1. `README.md:255` of the repository says that the actor pool "prevents races
   between the filesystem watcher (which maintains the search index) and
   concurrent mutations". `RemoveFile` does not go through the pool. In
   `vault_late_removal` a note is deleted and created again; the removal that the
   first event's timer starts takes the new note out of all indexes, and nothing
   is left that would index it again.
2. `README.md:257` says that with `if_match` "the server rejects stale writes with
   a `conflict` error instead of silently overwriting". `Move` renames over its
   destination inside the actor of the source. In `vault_move_race` an update of
   the destination compares the ETag, the move replaces the file, and the update
   overwrites the moved note.
3. The `notes_list` tool offers "Max results (1-100, default 20)"
   (`mcp/tools.go:115`). `Query` asks each vault for one row more than the limit to
   learn whether there is a next page (`application/federation.go:180`), but the
   vaults cut every request at 100 rows (`localvault/queries.go:32`,
   `postgresv/queries.go:46`, `s3vault/queries.go:29`). With the limit at 100 a
   single scope never answers the extra row, there is no cursor, and the notes
   after the hundredth are never listed. `federation_limit` has 1 in place of 100.

### Fairness

`ActorPool`: weak fairness of every call's own steps, of every actor and of every
closer: the Go scheduler runs what can run, `sync.RWMutex` lets waiters in, and
every function given to the pool returns. No context has to end, nobody has to
call or close. `VaultWatcher`: weak fairness of each thread (`Begin` together with
its steps, which is what `AcceptedRuns` gives), of the loop's events and ticks
(Go's `select` is fair between ready cases), of each timer, and of the rescan. No
client or editor has to come, an editor that has truncated a file need not save
it, and no event has to be lost. `FederatedQuery`: weak fairness of `Serve`,
that is of the goroutines that serve a request and of the client that asks for
the next page; nobody has to start a listing, and no change, failure, expiry or
restart has to happen. `SemanticPipeline`: weak fairness of each goroutine and of
the timers; a call to the embedder or the summariser returns, with a result or an
error, as their HTTP clients have timeouts. No event, sweep or `Close` has to
come. The other modules state safety only and need no fairness.

## Proofs

`ActorPoolProofs` proves for any number of callers, closers and keys and any
buffer size:

* `TypeCorrect`: `Spec => []TypeOK`.
* `SendSafe`: `Spec => []NoSendOnClosed`.
* `CloseOnce`: `Spec => []NoDoubleClose`.
* `PoolImplementsSerializer`: `Spec => ImplementsSerializer`.

The assumptions are the ones `ActorPool` names: callers and closers are different
goroutines, `None` is neither, a call's key is a key, the buffer size is a natural
number.

Neither `NoSendOnClosed` nor `NoDoubleClose` is inductive. `IInv` adds what the
lock does (`LockInv`: the readers are the calls in the select, and a goroutine in
its lock step is the announced writer) and what the flag does (`GateInv`: before
`closed` is set no channel is closed or collected, after it is set no call is in
the select, and no channel is collected by two closers or collected when it is
closed already). The refinement needs `RInv`, which adds: an operation is known to
a channel or an actor only when its call is past the send (`AcceptInv`), an actor
that has left its loop or was never started has nothing queued or running
(`ActorInv`), and at most one closer waits for the actors (`CloserInv`).
`StepRefines` then maps each action to a step of `Serializer` or to stuttering.

The last theorem is `OrderKept`: `Spec => []RealTimeOrder`. The property
compares what was executed; the invariant follows an operation from the call to its
execution. `KeyInv`: a channel and an actor hold operations of their own key only.
`PrecInv`: what preceded a call had returned when the call was made.
`OrderInv`: of two operations of a key the one that precedes is not behind the other,
in the channel, at the actor or among those executed.

`VaultProofs` proves, for any notes, bodies, links, callers
and bounds on the inputs:

* `VaultTypeCorrect`: `Spec => []TypeOK`, which contains that the actor of a path
  executes one operation of that path at a time.
* `NoPhantomBacklinks`: `Spec => []NoPhantom`.
* `ReadCheckWrite`: `Spec => NoSilentOverwrite`.
* `NoGhostNotes`: `Spec => []NoGhost`.

The assumptions are the ones `LocalVault` names: the trash path of a path is one
that notes are moved to, an empty file has no links, the bounds are natural
numbers, and `None` is not a thread.

`TypeOK` needs `JobShape`: which places in the code an operation can be at, and so
which steps are taken inside the actor. `NoPhantom` needs `DiffInv`: between
`graph.Links` and `UpsertDiff` the links of a note are still the ones that were
read, or are empty, because everyone who writes them holds the actor, except
`RemoveFile`, which takes them all away, and `Move`, which writes those of its
destination; this is why `NoPhantom` leaves `Dests` out. `NoSilentOverwrite` needs
`HoldInv`: a thread between its read and its write finds what it has read, or
something the editor did. That in turn needs versions to be fresh (`VerInv`,
`SeenInv`), and `Changed`, which says who can change a file at all: the actor of
its path, the editor, or a rename onto it. `NoGhost` speaks of a vault at rest;
`GhostInv` follows a note that is gone there: its removal is among the events, or
waits for a timer (`TimerInv`), or a `RemoveFile` begins, or has swept (`Swept`). A
sweep is not undone because no operation that indexes the note is at work when it
begins (else the path is among the `clobbered`) and none begins while the file is
missing.

`SharedVaultProofs` proves, for any numbers of goroutines, rescanners, paths and keys,
calls, rescans and foreign writes and both backends, from `SharedAssumption` (the bounds
are naturals, a path has a key, and `Nil` is none of the values it stands next to):

* `SharedTypeCorrect`: `Spec => []TypeOK`, which contains that a locked row is
  locked by a transaction that read it and has not ended.
* `ConditionalWrites`: `Spec => StaleWriteRejected`.
* `NoLostNotes`: `Spec => NoNoteLost`.
* `IndexFollowsStore`: `Spec => []IndexExplained`.

Both action properties compare the row at the commit with the row of the read,
and so need `HoldInv`: a transaction that will write over the row it read holds
the lock of its path and the row is unchanged, and one that named an ETag finds
that ETag there. It is inductive because a commit needs the lock of its path to be
free or its own, and because a row is only changed at its own path or, by a move,
at a path that has none.

`IndexExplained` speaks of states at rest only. `XInv` says what holds on the way, by
`PathInv` for each path and `CallInv` for each call. Of a path with nothing on record but
`case`, at most one call owes the index a change (`Owes`), none does while a rescan is
under way, and the change it owes is what the store has (`Due`); when nobody owes
anything the index shows the store (`Shows`), or a rescan that has emptied it has the
path still to load and will load what the store has (`Mends`). With several rescans at
once one of them that mends the path is enough. A commit keeps this because it either
makes its own call the only one that owes the path something or puts the path on record.
`TwinSafe` is about keys: a live note whose entry a change of a twin path is about to
take or remove has `case` on record, so the cache of every other path is its own. A
foreign write, a rescan that fails and one that skips an object put the paths they leave
behind on record.

`FederatedWritesProofs` proves, for any clients, scopes, paths, keys, promotions
and bounds, from `WritesAssumption` (a promotion's scopes and key are of their
types, `NoKey` and `Nil` are no keys, the notes of the start have different
numbers within `MaxMint`):

* `WritesTypeCorrect`: `Spec => []TypeOK`.
* `AnsweredDeletesSurvive`: `Spec => []AckedDeletesKept`.
* `ArchiveOnlyCopied`: `Spec => []ArchivedWasCopied`.

`AckedDeletesKept` is not inductive: what survives a crash is the file. `FlushInv`
says that a `Delete` that is rewriting the file has put its tombstone in memory,
`FileInv` that a file that parses has every answered delete unless a write failed,
and `DownInv` that a gateway that is down has no calls and no caches. For
`ArchivedWasCopied`, `CopyInv` says that a `Promote` past its `Create` or `Replace`
carries a content that is in `copied`.

From the same assumption `FederatedWritesProofs` also proves:

* `KnownKeysReplayed`: `Spec => []ReplayKnown`. `ReplayInv`: what the cache has for a
  key was answered for it, and a key whose answers a call may count on is cached.
* `DeletedNotesHidden`: `Spec => []NoGhostRow`. `GoneInv`: a note that is gone is in no
  vault. `RowsInv`: a row that a query holds or caches and that was deleted since has
  its tombstone in memory. No premise about the disk is needed: a crash that loses
  the tombstone of a failed write also loses the rows, and the vault has no such note.
* `NoteIDsUnique`: `Spec => []UniqueIDs`. `IdInv`: ids are given out in order
  (`MintedInv`), and the one that a `Promote` holds for a copy it has yet to write belongs
  to no note and to no other `Promote`, unless it is in `aliased` (`HeldInv`).

`FederatedQueryProofs` proves, for any finite set of scopes, any notes and ranks, limits
and start offsets (zero and negative ones too), defaults, budgets and numbers of changes
by others, from `QueryAssumption`, `InitialAssumption` and `NilAssumption` (which say
what the constants are, that a vault starts with one rank per note, and that "no cursor"
is no cursor and "idle" no request):

* `QueryTypeCorrect`: `Spec => []TypeOK`, which contains that no note has two ranks in a
  vault or in the contents a cached page may show.
* `SearchIsBest`: `Spec => []SearchBest`.
* `NoRowTwice`: `Spec => []NoRepeat`.
* `PagingIsExact`: `LimitsBelowMax` implies `Spec => []PagingExact`.
* `AnswersConfined`: `Spec => []OnlyAllowed`.

`LimitsBelowMax` says that every limit is less than `MaxPage`, the number of rows a
vault answers at most. It is a hypothesis and not an assumption of the module,
because the code lets a caller ask for a limit of 100, and then the theorem is false:
the third finding. The other four theorems do not need it.

A cursor has an offset per scope, and a vault counts its notes from an offset, so the
proofs speak of the rank of a note in a set. A vault's answer is a window, the
notes of rank `o` to `o + n - 1`; `RankCounts` and `WindowCounts` count the notes
before a rank and in a window (by induction on the rank), `WindowRank` relates
the rank of a note in a window to its rank in the vault. What the invariants add:

* `CursorInv` and `ReqShape` for the types: a handle in the store gives the payload of
  its page; the rows of a request belong to scopes it asked.
* `SearchInv`: of each scope the request has the best of the hits it was offered, as many
  as the page takes. A hit that was left out therefore comes after a full page of rows of
  its own scope (`LeftOut`), and the cut at the merge leaves it out as well.
* `RepeatInv`: unless a note was created or updated, a tombstone hides a row, a remote
  page was of an earlier time or the listing began before the first note, every row
  received has in its vault a rank below the offset of its scope (`Passed`), no page
  shares a row with another (`Apart`), the rows of the request are on none of them
  (`Fresh`), and the rows of the pages, the vaults and the request together have one rank
  per note (`OneRank`). Removals only lower ranks; a failed or revoked scope keeps its offset.
* `PagingInv`: if nothing disturbed the listing, what was received is *exactly* what is
  between the start offset and the offset of each scope, and comes before the rest
  (`Exactly`), and each answer is the whole window (`Windows`). An exhausted scope makes a
  window shorter than was asked, and no scope has a row more exactly when everything was
  received (`Complete`). A page of zero rows leaves the offsets, and so all of this, as
  it was.
* `Confined`: a request asks scopes its caller could read when it was made. Nothing
  is assumed about the cursor, whose scopes are intersected again.

`SemanticPipelineProofs` proves, for any notes, goroutines, bodies, chunks, slots,
attempts, events and sweeps, from `PipelineAssumption` (slots, attempts and chunks
are positive) and `NilAssumption` (`Nil` is no record):

* `PipelineTypeCorrect`: `Spec => []TypeOK`, which contains that the free slots of
  each semaphore and the goroutines that embed or summarise add up to its size.
* `DeletedGone`: `Spec => []DeletedNotSearchable`.
* `IndexOfLastBody`: `Spec => []LastBodyIndexed`.

For the slots, `SlotStep` says that each step takes one and enters the stage, or
leaves the stage and gives one back, or does neither. The two properties of the
index speak of notes at rest; `IndexInv` says what holds on the way. `Company`:
goroutines that get in each other's way know that they are not alone. `TimerCurrent`: the
entry of a note in `debounce` has the body the note has, unless the note was deleted.
`RowsDone`: what a goroutine that is alone has written to the vectors is still there,
chunk by chunk, and with `SqliteVecStore` the vector is of its body. `BodyInv` and
`GoneInv`: a note with nothing on record against it has the index of its body, with no row
beside it, or work on that body is still to come; a deleted one has no searchable row and
nobody at work, or a deletion is at work. The last two are not inductive without the
others: a timer's function that finds a newer entry returns without doing anything, which
is right only because that entry is of the current body; one that takes a newer entry for
its own is on record (`reused`).

`RemoteCacheProofs` proves, for any clients, paths, versions, sizes of notes, buffer
and budget, from `CacheAssumption` (the goroutines of the gateway are not among the
other clients, a misspelt path is no path, the bounds and sizes are naturals) and
`NilAssumption`:

* `CacheTypeCorrect`: `Spec => []TypeOK`.
* `CacheBounded`: `Spec => []BodyBudget`.
* `GatewayReadsItsWrites`: `Spec => []ReadYourWrite`.
* `StaleHasAReason`: `Spec => []StaleExplained`.

`CacheInv` is one invariant for all four. `Distinct` and `Budget` are the two halves
of `BodyBudget`. `GetCurrent`: a version that a read brings back is no newer than the
server's, and if it is the server's the note is there. `WriteDone`: the server has at
least the versions that a write made. `WroteKept`: the versions the gateway wrote are the
least the cache has of their paths. `BodyExcused` and `ListingExcused`: an entry that
differs from the server's note has a reason on record, or the stream is broken, or an event that
drops the entry is in the buffer or still to be published; at rest only the reasons are left.
The cache is a queue, and `Bytes` and `Without` are recursive functions on its prefixes:
that they add up, keep the order and drop what they should (`SumsExist`, and the
lemmas after it) is proved by induction on the length.

`InductionFacts` has that induction. The library's induction theorems take the
predicate as a parameter, which the provers cannot instantiate; here the predicate is
a set of numbers. `Least` takes the least member of a set of naturals from the
well-foundedness of strict inclusion on finite sets, `Induct` is the principle.

The proofs corrected two definitions of `RemoteCache`. The reasons why an event is lost
were a `CASE` with overlapping guards, which is any one of the guards that hold,
while `Send` drops an event of any spelling when the buffer is full. And `GetSet`
excused a straddling read also when the note is too large to be cached, so that the
path was excused although no old body was in the cache.

Every invariant and action property that a passing run checks, and the refinement of
`Serializer`, is stated by a theorem. Only model-checked: the liveness properties
(`Responsive`, `AcceptedRuns`, `Converges`, `PagingEnds`, `WorkEnds`), which are out of
the prover's reach.

## Not modelled

* Of the local vault: `New` (the first scan and the gap before the directory is
  watched), `Close`, directories, path normalisation and symlink checks,
  sync-conflict files, queries (they read what is modelled), crashes (nothing but
  the files survives one, and `New` scans them again).
* Of the federation: `Get` as an operation of its own and the operations that only
  delegate to one vault (`Related`, `Stale`, `Stats`, `Rescan`, batches); which notes a
  filter rejects (any set), scores and their fusion. Of the cursor store: eviction at
  its limit and the variants in Postgres and Redis.
* Of the remote vault: `Backlinks` and `Stats`, which are not cached, and the conversion
  of errors. Its `Search` is in `FederatedQuery` as the call that cannot be decoded.
* Of the purger: the queue of `NotePurgeExternal` and the alarm after failed sweeps. Of
  the shared vaults: migrations, the probe at start-up, failing requests where the call
  just returns the error.
* Full-text index: its queue and writer goroutine; only what it holds after the
  queued operations is part of `LocalVault` and `SharedVault`.
* Audit log and budget: one mutex or one channel each, which no modelled component
  waits for. Wait for index: a poll without state.
* Authentication and RBAC: checks of one request.
* Out of reach: ranking and embeddings (floating point), SQL and object stores
  (external, modelled by what the code uses), formatting and parsing of front
  matter (abstracted to versions), the command line and the evaluation tools.

## Plan

Modelled so far, in the order of what can go wrong without a test noticing: the
pool, the local vault with its watcher, the federation, the remote vault with the
event bus, the semantic pipeline with its purger, the shared vaults. What is left:

1. `FullTextIndex` with the shutdown of a vault: the queue of 512 operations, its
   writer, `Close` against a rescan or a timer that is still at work.
2. `AuditLog` and `Budget`: the bounded queue and the breaker.
3. A store in which every mutation is one step, as the abstract specification of
   the Postgres transactions of `SharedVault`, with the refinement proved.
