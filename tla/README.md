# ChromVoid: a TLA+ verification project

ChromVoid keeps encrypted vaults in a flat directory of opaque chunks, and lets a
device use the vaults of another one over a link. Two things are hard in it.
Persistence: a vault is changed by sequences of writes, renames and deletes of chunks,
any of which can be the last one before the process dies or can report an error after it
has acted, and what is left afterwards has to be sorted out by the next unlock, the next
save or the next restore. And authority: calls, cancellations, locks, timers, streams
and peers come from several threads and two machines, and none may act, or be answered,
after the session it belongs to has ended. This project models the durable transactions
of the core crate, each storage call a step, the session authority of the client
runtime, and the link between a client and its host.

## Inventory

Paths are relative to `src/crates/core/src` unless they start with `src/`.

| Component | State | Operations | What makes it correct |
|---|---|---|---|
| Flat storage `storage/` | chunks and artifacts by name | atomic write (temp file, fsync, rename, fsync of the directory), delete, batch, list, sync | a name has its old or its new content; a reported error may come after the rename |
| Durable transactions `durable_tx/` | one marker per kind and vault: Staging or Committing with a payload | write_staging, write_committing, delete, recover | Staging is undone, Committing is finished, and both can be repeated |
| Catalog commit `vault/catalog_persistence/transaction.rs` | root index, commit record | commit_root_index_update, recover_incomplete_commit | atomic: the old catalog or the new one; never an index with missing chunks |
| Sharded catalog `vault/catalog_persistence/{save,load,compaction,chunks}.rs`, `catalog/` | a snapshot and a delta log per shard (top-level directory), the root index with their sequence numbers | save, load, compact | what was saved is what is loaded; logs replay and stay below their limit |
| Vault session, router `vault/session.rs`, `rpc/router/{state,recovery}.rs` | catalog in memory, pending deltas, key | unlock, lock, commit_catalog_mutation | "command success means durable catalog persistence" |
| Domain unit of work `rpc/router/domain_uow/` | backups, marker | begin, stage, commit, recover | files and catalog change together |
| Vault rekey `vault/rekey/` | marker readable by two keys, two generations of chunks | rekey_password, cancel, recover | exactly one password reads the vault, and reads all of it |
| File replace, patch, secret erase `rpc/router/catalog_streams`, `blob_io` | a marker of each kind, backups | replace, patch, erase, recover | a file is old or new, never a mixture |
| Storage garbage collection `rpc/router/storage_gc/` | scan, manifest | scan, confirm, delete, recover | nothing that is needed is deleted, whatever happened since the scan |
| Upload sessions, range readers, decrypted chunk cache | marker, temporary chunks; cursor of a reader; LRU of chunks | begin, continue, abort, commit; open, read; get, insert, invalidate | an upload is invisible until it is committed; a cached chunk is the current one |
| Master password, restore, erase `rpc/router/{master_material,master_rekey,restore,vault_ops}` | salt, master.salt, master.verify, pepper, two markers, a restore session | setup, rekey, start, upload, commit, cancel, admin:restore, erase | one master password; a restore is all or nothing and touches no existing vault |
| Session authority `src/crates/client-runtime/src/{session,auto_lock}.rs`, `dispatch/` | phase, generation, pending requests, idle clock, priority queues, one worker | admit, execute, cancel, lock, deactivate, activate, close, monitor | nothing acts or is answered after its session was revoked; every revocation reaches the core |
| Peer link `src/apps/chromvoid/src-tauri/src/remote_data_plane`, `src/crates/client-runtime/src/peer_host.rs`, `src/crates/network-runtime/src/host_streams.rs`, `src/crates/protocol/src/anti_replay.rs` | tables of calls and streams at both ends, replay window | request, stream, upload, cancel, time out, drop a reader | a stream that ends is complete; a settled call stays settled; the connection ends over a call only in the named crossings |
| Repair, derivatives, OTP sidecars | index, sidecar chunks | repair, commit, read | not modelled |

Interaction: the router runs one command at a time (`&mut self`), so commands do not
interleave with each other; what interleaves is a command and the crash, the error or
the lock that cuts it short, then the recovery of the next unlock or save (which can be
cut short too), then garbage collection and further commands that find what was left.
An unlock recovers in a fixed order: the rekey marker, the catalog commit, then the
router's own transactions: unit of work, file replace, erase, upload, and last the
manifest of a garbage collection. A restore marker is recovered only when a restore
begins, a master rekey marker when the master material is used. Garbage collection
decides by the root index and the catalog in memory what is live, and knows some markers
by name but not the chunks they refer to. Range readers hold the storage and the cache,
not the router. The client runtime puts one worker thread in front of the router, with a
queue per priority; everything else in it is callers, callbacks and the idle monitor,
which meet under the authority lock. The host end of a link is one loop that hands
requests to that runtime; the client end is one loop in the application.

The hard behaviours are therefore: a crash between any two storage calls, also inside
recovery; a call that fails after it has acted; chunks left behind under names that
will be used again; state read before a recovery, an await or an unlock and used after
it; a second transaction that meets the marker of a first one; results that arrive after
their request or their session is over; frames that cross on the link; limits of the
delta log, the cache, the channels. `PROJECT.json` lists them under "hazards", each at
its line.

## Modules

`AtomicCatalog` is the abstract specification of catalog persistence: one durable
value, at most one undecided save, and a save that takes effect as a whole or not at
all.

`CatalogCommit` is the commit protocol. `disk` is the directory of snapshot and delta
chunks, `root` the root index chunk, `rec` the commit record; `plan`, `todo`, `back` and
`pc` are the local variables of the running operation. Actions are the storage calls of
`commit_root_index_update` (`WriteChunk`, `WriteStaging`, `WriteCommitting`, `WriteRoot`,
`DeleteRecord`, `DeleteOld`, `Finish`) and of the recovery (`ReadRecord`, `Undo`, `Redo`,
`RedoOld`, `Forget`). Each takes `ok`: with `ok = FALSE` the call acted and reported an
error, and the operation returns as `?` makes it do; `Fail` is an error without effect.
`Crash` is the end of the process or a lock; `GcDelete` is garbage collection in an open
session. What a save writes is a parameter, limited by `PlanOK`.

`CatalogSave` supplies those parameters for the sharded catalog, and uses the actions of
`CatalogCommit` through an `INSTANCE`: what each command changes in memory and which
deltas it records (`Create`, `Update`, `Delete`, `Rename`, and `CreateTop`, `DeleteTop`,
`RenameTop`, which record none), what `save` decides per shard (`Decision`: keep, append
deltas, fall back to a snapshot, rewrite, refuse), the metas with their sequence
numbers, `Compact`, and what an unlock replays (`apply_delta`,
`load_full_shard_from_meta`). A shard is a root node and the nodes below it by name;
deeper directories are left out, since a delta is applied below one parent whatever its
depth. A node is its id and a tag for its other fields. `renamed` is a ghost: the names
top-level directories were renamed to, for which durability is not claimed.

`DomainUow` is the unit of work on the catalog that `AtomicCatalog` describes: `cat` is
the durable catalog, `pend` an undecided save, `mem` the session's; `blob` and `backup`
are chunks, known by the revision of the file they hold. A unit writes files; units that only delete, rename or move nodes change
the catalog alone and are left out. A recovery that fails at an I/O
error leaves what a crash at the same place leaves, and is not a separate action. The
error of the very last sync is left out: it can change nothing any more.

`VaultRekey` has any number of keys in one storage. A chunk is known by the vault and
the revision its plaintext belongs to; `acked` is the ghost of what commands have
reported as written. `Recover` reads the marker with the session's key, `Undo`,
`FinishOld` and `Forget` act on it, and the rekey itself copies the catalog and then the
blobs, validates, writes the Committing marker, and cleans up. Derivatives, which can be
computed again, are left out, and so is the legacy marker format. The call of `save` in
front of the manifest finds nothing to do, since every command has saved already. The
guard of `recover_committing` against missing new chunks is in the model, and no state
within the bounds makes it refuse.

`FileTx` has one directory of chunk names (`Canon`, `Bak`), the markers `replaceTx` and
`eraseTx`, the catalog on disk (`cat`) and in memory (`mem`), and `op`, the running
command with its place in the code. A write is `BeginWrite` (old chunks copied to
backups), `MarkWrite`, `CopyChunk`, `SaveWrite`, `CleanWrite`, `DropWrite`; an erase
likewise. When a write fails, a replace puts the old chunks back and removes its marker
(`WriteFails`), while a patch that fails before or at its marker only removes the backups
(`StagingFails`, `GiveUpWrite`). The recovery of an unlock decides from the catalog
(`DecideWrite`, `DecideErase`). `GcScan`, `GcDelete`, `GcDeleteOne` and `GcDone` are the two-phase
collection: a candidate is a name and what was under it, compared again when it is
deleted. The ghost `overlapped` says that a command began while an earlier failed save
was undecided, `stranded` that a marker was left without its backups: by a crash in the
last step of a rollback, or by a patch whose marker was published although its write
reported an error.

`ChunkCache` is the cache: a set of entries, each with its key, its data and the value of
`access_counter` when it was last used, and a generation that an insert must have seen;
the entry used least recently makes room. `UploadSession` uses it, with uploads in parts
into temporary chunks, the commit that moves them over the file's chunks, a `replace` of
the same file as a competing command, and readers whose steps (`ReaderGet`, `ReaderRead`,
`ReaderInsert`) interleave with everything. `faults` names the known defects a behaviour
has met. The roll-back of a failed commit is taken to succeed: the code ignores its errors
(`upload/mod.rs:270`, `278`), which would take a second failing call.

`MasterMaterial` and `Restore` describe a command as a sequence of durable steps, fixed
when it begins (the router runs one at a time) and executed one by one, so that a crash
or an error can come at each; every step says what its failure leads to. `disk` holds
chunks, artifacts and the pepper; a chunk is the salt and pepper it was encrypted under,
a verify value the salt and password it was derived from. `session` is the restore
session, `mine` the chunks the user was told are stored, `lost` those that became
unreadable, `known` the master passwords one of which the user was last told is set,
`harm` the known defects a behaviour has met.

`LocalSession` is the session authority: the snapshot fields, `req` with the state of
every caller's future, job and reply, the three queues, `worker` with its place in the
job, `idle` and `monitor`. The core behind it is two Booleans, unlocked and configured.

`PeerLink` is both loops: `call` and `reader` at the client, `host` with its contexts,
streams and order of turns, `toHost` and `toClient` the frames under way. Jobs at the
host end at any time or never.

`MC*` modules instantiate these for TLC. `*Proofs` modules hold the theorems about the
module they are named after. An operator marked "Mutant" is a version of the next
definition with a plausible mistake; it is used only to see that a property notices the
mistake.

## Runs

| Run | What it shows | Bounds |
|---|---|---|
| `commit` | `Loadable`, `SavedInPlace`, refinement of `AtomicCatalog`, and `OperationEnds` | two chunks, two contents, three faults: a save, its interruption, and two interruptions of its recovery. The safety part is also proved without bounds. |
| `save_deltas` | one shard, all node commands, errors, garbage collection: the log replays (`CatalogLoads`), success is durable, the limit is kept, and every plan is one the protocol is safe for (`PlanSafe`) | limit 3 instead of 100, sequence numbers to 4: the log fills up, falls back to a snapshot and grows again; two names and two tags so that renames and updates collide |
| `save_shards` | shards created, renamed, deleted and compacted next to two system shards that are persisted even if empty, with ids handed out in passing | an empty vault, four shard names, two of them system shards, three ids, limit 2, sequence numbers to 2, crashes only; a name is used again with another id after a crash in its creation |
| `uow` | over any crashes files and catalog agree; with errors a unit that reports success is complete | two domains, two files, four units; enough for a failed unit, a second one over its leftovers, and one in the other domain |
| `rekey` | over any crashes and cancels exactly one password reads everything acknowledged; with errors the session never moves to an incomplete copy | three keys, two blobs, two writes; a rekey back and forth and over a leftover copy |
| `file_tx` | a file is what the catalog says it is (`ContentMatchesCatalog`); at every instant marker and backups suffice to get there (`AlwaysRecoverable`); unlocks are refused only over a marker that lost its backups to a cut rollback or to a patch that gave up | one file of up to two chunks, so that it grows and shrinks; three commands, two crashes (one in a recovery), failing writes and saves |
| `upload` | `FilesIntact`, `UploadRecoverable`, and a cache that is never stale (`CacheIsTrue`) | two files (one being uploaded, one there), two chunks, three operations, two crashes, two readers, two cache entries |
| `restore` | a restore is all or nothing, the master password that verifies is the one last acknowledged, and data becomes unreadable only in the known ways | a backup of two chunks, one chunk of the user, two passwords, six commands, one crash and one error; five commands with two of each pass as well (3.2 million states) |
| `session` | the published snapshot is true, every change has its event, a locked session is a locked vault, a cancelled unlock is over | two requests of every kind, two revocations, failing lock and failing read of the master state |
| `session_idle` | an idle session is revoked, every revocation reaches the core, every call returns, and the monitor's thread ends with its session (`MonitorIsReleased`) | two unlocks, one revocation, a failing cleanup, a timeout that elapses |
| `peer` | a clean end of a stream is a complete one, a settled call is never heard of again, the connection breaks only in known crossings, and the link settles | two calls of every kind, two chunks, one range request in flight, a channel of one frame: the second call is put off and the channel overflows |
| `restore_overwrites` | the finding below | no crash, no error |

`ioErrors` in `DomainUow` and `VaultRekey` is chosen once per behaviour: one run covers the
storage that only crashes, for which the stronger property holds, and the one whose
calls fail as well. Symmetry is used for the interchangeable sets of safety runs; runs
with a liveness property use none.

Exceptions are named, not bounded away: where the code has a defect, a ghost records that
a behaviour has met it (`overlapped`, `stranded`, `faults`, `harm`, `refused`,
`renamed`, `replaced`, `forgotten`), and the property is claimed for all others. The
configurations under "Known defects" show each defect.

The type invariants, `ClockOnlyWhileUnlocked` of `LocalSession`,
`StaleInspectionsEnd` of `PeerLink` and `UnlockSucceeds` of `UploadSession` hold on the
same instances; where a run does not list them they are kept as documentation of the state
and can be added to its configuration.

`CHECK_DEADLOCK FALSE` is in the two session configurations only: a session that is
closed and has answered every call has nothing left to do.

Fairness. `commit`: the steps of an operation under way are weakly fair, because the
router executes it without waiting for anything; unlocks and commands, which a user
starts, are not; crashes and failing calls draw on a budget (`MaxFaults`), and
`OperationEnds` says what happens once it is spent. `session_idle`: the worker thread,
the monitor thread and the tasks of callers that are waiting are weakly fair, since each
is a thread or task the scheduler runs; lock, close, new calls and the passing of time
are not. `peer`: the steps of the two loops, the scan for timeouts and readers that read
or are dropped are weakly fair; the jobs at the host, new calls and the loss of the link
are not. That the scan gets its turn is an assumption the code weakens: its `sleep` is
created anew in every iteration, so steady traffic puts it off.

Bounds: `MaxSeq`, `MaxId`, `MaxRevision`, `MaxGeneration`, `MaxEpoch`, `MaxFresh` cap
counters and random values that the code keeps as 64-bit integers or longer; a command
that would pass them is not issued, or is left unfinished. `RECENT_DERIVATIVES` is 64 in
the code and one in the run, so that an ended derivative is pushed out by the next; the
ghost `forgotten` keeps those that were.

## Proofs

Each theorem holds for every value of the constants that the named assumptions of its
module allow. These say that the bounds are natural numbers, that sets of commands,
kinds and errors are subsets of what the code knows, and that special values (`None`,
the empty root index) are not proper ones; TLC evaluates them in the runs. Every proof
has the same shape: an inductive invariant (`Inv`, or several where some of it holds only
without failing calls) that implies the property, a lemma that `Init`
satisfies it, one lemma per action that the action preserves it, and the temporal step.
Each of them was also checked by TLC on the instance of the run, which is how most of its
conjuncts were found.

`CatalogCommitProofs`, for every set of chunks, contents and root indexes:

* `TypeCorrect`: `Spec => []TypeOK`;
* `AlwaysLoadable`: `Spec => []Loadable`;
* `SuccessIsDurable`: `Spec => []SavedInPlace`;
* `Refinement`: `Spec => AtomicCommit`, the protocol implements `AtomicCatalog`.

They rest on `PlanOK`, which is a guard of `Begin`. That the saves of `CatalogSave`
respect it, for a fixed set of shards, is what the run `save_deltas` checks as `PlanSafe`
and what `SavePlanSafe` and `SaveFollowsProtocol` below prove. A top-level rename can
break it (see `CatalogSaveRename.cfg`), so where shards come and go the theorems about
`CatalogSave` do not go through the protocol but prove the same things directly.
`Loadable` is not inductive: a redo writes the root index of a record, so one has to know
that the chunks of a record are either there or that recovery will not redo it, and that
an undo deletes nothing in use. `Inv` adds `RecordOK` (the root index of the record is
already the one on disk, or none of its new chunks is in use yet), `PlanSound` (what has
been written so far, and that the record says what the plan says) and `RecoverySound`
(why the recovery is undoing or redoing). In the refinement the step of the atomic
catalog is `WriteRoot` or `Redo`; every other step stutters, starts a save or abandons
one. A garbage collection after an interrupted commit is the interesting one: it can
delete a chunk of a Committing record, and the save is then abandoned.

`DomainUowProofs`, for any domains, files and number of units:

* `UowTypeCorrect`: `Spec => []TypeOK`;
* `UnitIsComplete`: `Spec => []SuccessIsComplete`, with failing calls too;
* `FilesAndCatalogChangeTogether`: `Spec => []FilesMatchCatalog`.

`SafeInv` holds whatever fails: a running unit has written every file it no longer has to
do (`UnitSound`), and from the save on its root is the one in memory, then the one on
disk. `OverCrashes` holds without failing calls: `DurableOK` says for each phase of the
marker what the disk is. With no marker, or a Staging one, the files are those of the
catalog; with a Committing one that is so for all files but those of the unit, the
catalog has the unit's old or its new root, and a backup that exists is the file of the
old one. `SessionOK` relates the same to the place of the running unit or
recovery, which is what makes a crash in the middle of a recovery harmless.

`VaultRekeyProofs`, for any keys, blobs and number of writes:

* `RekeyTypeCorrect`: `Spec => []TypeOK`;
* `OnePasswordOverCrashes`: `Spec => []CrashKeepsOnePassword`;
* `SwitchIsComplete`: `Spec => SwitchKeepsContent`, with failing calls too.

`SwitchInv` follows the copy: what has left the to-do list is under the new key as it is
under the old one, from validation to the switch. `OverCrashes` says who owns a vault.
`KeysOK`: under every key but the one the marker gives up (the new one while Staging, the
old one while Committing) there is nothing, a vault without files, or exactly what was
acknowledged of one vault, and each vault is under one such key. `MarkerOK`: what is under
the key to be given up is listed in the marker, so that a recovery deletes all of it.
`OwnOK`: no marker concerns the key of an open session unless its own rekey is under way,
and a rekey or recovery has dealt with all that is no longer on its list. `AckedOK`: the
acknowledged parts of a vault belong together. It was this proof that showed the property to
be false with four keys, where the run has three: a second vault's rekey replaces the
marker of an interrupted one. The known defect is now recorded by the ghost `replaced`
and excepted by name, where the bound of the run used to hide it.

`LocalSessionProofs`, for any number of requests and generations and any set of commands:

* `SessionTypeCorrect`: `Spec => []TypeOK`;
* `LockedIsLocked`, `ReportedStateIsTrue`, `NoChangeWithoutEvent`,
  `CancelEndsGeneration`, `ClockNeedsUnlocked`: the invariants `LockedMeansLocked`,
  `SnapshotIsTrue`, `EventsAreComplete`, `CancelledUnlockIsOver` and
  `ClockOnlyWhileUnlocked`;
* `EndIsFinal`: `Spec => TerminalIsFinal`.

The properties need each other and five structural facts. `QueuesOK`: a request is
queued at most once, in the queue of its priority. `RequestsOK`: a request belongs to a
generation that has been open. `WorkerOK`: a job that runs belongs to the current
generation of an open session or to an earlier one of a revoked session; it never meets a
session that was revoked and opened again, because the cleanup of the revocation is
behind it in the queue of the same worker. `CleanupOK`: each revocation is completed by
exactly one job. `PhaseOK`: an open session is in the foreground, and a master password
it reports is lost only to an erase; an erase, in turn, starts only after it has ended the
generation, unless that is over or the clock has run out already. `SnapshotIsTrue` is
proved through `ReportsTruth`, which also covers the time between two steps of a job.

`FileTxProofs`, for any number of files, chunks, commands and crashes and any errors:

* `FileTxTypeCorrect`: `Spec => []TypeOK`;
* `FilesAreWhatTheCatalogSays`: `Spec => []ContentMatchesCatalog`;
* `RecoverableAtEveryInstant`: `Spec => []AlwaysRecoverable`;
* `UnlockIsRefusedOnlyWhenStranded`: `Spec => []UnlockSucceeds`.

The heart is `SoundNow`: for each file the chunks are those of its catalog entry, or one
marker names the file and its backups restore the difference. `MarkersOK` says that
a replace marker and a committing erase marker never exist together and belong to commands
that have begun, `ReadyOK` that between commands the catalog in memory is in place and
can become the durable one, and `Steps` has one conjunct per kind of command (`WriteOK`,
`EraseOK`, `RecoverWriteOK`, `RecoverEraseOK`, `CollectOK`) that says how far it has come.
The collection was the delicate one: a candidate was unreferenced when it was scanned, and
what makes its later deletion harmless is that a collection runs only when neither marker
needs its backups, and compares what it deletes with what was scanned. All but the types is
conditional on `~overlapped`: nothing is claimed once a command began over an undecided
save, which is a known defect below. A stranded marker needs care too: the chunks and the
catalog are still right, and only a recovery misses the backups. In an open session such a
marker is that of a patch that gave up, and a command that begins over it sets `overlapped`
(`SessionOK`).

`PeerLinkProofs`, for any number of calls, chunks and epochs and any limits:

* `PeerTypeCorrect`: `Spec => []TypeOK`, which includes that the queues of turns at both
  ends hold exactly the streams that are being sent;
* `StreamsAreComplete`: `Spec => []CleanEofIsComplete`;
* `LinkBreaksOnlyByCrossing`: `Spec => []BreaksOnlyByCrossing`;
* `SettledIsFinal`: `Spec => SettledStaysSettled`;
* `CancelledInspectionsEnd`: `Spec => []StaleInspectionsEnd`.

`Inv` describes the two ends and what may be under way between them. `ToHostOK` and
`ToClientOK` are about the frames: requests come with rising ids and none is missing
between the last one the host has seen and the next one the client will send; an answer,
the end of a stream and a cancellation are the last frame of their id; the frames of one
stream are its beginning, chunks with rising numbers and its end. `KnownOK`: the host
knows, remembers, has forgotten or has refused whatever a frame under way refers to.
`LiveOK` says whose answer is still to come: the frames of a request that has a job or is
the active upload have not begun, and a call that is over has nothing to come. `ChunksOK`
is the accounting behind a complete stream: while the client passes chunks on, every chunk
the host has sent is in the reader's buffer, was read, or is under way, so that a final
frame that arrives finds all of them before it; once a chunk is dropped for want of room
the call is given up and a final frame no longer reaches the reader. `ReadersOK` carries
this from the buffer to the reader. For the epochs (`EpochsOK`) the argument crosses both
ends: the epoch the host keeps is that of a cancellation with a smaller id than any request
still under way, and the client refuses an inspection of an epoch older than a cancellation
it has sent. It was this proof that showed the exception for `RECENT_DERIVATIVES` to be
needed: with the limit of the run at the number of calls nothing was ever pushed out, and
the property held for want of the case.

`UploadSessionProofs`, for any number of chunks, commands, crashes and readers, any size
of the cache and any set of failing calls:

* `UploadTypeCorrect`: `Spec => []TypeOK`;
* `UploadFilesIntact`: `Spec => []FilesIntact`;
* `UploadsRecover`: `Spec => []UploadRecoverable`;
* `UploadCacheTrue`: `Spec => []CacheIsTrue`.

Contents are claimed until one of the named faults has happened (`faults = {}`). The heart
is that a Committing marker is in one of two states: `Undoable` (the catalog has the old
entry, the backups are its chunks, and every chunk the upload has no part in is in place) or
`Done` (the catalog has the upload, its chunks are in place, and at most the old tail is
left). `UploadOK`, `ReplaceOK` and `RecoverOK` say at each place of a command or a recovery
which of the two holds. The cache needs no induction over what readers did: a reader opened
before a command's invalidation carries an older generation from then on and can insert
nothing (`ReaderOK`), and between the moves of chunks and that invalidation an entry is the
old chunk or the one that replaces it (`CacheOK`), which the invalidation then drops with
the rest. The bound on the cache is the one place that counts: an insertion adds at most one
entry and the eviction removes one.

`CatalogSaveProofs`, for any shards, names, tags, system shards, commands and limits:

* `SaveTypeCorrect`: `Spec => []TypeOK`;
* `SaveLogBounded`: `Spec => []DeltaLogBounded`, with any errors;
* `SaveCatalogLoads`: `Covered` implies `Spec => []CatalogLoads`;
* `SaveIsDurable`: `Covered`, and no directories created, imply
  `Spec => []SuccessMeansDurable`;
* `SaveSurvivesCrashes`: `~IoErrors` implies `Spec => []SuccessMeansDurable`, with
  directories that come and go;
* `SaveIdsUnique`: `~IoErrors` implies `Spec => []NodeIdsUnique`;
* `SaveNeverRefused`: `~IoErrors`, and no top-level renames, imply that no save is refused;
* `SaveCompactionPreserves`: `Covered` implies `Spec => CompactionPreserves`;
* `SavePlanSafe`: `Covered /\ Fixed` implies `Spec => []PlanSafe`;
* `SaveFollowsProtocol`: `Covered /\ Fixed` implies that every step is one of
  `CatalogCommit` or plans a save that will be refused;
* `SaveImplementsProtocol`: `~IoErrors /\ Fixed` implies `Spec => [][C!Next]_cvars`. It is
  about steps: the model starts with a vault that has its preset shards, the protocol with
  an empty root index.

`Fixed` says that no command creates, deletes or renames a top-level directory and that the
system shards exist. `Covered` says that calls do not fail, or else that there is no
compaction and that garbage collection runs only where the set of shards is fixed. The
hypotheses about failing calls are there because TLC has a counterexample without each:

* a compaction after a failed save commits a root index it read before the recovery of that
  save (`CatalogSaveCompactError.cfg`);
* a failed save that creates a directory leaves its snapshot; a second attempt keeps it, so
  that its record does not list it, and fails once the record is Committing; garbage
  collection deletes the snapshot, which no root index on disk refers to; the next
  command finds the record complete and writes an index with a missing chunk
  (`SaveCatalogLoads`);
* a failed deletion of a directory is finished by the next save, which still sees the
  directory and writes its first snapshot with the nodes in it; if that save fails too, the
  snapshot stays, and a directory created later under the same name and id keeps it
  (`SaveIsDurable`);
* after a failed command the session has taken it back while the record still stands; the
  next save finishes it, and a command made for the older catalog is refused
  (`SaveNeverRefused`) or its node id is one that is in use (`SaveIdsUnique`).

That `SaveNeverRefused` leaves out top-level renames is a limit of the proof: on the
instance of `save_shards`, renames included, TLC finds no refused save. `PlanSafe` does fail
where directories are renamed.

`Shape` (`StoreOK`, `SessionOK`, `Control`) is about types and logs: the deltas a meta counts
are those between its base and its last sequence number, fewer than the limit. `Safe` is about
the disk: `Stored` (what the root index refers to loads, and so does what a complete
Committing record refers to), `StepOK` (what each place in the code knows of the record and
the root index), `SaveOK` (the plan of a save loads once it is written, writes over nothing
in use and gives back the shards of its command) and `OpOK`. Its centre is that appending
the deltas of a command to a log that replays to the session's shard gives a log that
replays to the changed one, and that a save takes the snapshot path whenever that may be
false. `Synced` (`DiskSynced`, `PlanSynced`, `SessionSynced`) holds without failing calls:
between commands the durable catalog is the session's, but for system shards the session
does not have yet and for renamed names; the first snapshot of a directory is an empty one,
so keeping one that is already there (`save.rs:91`) is harmless; and all ids in use are
below the next one. What a log replays to is a recursive function on its length;
the induction over it is carried out with least counterexamples (`Least`, from `WFMin`).

Only model-checked:

* the liveness properties (`OperationEnds`, `RevocationCompletes`,
  `IdleSessionIsRevoked`, `EveryCallReturns`, `LinkSettles`): fairness and `ENABLED` are
  beyond the prover;
* `Restore` and `MasterMaterial`: their commands are sequences of steps that are put
  together and executed by folds, and an invariant would have to say for every suffix of
  every command what it still does; what is known of the disk in between is only what the
  run checks;
* what the hypotheses of the theorems on `CatalogSave` leave out: loading and durability
  with failing calls where directories are created while garbage collection runs.

## Known defects

Each is shown by TLC with the configuration named; `restore_overwrites` is a run of the
project, the others are started by hand with the `MC` module of the same name.

* `RestoreOverwrites.cfg` (`ExistingVaultSafe`): a restore is started and abandoned, a
  vault is created and used, and after the session's idle time another restore is
  started. Its recovery removes the marker, the expiry of the old session then finds none
  and deletes the salt, the master material and the pepper of the vault, and the start is
  refused because storage is not blank (`restore/local/session.rs:53-63`).
* `UploadMissing.cfg` (`NeverMissingChunks`): when the batch that moves uploaded chunks
  over the old ones fails half-way, the chunks already moved are deleted and the backups
  are not copied back, so the catalog entry points to missing chunks
  (`upload/writer.rs:221`). The test `core_fault_injection/upload.rs:65` is named
  `upload_batch_fail_on_each_selected_operation_never_points_to_missing_chunks`.
* `FileTxUnlock.cfg` (`UnlockAlwaysSucceeds`): a rollback removes the backups before the
  marker; a crash in between makes every later unlock fail (`durable_tx/recovery.rs:20`).
  `DomainUowRecovery.cfg` (`RecoveryPossible`) is the same in the unit of work, where
  `core_fault_injection/passmanager.rs:85` requires the unlock to succeed.
* `FileTxPatch.cfg` (`UnlockAlwaysSucceeds`): the write of a patch's marker can report an
  error after it has published the marker. The patch then deletes its backups and leaves the
  marker (`patch/service.rs:493`; a replace removes it, `replace/chunks.rs:169`), and after a
  lock the unlock fails for want of the backups. No crash is needed.
* `FileTxFailedSave.cfg` (`AllOfOneVersion`): a failed save is undecided and its marker
  stays; the next command replaces the marker, and a file is left with chunks of one
  version and the catalog entry of another (`core_fault_injection/file_replace.rs:57`).
  `DomainUowMixed.cfg` (`OldOrNewRoot`) is the same in the unit of work
  (`core_fault_injection/passmanager.rs:105`: "root import recovery must leave either old
  or new root, not a mixed root").
* `CatalogSaveRename.cfg` (`RenameIsDurable`): a save keeps a snapshot that exists under
  the name it wants if it is of the same root node. A crash in a top-level rename leaves
  such a snapshot; after a further change the same rename succeeds and keeps the old
  contents (`catalog_persistence/save.rs:91`; `rpc/router/state.rs:271`: "make command
  success mean durable catalog persistence").
* `CatalogSaveCompactError.cfg` (`CatalogLoads`): `shard:compact` reads the root index,
  then the recovery of an earlier failed save replaces it, then the compaction commits
  what it had read (`rpc/commands/shards/compact.rs:16`).
* `VaultRekeyLost.cfg` (`OneValidPassword`): an error of the write of the Committing
  marker leaves the session under the old key with the marker in place; what it writes
  next is deleted at the next unlock (`vault/rekey/service.rs:89`).
* `VaultRekeyTwoVaults.cfg` (`OneValidPassword`): one marker serves all vaults; a second
  rekey replaces the marker of an interrupted one, and the first vault stays readable
  with two passwords. The ghost `replaced` records that a rekey has found a marker it
  cannot read and replaced it; `CrashKeepsOnePassword` is claimed for all other
  behaviours, with any number of keys.

Met while modelling, and left out of the properties as named exceptions:

* a save that reports an error may still take effect, and `commit_catalog_mutation` has
  then taken back its node id, which is given to another node (`NodeIdsUnique` with
  `IoErrors = TRUE` and two preset shards), or a later command meets the catalog it left
  and is refused;
* with `IoErrors = TRUE` a directory whose creation failed twice can make the catalog
  unloadable after a garbage collection, and one whose deletion failed can come back with
  its nodes when it is created again (under "Proofs", `CatalogSaveProofs`);
* an upload keeps the size and revision it began with: a replace in between makes its
  commit and its recovery work from a stale base (`upload/target.rs:129`); a part sent
  twice aborts the whole upload (`upload/mod.rs:125`); a garbage collection during an
  upload deletes its temporary chunks; readers keep decrypting after a lock, and a reader
  may mix versions while a file is replaced;
* a second `restore:local:start` deletes what the live session has uploaded, answers
  "already in progress", and the commit of that session succeeds without chunks; a marker
  left by a crashed restore destroys a vault created since when the next restore begins;
  `admin:restore` replaces the marker of a live local session; a crash in an erase between
  `master.salt` and `master.verify` makes every later `master:setup` fail; no restore
  recovers a pending master rekey first;
* when the master state cannot be read after an unlock, the core is unlocked behind a
  session that says Locked, and the idle clock is not started (`client-runtime`
  `session.rs:912`);
* the cancellation of a range stream that has just ended, the failure of a stream the
  client has given up, and chunks of an upload the host has refused each close the whole
  connection (`peer_host.rs:563`, `io_loop.rs:383`, `peer_host.rs:569`); both loops await
  a send without reading; ids start at a random 64-bit number and may wrap around.

## Plan

Done: the durable transactions of catalog, files, uploads, units of work, vault password,
master password and restore; garbage collection; the cache; the session authority; the
link. Left:

1. repair of delta logs, as operators checked against `apply_delta`;
2. derivatives and OTP sidecars, as further participants of the transaction pattern;
3. moves between shards and lazy loading in `CatalogSave`;
4. `Restore` with an explicit program counter per command, so that it can be proved about.

## Not modelled

Cryptography and key derivation are ideal: a key reads its own chunks and no others.
Record formats, import and export, media, markdown and validation of backups are parsing.
Temp files and their sweep, lazy shard loading, moves between shards, trash, heartbeats,
pairing and the handshake are not modelled; `format.version` and legacy backups are left
out of `Restore`, the list of past events out of `LocalSession`. `PROJECT.json` lists
every component with its status.

The modelled code is a small part of the tree, because the tree is mostly something else:
of some 230 000 lines of implementation the larger part is user interface and platform
adapters (`src/apps`), wallet clients and transaction formats, the vendored FUSE library,
command line and FFI layers. They hold no state of their own that outlives a call, or
they format and parse; a model of them would repeat the code without a property to check.
