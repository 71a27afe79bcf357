# Verification of go-shardblob

TLA+ modules that model the shard store of this repository, TLC configurations
that check them on small instances, and proofs, checked by TLAPS, of the safety
properties for every value of the constants.

    tlc -config Store.cfg MCShardStore.tla      # model checking
    tlapm ShardStoreProofs.tla                  # proofs

## 1. The system

go-shardblob is a library: a `Store` keeps byte streams ("objects"), cut into
chunks, under the hash of their content. Equal chunks are kept once and counted;
equal objects are kept once with a use count. Goroutines call one `Store` value
concurrently; nothing runs in the background.

| Component | State it keeps | Operations |
|---|---|---|
| `Store` (`store.go`, `put.go`, `delete.go`, `get.go`) | `closed`, `persistM`, options | `Open`, `OpenMemory`, `Put`, `Get` and its reader, `Has`, `Stat`, `Delete`, `GC`, `Close`, `persist` |
| Object index (`internal/index`) | object ID to record with use count, under a `RWMutex`; snapshot file | `Get`, `Has`, `Put`, `Delete`, `List`, `Save`, `Load` |
| Reference counts (`internal/refcount/table.go`) | chunk ID to count, under a mutex | `Add`, `Sub`, `AddMany`, `SubMany`, `Get`, `Snapshot` |
| Journal (`internal/refcount/journal.go`, `snapshot.go`) | file of inc/dec records; snapshot file | `Append`, `Truncate`, `Replay`, `Save`, `Load` |
| Fence (`internal/iofence`) | a `sync.RWMutex`; a map of per-object mutexes with waiter counts | `BeginShared`, `BeginExclusive`, `TryExclusive`, `LockObject` |
| Collector (`internal/gc`) | none | `Run`, `SweepIDs`; repair helpers in `safety.go` |
| Chunk backend (`internal/blobstore`) | chunk files or a map; two counters | `Put`, `Get`, `Has`, `Delete`, `List`, `Count`, `Bytes` |
| Manifests (`internal/manifest`, `manifest_io.go`, `mem.go`) | one file (or map entry) per object: its list of chunks | `New`, `Encode`, `Decode`, `Validate` |
| Splitter (`internal/chunk`) | carry-over bytes, rolling hash | `Next`; policy `Normalize`; assembler; buffer pool |
| Files (`internal/layout`) | none | `WriteAtomic` (temporary file, fsync, rename), paths, config check |
| Verification (`verify.go`, `internal/verify`) | none | `Verify`, `VerifyAll`: load manifests, read and hash every chunk |
| Digests (`internal/hashx`), statistics (`stats.go`) | none | pure functions, read-only totals |

How they interact. `Put` splits its input and writes chunks under the fence's
read lock; then, under the object's lock, it either raises the use count or
writes the manifest, counts every chunk (each count with a journal record) and
indexes the object. `Delete` is the reverse. Both end with `persist`, which
under `persistM` rewrites the index file and the counts file and empties the
journal: files that hold the changes of *all* calls. `Get` returns a reader that
keeps the read lock until it is closed and fetches chunks lazily. `GC` and `Close`
take the fence's write lock. `Open` loads both files and replays the journal.

What is hard about it, and the property each part must have:

| Part | Hard behaviour | What makes it correct |
|---|---|---|
| Counts | partial `AddMany`/`SubMany`, journal errors, calls on objects that share chunks | a count is the number of manifest entries that refer to the chunk (`RefsExact`, `RefsCover`) |
| GC | chunks written but not yet counted; lazy readers; deletes under a reader | only garbage goes, all garbage goes (`GCRemovesOnlyGarbage`, `GCComplete`), readers are served (`ReadersServed`) |
| Index | read-modify-write of use counts; rollback of a failed `Put` | what is visible can be read (`VisibleReadable`); calls are linearizable (`ImplementsObjectStore`) |
| `persist` | one call writes out other calls' half-done changes; failures in the middle | what a caller was told is on disk (`DurableIndex`, `DurableWhenQuiet`, `AckedDurable`) |
| Locks | three lock kinds, writer preference, a `Delete` that starts a `GC`, a caller that calls again with a reader open | every call returns (`CallsReturn`), GC is not starved (`ExclusiveGranted`), calls use the locks as they are meant (`UsesStoreLocks`), and only a nested call blocks for good (`StuckOnlyByNesting`) |
| Crash and `Open` | crash between any two file operations, torn journal record, failed append that stays in the file, replay | the store opens and what it shows can be read (`OpenSucceeds`, `OpenFailsOnlyOnTorn`, `RecoveredReadable`, `RecoveredCovered`, `IndexedHasManifest`, `OnlyStruckIncomplete`) |
| Splitter, policy, options | boundaries, carried bytes, fragmented and failing reads, options applied to a normalized default | no byte lost, pieces that depend on the content alone (`NothingLost`, `CutsIndependentOfReads`), no part stored as the whole (`FailureReported`, `EOFOnlyAtEnd`), one way of splitting per root (`ReopenSplitsAlike`, `PolicyMatchesConfig`, `ReopenAnySpelling`) |
| Manifest files | offsets, sizes and totals in several places; files cut short | what `Put` stores is decoded as it was and verifies, a part of the file is refused (`StoredVerifies`) |
| Verification | lists and manifests read without the objects' locks, deletes in between | no fault is found where there is none, but for a deleted object in `VerifyAll` (`LooksImplementObjectStore`); the checks of `gc/safety.go` have nothing to report (`ReferencedPresent`, `NothingToRepair`) |
| Object locks | made on demand, removed by the last call, others waiting | one holder per object and no lock left behind (`ObjectExclusive`, `MapExact`, `ImplementsStoreLocks`) |
| Chunk files and totals | check, write, sync, rename and count in separate steps | files are whole (`FilesWhole`), temporary ones go (`TempsAccounted`), the totals are those of the files (`StatsExact`) or above (`TotalsDriftUp`) |

The full list of hazards, each at its line, is in `PROJECT.json`.

## 2. The modules

    ObjectStore              what callers are promised        (abstract)
    StoreLocks               what the locks promise           (abstract)
    ShardStore               the running store, all calls, I/O failures
      ShardStoreInv            the inductive invariant
        ShardStoreProofs         proofs: types, locks, records
          ShardStoreGCProofs       proofs: counts, chunks, readers, GC, files and journal
      StoreRefinement          ShardStore implements ObjectStore, uses StoreLocks
        StoreRefinementProofs    proofs of both, on ShardStoreGCProofs
        Verification             + Verify, VerifyAll, Stat, Has; gc/safety.go
          VerificationProofs       proofs, on an instance of StoreRefinementProofs
      CrashStore               + crash and Open, for a disk store
        CrashStoreProofs         proofs, on ShardStoreGCProofs
    Fence                    the locks in detail; implements StoreLocks
      FenceProofs              proofs
    Backend                  the chunk files and their totals in detail
      BackendProofs            proofs
    Manifests                manifests, their files, the check of an object
      Splitter                 Put's input to pieces and a manifest
        SplitterProofs           proofs
    MCShardStore, MCVerification, MCCrashStore, MCBackend, MCSplitter
                             instances for TLC

Indented modules extend the one above them.

### ShardStore

State and code: `idx[o]` is the `UseCount` of the index record (0: no record);
`refs[c]` is `Table.counts`; `blobs` and `manifests` are what the backend and the
manifest directory (or map) hold; `idxFile`, `refsFile`, `journal` are the files
under `meta/`; `shared`, `writer` are the fence's `RWMutex`, `objLock` the object
locks, `persistM` that mutex. Every client has a program counter `pc`, the call
`op`, its object `obj`, a cursor `pos` into the object's chunk list (used in turn
by the chunk loop, `AddMany`, `SubMany` and the reader), `seen` = `rec.UseCount`
as read under the lock, and `out`, the answer it is going to give. `todo` is what
a running GC has yet to visit; `faults` the I/O failures so far.

An object *is* its content, so `ChunkIDs[o]` (the manifest's chunk list) is a
constant of the model; chunks may be shared between objects and repeated within
one. Bytes, sizes, offsets, times and encodings are left out.

| Code | Actions |
|---|---|
| `beginIO`, `BeginShared` | `CallShared`, `RLock`, `EnterClosed`, `Enter` |
| `Put` | `PutChunk`, `PutLock`, `PutBump`, `PutUndo`, `PutManifest`, `PutAddRef`, `PutIndex`; failures `CallFail`, `PutAddRefFail` |
| `Delete`, `deleteLocked`, `applyDelete` | `DeleteLock`, `DeleteDec`, `DeleteSubRef`, `DeleteUnderflow`, `DeleteIndex`, `DeleteManifest`; failures `DeleteSubRefFail`, `DeleteManifestFail` |
| `persist` | `PersistBegin` (`PersistMemory` or `PersistIndex`), `PersistRefs`, `PersistTruncate`; failure `PersistFail` |
| `Get`, `blobReader` | `GetLookup`, `GetLoad`, `ReadChunk`, `CloseReader` |
| deferred `unlock` and `done` | `Finish` (with `WithAutoGC`, a `Delete` continues as `autogc`) |
| `BeginExclusive`, `GC`, `Collector.Run`, `Close` | `CallExclusive`, `WLockAnnounce`, `WLockClosed`, `GCBegin`, `GCSweep`, `GCSkip`, `GCFail`, `GCEnd`, `CloseBegin`, `WUnlock` |

Grain of atomicity. A step is one critical section of `Index.mu`, `Table.mu` or
an `RWMutex`, or one file operation. Some code steps are merged, each for a reason:

- `LockObject`, `idx.Get` and, in `Delete`, `loadManifest` are one step: only the
  lock's holder writes the record and the manifest of that object.
- `Table.Add` and its journal append are one step: the table's mutex is held
  over both. `Journal.mu` adds nothing, except that `Truncate` takes only it; it
  falls before or after the whole of `Add`, and `Add` changes the count before it
  appends, so a `Truncate` between the two is the same as one just before.
- taking the snapshot of the index (or the counts) and renaming the file are one
  step: a change made between the two is not in the file, exactly as if it had
  been made after both. (A crash between the two is a crash before.)
- the read of a chunk's count and the removal of the chunk in a sweep: the fence
  lets nothing else run.
- releasing the object's lock and then the read lock at the end of a call: a
  release never disables anybody, so the second can be taken together with the
  first.
- the collector's list is a set: the order of `filepath.Walk` does not matter,
  because nothing changes counts while a GC runs.

I/O failures. `Failing` selects kinds and `MaxFaults` bounds how many strike:
`add` and `sub` (a journal append; the record may have reached the file not at
all, in part or in full), `remove` (removing a manifest), `save` (a file operation
of `persist`; at `Truncate` the file may already be empty), `rename` (a rename that
fails over an existing file, which `WriteAtomic` reports as success), `fetch` (GC
cannot read a chunk and skips it). Failures that leave no trace - reading the
input, writing a chunk, writing or reading a manifest, listing or deleting in
GC - are `CallFail` and `GCFail`, always possible and not counted.

A memory store (`Memory = TRUE`) has no journal and no files; its `persist` only
takes `persistM`.

### ObjectStore and StoreRefinement

`ObjectStore` has no chunks, files, locks or GC: a use count per object and, per
client, how far its call is. Its actions are the effects callers may rely on,
including what a *failed* call may have done (a failed `Put` may leave its use
behind, as `put.go:85` does; it may take back its own use but nobody else's).
`StoreRefinement` maps `ShardStore` to it: `idx` is `uses`, a `Put` takes effect
when it writes its record, a `Delete` when it lowers or removes it, and every
other step is invisible. A reader that meets a missing chunk is mapped to a phase
that does not exist in `ObjectStore`, so it would be a violation.

### Verification

`Verification` extends `ShardStore` (by way of `StoreRefinement`) with clients of
another kind, `Lookers`, and with `listed`, the rest of the list a `VerifyAll` took.
`Look` is `idx.Get`, all of `Has` and `Stat` and the beginning of `Verify`; `Load`
reads the manifest, `CheckChunk` one chunk, `Report` ends the object. None of
them takes an object's lock, so a `Delete` may come between any two; the fence keeps
GC out. `ObjectStore` has the same calls: a `Verify` sees the object, then opens it or
finds it gone; a `VerifyAll` takes a list at one moment, and may complain of an object
only if it is gone by the time it is checked, which is what `verify.go:42` reports as
`ErrVerify`. A fault found in a chunk maps to a phase that `ObjectStore` does not have.
The store is a memory store, whose reads do not fail.

`Safe`, `Orphans` and `Marked` are `AssertSafe`, `Orphans` and `MarkLive` of
`internal/gc/safety.go`. The store never calls them; they are read as what they say
must hold.

### CrashStore

`CrashStore` extends `ShardStore` with `up`, `crashes` and two ghosts: `acked`, the
uses callers were told of, and `struck`, the objects whose manifest a `Delete` had
removed when it was cut short. `Crash` loses everything but the files; a client in the
middle of an append may leave half a record (`Torn`), as a failed append may
(`Failing = {"add"}`).

`Open` loads both files and reads the journal as `Replay` does: the file is a sequence
of fields (`Cells`), five to a record, and `Replay1` takes five at a time. A torn
record holds one to four fields, and `Open` tries every length (`parts`): what comes
after it is read out of step and fails its checksum, while fewer than five fields at
the end, from one torn record or several, are ignored and stay in the file. `Replay`
also fails on a count below zero. A clean restart is a crash of an idle or closed
store. Renames are durable when they return. A removed manifest stays removed.

### The parts in detail

`ShardStore` takes several things for granted, and each has a module of its own.

`Fence`: one lock per object, and a read-write lock that prefers writers. `StoreLocks`
says what that means; `Fence` is checked and proved to implement it, and
`ShardStore` to use its locks as it allows. In `Fence` an object's lock is a cell of the
heap (`Locks`), found or made in one critical section of `Fence.om` (`FindLock`) and
removed from the map in another (`ReturnLock`); between them the call may wait for a
cell that others find, return or replace. `Unused` stands for allocation. The counter
`active` moves between `RLock` and `RUnlock`, and `TryExclusive` reads it. A goroutine
with an open reader is "inside" and may call again (`CallAgain`), for the read lock a
second time or for the write lock: Go's `RWMutex` is not recursive.

`Backend`: that a `Put` of a chunk is one step. On disk it is seven, from the first look
for the file (`Look`) through `WriteAtomic` (`WriteTemp`, `SyncTemp`, `Rename`,
`RenameFail`) to the two counters; the set of files comes out the same, the totals do
not. A crash at any step may tear a file whose content had not been synced (`synced`,
`flushed`) and leaves temporary files behind (`left`); `OpenDisk` counts again. GC's
deletes and `Close` need `Quiet`, which the fence gives.

`Splitter`: that an object has a fixed list of chunks. `policy` is what the options
make of the default policy (`Apply`); a fixed-mode `Next` is one action around
`ReadFull`; a CDC `Next` is `ScanCarry` and then one `ReadCDC` per `Read`, which
returns any number of bytes up to the buffer, with the reader's ending or before
it. Bytes matter through `GearTable` only; the hash has `HashRange` values (2^64 in the
code), and a piece may end where it is a multiple of `MaskRange` (`Mask()` + 1). A reader
ends with `EOF`, with `UnexpectedEOF` or with another error, each time it is read
again, or with an error once and then with `EOF` ("failed once", kept in `told`). A
`Read` of nothing without an error, which the loop ignores, is left out.

`Manifests`: that a manifest is there or not, and lists the object's chunks. `Splitter`
makes one of its pieces as `Put` does, writes it to a file field by field (`Encode`),
reads it back (`Decode`, which refuses what does not pass its checks) and compares it
with the stored chunks (`Faults`, that is `verify.Object`). A digest or checksum is its
content under a tag, so different contents never collide. `Lookup` ignores the case of
an algorithm's name, `Compatible` does not.

## 3. What the runs check

`MCShardStore` and `MCCrashStore` fix two objects with chunk lists `<<c1, c2>>` and
`<<c2, c2>>`: a chunk shared between objects, and one repeated within an object.

| Run | Instance | Properties | What it shows |
|---|---|---|---|
| Store | 2 clients, disk, `WithAutoGC`, every call, one failure of kind add, remove, save or fetch | `ImplementsObjectStore`, `GCRemovesOnlyGarbage`, `GCComplete`, `ReadersServed`, `DurableWhenQuiet` | the contract of the calls and of GC |
| Verify | 2 clients that put, delete, collect (called or after `Delete`) and close a memory store, 1 that calls `Stat`, `Verify` and `VerifyAll` | `LooksImplementObjectStore`, `ReferencedPresent`, `NothingToRepair` | the contract on a memory store, with a third client that looks; counts, manifests and chunks agree |
| Faults | 2 clients, disk, put, delete and called GC, one failure of any kind | `TypeOK`, `SafetyInv`, `RefsExact`, `RefsCover`, `VisibleReadable`, `DurableIndex` | what each failure can and cannot damage; the invariant of the proofs |
| Live | 2 clients, 1 object, disk, no counted failure, fairness | `CallsReturn`, `UsesStoreLocks` | no deadlock, no starvation; failing calls release their locks, and no call locks more or longer than it should |
| CrashAcked | 2 clients, put, delete, close, one crash | `AckedDurable`, `OnlyStruckIncomplete` | acknowledged uses survive; an object without its manifest is one whose `Delete` was cut short |
| CrashPut | 1 client, put, get, gc, three crashes, torn appends, one failed append | `RecoveredReadable`, `RecoveredCovered`, `OpenFailsOnlyOnTorn` | without deletes or a second client, replay may count twice but never loses a reference, and only a torn record inside the journal stops `Open` |
| Fence | 3 clients with up to 2 read locks each, 2 objects, 2 lock cells, fairness | `TypeOK`, `ObjectExclusive`, `MapExact`, `ExclusiveAlone`, `StuckOnlyByNesting`, `ObjectLockGranted`, `ExclusiveGranted`, `ImplementsStoreLocks` | the map of locks and the counter do what `StoreLocks` says; only a goroutine that calls again blocks for good |
| Backend | 3 clients, 2 chunks of different size, both backends, one crash | `TypeOK`, `TotalsDriftUp`, `FilesWhole`, `TempsAccounted` | files are whole, temporary files go, the totals never miss a file |
| Split | 2 byte values, contents of up to 5 bytes and some of up to 37, every policy the options give, 3 spellings of 2 algorithms, Reads of up to 5 bytes, 4 endings | `TypeOK`, `NothingLost`, `CutsIndependentOfReads`, `StoredVerifies`, `FailureReported`, `PolicySound`, `ReopenSplitsAlike` | splitting depends on the content alone and is undone by assembling; what is stored verifies |

Three runs end in a violation; each is a disagreement between the code and what
its documentation or comments say (`PROJECT.json`, "findings"):

| Run | Property | What the code does |
|---|---|---|
| CrashReplay | `OpenSucceeds` | a crash between saving the counts (`store.go:161`) and emptying the journal (`store.go:165`) in a `Delete`: the `dec` records are applied a second time, `Replay` reports an underflow and the store cannot be opened any more |
| CrashLostRefs | `RecoveredReadable` | `Truncate` erases records of another client's `Put` that are in no snapshot; if that client stops between its two `Save`s, the next GC deletes an indexed object's chunks |
| SplitTruncated | `EOFOnlyAtEnd` | in fixed mode a reader's own `io.ErrUnexpectedEOF` (a truncated HTTP body) passes for the end of the content (`splitter.go:58`, `:63`), and `Put` stores the part; in CDC mode `Put` fails |

Six more disagreements have a property in the modules and no run of their own.
TLC finds each when the named configuration checks the property instead of its own:

| Configuration | Property | What the code does |
|---|---|---|
| CrashReplay with `Ops = {"put"}`, `TornWrites = TRUE`, `MaxCrashes = 2` | `OpenSucceeds` | `Replay` skips a torn record at the end ("尾部半写记录丢弃", `journal.go:71`) but leaves it in the file; records appended after it make a later `Open` fail |
| CrashReplay | `IndexedHasManifest` | `Delete` removes the manifest before it saves the index; a crash in between leaves an indexed object that `Get` calls incomplete and `Delete` cannot find, though only objects with a whole manifest are to be visible (`get.go:47`). A `Put` of the same content does not mend it: it finds the record and raises its use count (`put.go:53`) |
| Backend | `StatsExact` | two `Put`s of one new chunk both find it missing and both count it (`disk.go:86`), so `StoreStats` reports too much until the next `Open` |
| Split | `PolicyMatchesConfig` | the default policy is normalized before the options are applied, so `WithChunkSize` changes `Avg` and keeps `Min` and `Max` of 64 KiB (`options.go:20`), not "Min=Avg/4，Max=Avg*4" (`policy.go:51`) |
| Split | `ReopenAnySpelling` | a root made `WithAlgo("SHA256")` is refused when it is opened as `sha256`, although both name the same algorithm: `Compatible` (`config.go:54`) compares the names as given, `Lookup` without regard to case |
| Split with `Endings = {"EOF", "failed once"}` | `EOFOnlyAtEnd` | an error that comes with the last bytes of a piece is dropped (in CDC mode with a boundary in them, `splitter.go:112`; in fixed mode by `io.ReadFull`): if the reader then ends with EOF, `Put` stores the part. `FailureReported` says that it happens in this case only |

CrashPut shows that the crashes need a `Delete`, a second client or a torn record
that others follow to do harm, and CrashAcked that the use counts callers were told of are
safe: they are in the index file, which no journal record touches.

Failed operations, seen in Faults: after a failed journal append in `AddMany` the
counts are too high (a leak, `RefsCover` still holds); after one in `SubMany`
they may be too low, so `RefsCover`, `VisibleReadable` and `ReadersServed` are
stated only without it; of what a retried `Delete` does then, `TypeOK` sees the
underflow and nothing more. A `rename` that fails silently leaves an old snapshot
behind an empty journal; the running store is not affected, the files are, and the
properties about files are stated without it. A chunk that a GC cannot read is
skipped on purpose, and `GCComplete` is stated without that.

Some outcomes are described by the contract rather than excluded: a `Put` that
fails in `persist` may leave its use behind (`put.go:85`), a `Delete` that answers
an error may have removed the object (`store.go:149`), or answer `ErrClosed` when a
`Close` comes before its GC (`delete.go:21`). No document promises otherwise.
`TryExclusive` may wait, though it is not meant to (`fence.go:56`); `Fence` has that
wait and no property against it. In `PROJECT.json` such hazards have a note
in place of a property.

### Bounds

- Two clients are enough for every pair of steps of two calls to interleave;
  Verify has three, so that a GC or Close can wait for one call while another
  arrives, and two calls can delete what a third is checking. Clients of a kind are
  symmetric, and no property names one.
- `MaxUse = 2`: uses of one object, pending `Put`s included. Use counts 0, 1, 2
  reach every branch of `Put` (new, raise) and `Delete` (lower, remove), and two
  concurrent `Put`s of one object.
- Two chunks and two objects cover a private, a shared and a repeated chunk.
- One counted failure: each kind is met at every step where it can strike, with
  and without other calls under way. `CallFail` and `GCFail` are not
  bounded. Faults has no `Get`; Store has readers beside failures.
- Crashes: one with two clients; three for the single client, so that a torn record, one
  appended after it and another torn one can meet in the journal. In `Backend` one:
  nothing but the counts, which `OpenDisk` makes anew, and `left` is carried over.
- `Splitter`'s sizes are scaled (default 8, largest 16, so `Min` 1 or 2, `Max` 32):
  short contents are all tried, long ones reach `Max` with and without a boundary
  near it. `MaxChunks = 12` lets contents exceed it. Chunk sizes include zero,
  negative, between two powers of two and above the limit.
- `MaxFiles = 5` stops calls in `Backend`; the counters drift by up to three there.
- In `Fence` a cell is in use only while an object is locked or waited for, so as many
  as there are objects suffice; with fewer, `FindLock` would block. `MaxReads = 2`: a
  third read lock of one goroutine waits for what the second waits for.
- Deadlock is checked in the runs of `ShardStore` and `Verification`. It is not in those
  of `CrashStore`, which stop when the crashes are used up and `Open` has failed; of
  `Splitter`, which stop when the input is split; of `Backend`, where a memory
  backend that is closed stays closed; and of `Fence`, where nested calls do block one
  another: `StuckOnlyByNesting` says there that nothing else does.

### Fairness

`FairSpec` asks that a goroutine that can take a step takes one (weak fairness
of `Step`), and that a client waiting for a mutex that is released again and
again gets it at last (strong fairness of the four acquiring actions): Go's
`sync.Mutex` hands over to a waiter that has waited for a millisecond, and
`RWMutex` serialises writers with such a mutex. Readers need no fairness beyond
that: `WUnlock` admits all that wait. Weak fairness covers `CloseReader`, which
`Get` demands of its caller. No new call, failure or crash is ever forced.
`Fence` has the same fairness, for the same reasons, on its own actions.

## 4. Mutants

Next to the actions stand operators marked "Mutant": the same action with a
plausible mistake (no lock, a lost unlock, a swapped order, an ignored error,
a missing recheck). No action uses them. For each property of each passing run
`PROJECT.json` names one that, put in place of the action, makes TLC find the
property violated.

## 5. What is proved

TLAPS checks the theorems below for *any* value of the constants: any set of clients,
chunks and objects, any chunk lists (empty, shared, repeating), any bounds, any number of
failures and crashes. They rest on the modules' `ASSUME`s and, but for the last three about
`CrashStore`, which say so, on nothing else:

- `ShardStore`: the constants have their types, `NoClient` is no client and `NoObject` no
  object, objects are finite in number.
- `CrashStore` and `Fence`: clients are finite in number too, since a counter or a sum runs
  over them; `CrashStore` is a disk store; `MaxReads` in `Fence` is not zero.
- `Backend`: a chunk has a size in `Nat`.
- `Splitter`: contents are finite sequences of bytes; the table maps bytes to numbers; buffer
  and hash are not empty; the default and the largest average are powers of two up to 4 MiB, in this order
  (`policy.go:8`). Sizes asked for are any integers. `Manifests`: an algorithm is registered under its own name, and
  not as "unknown"; a manifest may have a chunk.
- `Verification`: the store is a memory store, and `Lookers` are clients.

| Theorem | States | For |
|---|---|---|
| `TypeCorrect` | `[]TypeOK` | `ShardStore` |
| `LocksRespected` | `[]Discipline`: the fence separates GC and Close from all other calls, an object's critical section has one call in it, and what it read under the lock stays true | |
| `CountsCorrect` | `[](RefsExact /\ RefsCover)` | |
| `VisibleObjectsReadable` | `[]VisibleReadable` | |
| `OpenReadersServed` | `[]ReadersServed` | |
| `GCRemovesAllGarbage` | `[]GCComplete` | |
| `OnlyGarbageRemoved` | `GCRemovesOnlyGarbage`, an action property | |
| `IndexDurable` | `[]DurableIndex` | |
| `QuietDurable` | `[]DurableWhenQuiet` | |
| `Safe` | `[]SafetyInv`, the whole inductive invariant | |
| `StoreUsesLocks` | `UsesStoreLocks`: every step is one that `StoreLocks` allows | |
| `StoreImplements` | `ImplementsObjectStore`, while no journal append of `SubMany` has failed | |
| `CallersUndisturbed` | `Store!Spec`: the calls that do not look behave as in a `ShardStore` of their own | `Verification` |
| `CountedChunksPresent` | `[]ReferencedPresent` | |
| `CountsNeedNoRepair` | `[]NothingToRepair` | |
| `LooksImplement` | `LooksImplementObjectStore`, a refinement: `VerifyAll` may still complain of an object deleted after it was listed | |
| `TypedThroughCrashes` | `[]TypeOK`, through every crash and `Open` | `CrashStore` |
| `AnswersSurvive` | `[]AckedDurable`, while no file operation of `persist` or removal of a manifest has failed | |
| `OnlyDeletesLeaveIncomplete` | `[]OnlyStruckIncomplete`, under the same condition | |
| `OnlyTornFailsOpen` | `[]OpenFailsOnlyOnTorn`, if `"delete" \notin Ops` | |
| `RecoveryCovers` | `[]RecoveredCovered`, if moreover there is one client, while no rename has failed | |
| `RecoveryKeepsReadable` | `[]RecoveredReadable`, under the same conditions | |
| `CountsBounded` | `[]TypeOK`: the counter `active` and the waiters are never negative, and bounded (that they are exact is in `CountInv` and `WaitersInv`) | `Fence` |
| `ObjectsLockedByOne` | `[]ObjectExclusive` | |
| `MapFollowsUse` | `[]MapExact` | |
| `ExclusiveRunsAlone` | `[]ExclusiveAlone` | |
| `OnlyNestingDeadlocks` | `[]StuckOnlyByNesting` | |
| `FenceGivesLocks` | `ImplementsStoreLocks`, a refinement | |
| `TotalsInRange` | `[]TypeOK`: no total falls below zero | `Backend` |
| `DriftsUp` | `[]TotalsDriftUp` | |
| `NoTornFiles` | `[]FilesWhole` | |
| `TempsCleaned` | `[]TempsAccounted` | |
| `PoliciesSound` | `[]PolicySound` | `Splitter` |
| `ReopensAlike` | `[]ReopenSplitsAlike` | |
| `Typed` | `[]TypeOK` | |
| `NoByteLost` | `[]NothingLost` | |
| `ReadsDoNotMatter` | `[]CutsIndependentOfReads` | |
| `FailuresReported` | `[]FailureReported`, which excepts the two cases of section 3 | |
| `WholeInputStored` | `[]StoredVerifies` | |

### ShardStore

None of these properties is inductive alone. `SafetyInv`
(`ShardStoreInv`) strengthens them in layers, and each layer is preserved given
those below it, so each has its own `...Step` lemma with one case per action:

1. `Typing` = `TypeOK`, `CallInv` (what a call is doing fits its step), `CursorInv`
   (the cursor is inside the chunk list). It needs nothing else.
2. `FenceInv` (the read lock is held exactly by calls inside `beginIO`; the write
   lock by one call, with no reader) and `LockInv` (a call in an object's critical
   section holds its lock, a held lock has such a call). From them `OwnLock` and
   `SweepAlone`: two calls are never in the same object's critical section, and
   while a GC sweeps no call is under the read lock.
3. `RecordInv`: the index record of a locked object is what the holder's step
   says. Other clients' steps keep it by `OwnLock`.
4. `RefsInv`: `refs[c]` equals the number of `Holders(c)`, the manifest entries
   whose reference is counted right now. `Counted` says when: the object is
   indexed, or a call in the middle of `AddMany` (`SubMany`) has passed (not yet
   passed) the entry. A step changes the status of no entry (`CountSame`), or of
   one entry of one chunk together with its count (`OneMore`, `OneLess`, from the
   library's facts on cardinalities). The steps that add or remove an index record
   find all or none of its entries counted.
5. `ChunkInv`: visible objects, open readers and running `Put`s have their chunks.
   Only a sweep removes one, and `SweepAlone` with the exact (or covering) counts
   spares it. `SweepInv`: what a sweep has passed has a count.
6. `LagInv` and `DirtyInv`: the files differ from memory only behind a call that is
   going to write them.

### The refinements of ShardStore

`PhaseTable` states, for each step of a call, which phase of `ObjectStore` it is
mapped to; both refinement proofs cite the table and never the definition of `Phase`.
A step of a client keeps the phases of all others, so each action needs three facts: the
phase before, the phase after, and what became of `idx`. `RecordInv` gives the last: a `Put`
that raises a use count or writes a new record does exactly what `PutEffect` does, because
what it read is still true. `ReadersServed` excludes a reader that meets a missing chunk.

The condition on `SubMany` is needed: after a failed `sub` append counts may be too low, a GC
then removes chunks of an indexed object, and its readers fail, which `ObjectStore`
does not allow. Every other failure is inside the contract. `UsesStoreLocks` needs no
condition: it follows from `FenceInv` and `LockInv`.

The proof found a mistake in the model: `Phase` (and `LookPhase` in `Verification`) were
`CASE` expressions with guards that overlap. TLC takes the first arm that holds, but TLA+ leaves
open which one is meant. The guards are disjoint now.

### Verification

The calls that look change nothing but their own variables and their read lock. So what is
left of a behavior when they are taken out is one of `ShardStore`: `Store` is an instance
of its proofs on the other clients (`Callers`), with the `Lookers` removed from `shared` and from every
variable of the calls. The instance's lemmas are cited like those of a module that is extended,
from `StoreConstants`, which proves its assumptions.

`LookInv` says that the store without the Lookers satisfies `StoreInv`; that no call looks while
a GC or Close is alone (`LookFence`); how the variables of a call that looks fit
its step (`Shape`); and that all chunks of what it has seen in the index are present
(`Sights`). `Sights` is the key to `LooksImplement`: an object may be deleted while it is checked, but
its chunks are removed only by a GC, which `LookFence` keeps out. Two facts make the
step: a caller's step is the same step of `Store` (`CallerStep`) and, but for the readers a `WUnlock`
lets in, leaves the Lookers alone (`CallerFrames`); a Looker's step leaves
`Store` alone (`LookerHidden`). `CallersUndisturbed` is then immediate. It is about safety
only: a GC or Close does wait for calls that look.

For `LooksImplement` a step of `Store`, which `ObjectStep` of the instance maps to
one of `ObjectStore` on fewer clients, is lifted to all of them (`LiftStep`), and a
Looker's step is mapped case by case (`LookerAbs`). `Shut` needs `ClosesAlone`: a Close takes
effect with nobody inside, Lookers included. The condition on `SubMany` in
`StoreImplements` is void here, as a memory store has no journal (`NoLostAppend`).

### CrashStore

`CrashInv` is preserved by calls, by `Crash` at any step and by `Open`:

1. `Typing`. The hard part is `Open`: the counts it starts with are what `Replay` made of
   the journal's fields. `Sound` says that a checksum field ends five fields that are those of one
   record. Files made of whole and cut records are sound (`CellsSound`), so a
   block of five that decodes is one whole record wherever reading began (`DecodedWhole`), and a block
   changes one count by one and fails below zero (`Replay1Whole`). The rest is an induction over the
   blocks (`ReplayGoes`, `ReplayedTyped`).
2. `Typing`, `LockInv`, `RecordInv` and, while the store is up, `LagInv` of `ShardStore`: its own
   lemmas apply to every step of a call. `Stopped`: while it is down there are no calls, so
   `Open` starts from the state these invariants hold in.
3. `ToldInv`, the key to `AckedDurable`: `acked[o]`, the uses that callers were told of, is
   what the index has if `o` is unlocked, and what the holder of `o`'s lock read when
   it is locked. `EffectInv` says by how much the holder has changed the record since. With
   `LagInv`, which bounds the difference of file and index by the calls still pending,
   `AckedDurable` follows.
4. `StruckInv`: an object without its manifest has no record, in the index or, while the store
   is down, in its file, but for those in `struck`.

The condition `NoFault(DurableKinds)` of 3 and 4 is needed. A rename that fails over an existing file
counts as a success, so an answered `Put` is not in the file. A `Delete` that answers an
error may have removed the record already (`save`, `remove`), and no caller is told.
Crashes, torn records and failed journal appends are all covered.

The other three theorems are about a store that only adds. They say what a replay *gives*:

1. Up to the first torn record, block `i` of the file is record `i` (`WholeRead`), and the block
   that begins where a torn one does, if the file is long enough to have one, does not decode, as the magic of
   the next record is inside it (`TornRead`). So a replay that succeeds has met no torn record but at the end,
   and has counted every record in the journal (`ReplayCounts`); one of records that only add, with nothing torn but the last, does succeed (`ReplayPasses`).
2. `OnlyIncs`: without Deletes the journal has such records only. That is `OnlyTornFailsOpen`, for
   any number of clients.
3. `LogInv`: a count in memory is at most the one in the snapshot and the chunk's records in the
   journal together (`Logged`), and from `Save` to `Truncate` at most the one in the snapshot
   alone. So `Open` gives no chunk less than it had. A crash counts no entry anew
   (`QuietHolders`), and `Open` shows no object that was not indexed, so `RefsCover` and `ChunkInv` of
   `ShardStore` hold again where the next calls start (`RecoverOpen`); from there on its own lemmas
   `CountsStep` and `ChunkStep` apply.

The conditions are needed, and the code loses references without each of them. A second client's `Put`
between `Save` and `Truncate` breaks the last part of `LogInv` (CrashLostRefs). A replayed
`dec` that the snapshot has already takes a reference twice, or fails (CrashReplay). After a rename that
failed silently, `Truncate` empties the journal though the snapshot is the old one.

### Fence and Backend

`FenceInv`: where a call is says whether it has read locks and whether it found an object's
lock. `CountInv` equates `active` with the cardinality of `InFlight`, the set of read locks a
goroutine has counted, so that `RUnlock` cannot take it below zero; `WaitersInv` equates a
cell's waiters with the calls that found it and have not returned it, so that the call that
takes the last one off the map is alone (`MapExact`), and `FoundInv` keeps an object from
having two cells. The refinement maps the holder of the object's cell to the holder of the lock.
`StuckOnlyByNesting` goes from a blocked call to the one it waits for: the holder of an object's
lock is never blocked itself, so somebody waits for the `RWMutex`, its writer waits for
readers, and a reader that is blocked is one that called again.

`BackendInv`: in `DiskTotals` each total covers the files except those that a `Put` has still to add
(`Uncounted` for `nfile`, `Unsized` for `nbytes`). That two `Put`s both add
one file is what makes it an inequality. `TotalSize` is a fold over a set; what it gives for a set
with one chunk more or less is proved by induction (a counterexample with the fewest elements,
by the library's well-foundedness of strict inclusion on finite sets). `FilesSynced`: a file under its chunk's
name had been synced before the rename. `TempsCounted`: temporary files are those of calls
at `sync` or `rename` and those that are left.

### Splitter and Manifests

For contents of every length, every policy the options can give, and every way a reader can hand out its
bytes and end. `SplitInv` has a part for each thing that can go wrong, `CutsAlike` is apart from it:

1. `Shapes`: domains, and that the policy is one that `Apply` gave. `NormalizeIs` computes `Normalize`
   by cases; that an average is a power of two between its neighbours (`NearestIs`) makes it idempotent.
2. `Phases`: between two Reads the gear has seen the whole piece so far (`gear = Fed(Fresh, buf)`) and no
   boundary in it, nothing is carried and no error waits. This is what a mistake in `carry` or in a reset would break.
3. `Held`: while there is no failure, what was read and is in no piece is `buf \o carry`, the content
   from `offset` to `at`; after EOF there is nothing.
4. `PiecesFit` and `FixedSizes`: the pieces come in order without a gap, put together they are the content up to
   `offset`, and in fixed mode only the last one may be short, which `Validate` asks for.
5. `Ends`: how the reader may have ended for `eof` or `told` to be set, and that a piece has been completed
   by the last Read since a failure was told.
6. `CutsAlike`: the pieces of the whole content (`PiecesFrom[0]`) are those so far, and then those of cutting the rest
   (`PiecesFrom[offset]`). A step that emits a piece must show that it is the next one (`NextAlike`).
   For that `CutsOfConcat` says that searching goes on where it stopped: boundaries in
   `s \o t`, with none in `s`, are those a gear that has seen `s` finds in `t`.

`NothingLost`, `FailureReported` and `CutsIndependentOfReads` follow from these. For `StoredVerifies`,
`ManifestValid` shows that the manifest made of such pieces passes `Validate`; its file is a header, blocks of
three fields and a checksum (`FlattenThrees`), from which `Decode` takes back each field; and a part of the file is refused
because its last field is no checksum (`PartRefused`).

Every theorem here rests on recursions over data: the rolling hash (`Fed`), sums, concatenations
and the pieces of a content. Each is first shown to be a function that its step determines
(`FedIs`, `SumIs`, `FlattenIs`, `PiecesFromIs`), by the smallest position where it would not be one (`LeastOf`). `PiecesFrom`
recurs to a larger position, which is well founded since a piece is never empty: `Min` is at least 1.

### Only model-checked

- Liveness (`CallsReturn`, `ObjectLockGranted`, `ExclusiveGranted`): out of the provers' reach.
- What `Splitter` says of the code that its runs find violated (`EOFOnlyAtEnd`, `PolicyMatchesConfig`,
  `ReopenAnySpelling`) is not a theorem, of course. `ReopenSplitsAlike` is what holds instead of the last one.

## 6. Not modelled, and why

- Bytes: the hash functions, hex forms of IDs, the formats of the index and count
  snapshots and of the configuration file. IDs are model values or tagged contents,
  distinct for distinct contents; a snapshot is the old one or the new one, whole.
- Failures that leave nothing behind in the parts: `MkdirAll` and `CreateTemp` in
  `WriteAtomic` (`Backend` begins with the temporary file), and the checks of
  `Validate` that no manifest made by `Put` can fail.
- `StoreStats`, which reads four totals at four moments and may report a mixture of
  states. Nothing is decided by it; `Backend` has the two totals of the backend.
- A disk that fails while `Verify` reads: the chunk counts as missing
  (`verifier.go:38`). `Verification` models a memory store.
- The width of the use count (`uint32`, not checked at `put.go:54`): it takes 2^32 `Put`s of one
  content. `MaxUse` bounds the model far below it.
- `SweepIDs`, `Dry`, `PutChecked`, `VerifyID`, `IncUse`, `DecUse`, `Measure`, the incremental
  `Writer`, manifest `Clone`: no caller in the store.
- Two `Open`s of one root, in one process or two: nothing in the code guards
  against it (`store.go:73`), and the documentation does not offer it.
- Loss of a rename or removal that had returned (no fsync of the directory,
  `atomic.go:45`): what is left then is the file system's choice.

## 7. Reading order

`ObjectStore`, then `ShardStore` from "A store just opened", its properties at the
end, `CrashStore`, and `ShardStoreInv` before the proofs. In each proof module the invariant
comes first or right before its `...Step` lemmas, the theorems after them.

## 8. Plan

Done: `ShardStore`, its contract and its safety proofs, the two refinements included;
`Verification`, proved to keep that contract; `CrashStore` with failures, its types, answers and
what it recovers proved; `StoreLocks` and `Fence`, proved; `Backend` with crashes, proved; `Splitter` and
`Manifests`, proved.

What is left is the proof of the liveness properties, which the provers cannot give, and the parts of
section 6. If the code is changed so that `Truncate` drops only what the snapshot has, the condition of one
client in `RecoveryCovers` should go with it.
