# ColonyFS in TLA+

ColonyFS is a distributed file system mounted through FUSE. The attributes of
files and directories are kept in a distributed hash table (OpenDHT, spoken to
over XML-RPC), the contents are cut into chunks of `CHUNK_SIZE` bytes and kept
on chunk servers (spoken to over TCP with boost::asio). This directory holds
TLA+ models of the program, the TLC configurations that check them and the
theorems TLAPS proves about them. All paths below are relative to `src/src/`.

Contents: [1 inventory](#1-inventory), [2 plan](#2-plan), [3 modules](#3-the-modules),
[4 runs](#4-the-runs), [5 environment and fairness](#5-environment-and-fairness),
[6 proofs](#6-what-is-proved), [7 findings](#7-findings),
[8 not modelled](#8-what-is-not-modelled).

## 1 Inventory

A file system call runs on a libfuse thread, reaches `colonyfs_fusexx`, and
works on two *sinks*, one for attributes and one for chunks. A sink is an
`aggregator` around a write-back `cache`; its policy says how a value is loaded
(`PreRead`), written back (`OnFlush`) and deleted (`OnErase`). `flush` spawns a
tbb task, `dht_task`, which writes the dirty values of one file back and purges
the file's chunks. The attribute policy calls the DHT and waits for it; the
data policy posts to an `io_service` that three threads run, and returns. A
chunk server adds its host to the list of its swarm in the DHT when it starts,
and then serves deposits and retrievals on one thread.

    libfuse threads --> colonyfs_fusexx --> metadata sink --(XML-RPC)--> DHT
                             |       \----> data sink ----(asio)-----> chunk servers
                             +--> dht_task (tbb thread) --> both sinks

| Component (source) | State | Operations | What is hard | What makes it correct |
|---|---|---|---|---|
| Write-back cache (`cache/cache.hpp`, `cache/basic_cache.hpp`, `synchronization.hpp`, `algo/ValueFactory.hpp`) | `whole_`, `dirty_`, `mutex_map_`, the CV mutexes | `operator()`, `operator[]`, `purge`, `invalidate` | a load inside a critical section; `purge` and `invalidate` without any lock; pointers that do not own; a mutex nobody unlocks | one object per key; no use after free; what is dirty is marked; calls return |
| Metadata sink (`api/aggregator.hpp`, `cache/policy/MetadataOnFlush.hpp`) | the cache over the DHT | lookup, change, purge, write-back | a write-back that overlaps a change or a purge | behaves as a map from names to attributes |
| Data sink (`api/aggregator.hpp`, `cache/policy/DataOnFlush.hpp`) | the cache, `index_map_` | write, read, truncate, erase, flush and purge of a file | asynchronous deposits and retrievals, failure half-way, purge under readers and writers; the arithmetic that cuts a request into chunks | no dirty chunk is forgotten; what was purged can be found; reads see the data |
| Flush control (`fuse/colonyfs_fusexx.cpp`, `.hpp`) | `g_flush_counter`, `root_task` | `flush`, `dht_task::execute` | busy wait and decrement are two steps; a task that throws | slots conserved; bounded flights; flush returns |
| File system operations (`fuse/colonyfs_fusexx.cpp`) | attributes with directory lists | create, mkdir, symlink, chown, unlink, rmdir, rename, getattr, readdir, read, write, truncate | two attributes changed one after the other; rename over something; a new mount; the end of a request in an `int` | a directory lists what exists below it; attributes are valid |
| DHT client (`xmlrpc/harmony.cpp`, `values.hpp`) | one XML-RPC client | `get`, `put`, `set_pair`, `get_pair` | a retry of a call that may have been executed, or may still be; a 16-bit hash of the key; one client for all threads | a put that returned was executed, an entry holds what was put under its key |
| Chunk transfer (`intercom/user_harmony.hpp`, `client_mt.hpp`, `connection.hpp`, `accessor.hpp`) | connections, callbacks | deposit, retrieve | the answer comes after the caller is gone; errors are not passed on | a deposit stores what was cached; an exchange ends |
| Chunk server (`intercom/chunkserver_harmony.cpp`, `server.cpp`, `storage/`) | chunk database, files, swarm entry in the DHT | accept, store, send, join | restart with an empty database; accept loop; join is read-append-write | what was stored is sent back; a server that joined is listed |
| Host choice (`algo/CSScheduler.hpp`) | list of hosts | `SetCSL`, `GetCS` | none | a host of the list |
| Thread pool (`boost/threadpool`) | task queue, two worker counters, target, worker threads, futures | schedule, clear, wait, resize, shutdown, cancel | one notification per task, workers that overtake each other, counters changed in four places, workers that die | a task is executed once; counters agree with the threads; waits and shutdown return |
| Controller (`controller/network_db.cpp`) | multi-index of chunk locations | add, find, invalidate | none that a test would not reach; no program uses it | index by chunk and by host agree |
| Chunk server API, socket scheduler, parsers, programs | no state of their own, or unused | | | |

`PROJECT.json` lists the same components with what is modelled of each, and
under "hazards" 40 places where the code can go wrong in a way a test would
hardly reach, each with the properties about it, or (four of them) with the
reason why there is none.

## 2 Plan

Done, in the order in which the modules were written: the cache, since every
call goes through it; the metadata sink with its refinement; the flush control;
the data sink and its proofs; the directory tree; the bytes of a file; the DHT
client with the joining of a swarm; the chunk server with its clients; the
thread pool; last, the proofs about the bytes of a file and the safety halves of
the liveness properties.

Left, most useful first:

1. **rename and the chunks**: the chunks of a file stay under its old name. It
   needs ByteFile for two files and the key of a chunk, which is computed from
   the file name and its index.
2. ByteFile under the **interleavings** of DataSink. Both keep track of what can
   be lost (`spoilt`, `raced`); together they would say it for each byte.
3. **NetworkDb**, which nothing uses.

Abstract specifications: AttributeStore, AtLeastOnce, ChunkStore, Executor.

## 3 The modules

| Module | EXTENDS or instantiates | Proofs | TLC |
|---|---|---|---|
| WriteBackCache | | | in the two below |
| MetadataSink | WriteBackCache, AttributeStore | MetadataSinkProofs | MCMetadataSink |
| DataSink | WriteBackCache | DataSinkProofs | MCDataSink |
| ByteFile | | ByteFileProofs | MCByteFile |
| FlushControl | | FlushControlProofs | MCFlushControl |
| Namespace | | NamespaceProofs | MCNamespace |
| Harmony | AtLeastOnce | HarmonyProofs | MCHarmony |
| ChunkServer | ChunkStore | ChunkServerProofs | MCChunkServer |
| ThreadPool | Executor | ThreadPoolProofs | MCThreadPool |

The MC modules give the sets. The mutants in the modules (`LeaveWithKey`,
`OverlayShort`, ...) are definitions next to the one they stand for; no
specification uses them.

**WriteBackCache** is the cache alone, a library of actions without Init or
Next; MetadataSink and DataSink EXTEND it and put their policy between its
steps. `whole[k]` says whether `whole_` has no entry, an empty pointer or an
object for `k`; `dirty`, `owner` (of `mutex_map_[k]`) and `cv` (the CV mutexes)
are the other shared variables. A thread has a label `pc`, the key it works on,
the generation `ref` of the object its pointer refers to and a buffer. Objects
under one key are told apart by a generation, content is a version number that
every modification increases. All pointers have a deleter that does nothing
(`ValueFactory.hpp`), so an object lives exactly as long as `whole_` holds it,
and a use of a freed one reads `Garbage`. Each map operation, mutex operation
and policy call is a step:

| Code | Actions |
|---|---|
| `operator()` | CallLookup, then LookupHit, or LookupMiss (mutex kept), PreRead.., InsertLoaded (CV lock, insert); Use is the caller with its pointer |
| `operator[]` | CallUpdate, UpdateHit or UpdateMiss, SetDirty (which may insert an empty pointer), Modify is the caller |
| `purge(key)` | CallPurge, EraseWhole, EraseDirty, OnErase.. |
| `invalidate(key)` | CallInvalidate, ReadDirtyHit or ReadDirtyMiss, the policy's OnFlush, EraseFlushed |

**MetadataSink** adds the DHT and MetadataOnFlush: PreRead is a `get` that may
find nothing or fail (`PreReadFails`, the exception path of both), OnErase puts
`""`, OnFlush serialises and then puts in two steps, and the put may throw. (One
of OnErase that throws leaves the call through libfuse, which ends the program.)
A put is executed when it returns, but also any number of times before that, as
often as its answer is lost (`RetryPut`), and again at any time after
(`LatePut`, of the puts in `sent`). Handlers are libfuse threads, Tasks run
`dht_task`; `tree` is the handler that holds the tree lock for writing. A purge
by rmdir or rename is `Purge`, without a pointer to what is purged; unlink is
`Unlink`, which takes the attribute, `UnlinkDenied` or `UnlinkPurges`, the steps
of the purge, and `EraseData`, with the pointer it has kept all the time. What
these calls do to the directory, and rename to the new name, are calls of their
own on other keys. The history variable `raced` collects the keys for which a
flush overlapped a change or a purge, and those to which a late put has brought
another value back: no code excludes either, and the promises below are void for
these keys. It does not excuse more: it is set there and nowhere else.

**AttributeStore** is what the metadata sink promises: create, modify and
remove attributes, with caches and tasks out of sight. `MetadataSink!Promise`
instantiates it with the refinement mapping `Value`: a key is Missing while it
is being purged, else what is cached, else what the DHT has.

**FlushControl** is `flush` statement by statement and `dht_task::execute` as
one step that ends well or throws. `met` remembers the flushes that overlapped.

**DataSink** is the chunks of one file. On top of the cache it has `index`
(`index_map_[file]`), the task's loops (`stage`, `next`), and the wire:
deposits as a bag of messages (two deposits of the same content are two),
retrievals, what each host stores, the host the DHT names (`loc`). Deposits are
serialised on the io_service thread (`SendDeposit`), so from whatever the
pointer refers to by then; they may be lost, in which case nobody is told. An
exception out of OnFlush ends the task. PreRead may throw whether the chunk has
a location or not (`PreReadFails`: the DHT fails, or the host is not resolved).
An exception that leaves a read ends the call; in the program it may end the
process.

**ByteFile** is the same file byte by byte, for calls made one after the other.
`Touched`, `ChunkStart`, `Delta`, `BufferStart` are the arithmetic of
`aggregator::copy`; a written byte is `<<write, position in the buffer>>`, so
that a byte at the wrong place is told from the right one. A chunk has data in
the cache (`cached`), on a chunk server (`remote`), or is being filled by a
retrieval that has not been answered (`filling`). A file begins with `create`,
whose write of no byte creates, marks and indexes chunk 0; `Recreate` is unlink
and create, which finds the chunks of the old file. `file` is what the calls
have written; `plain` is whether they kept to what PlainFilesAreRead covers.
What the code loses is named, one operator per cause, and collected in
`spoilt` by position:

| Operator | What happens | Code |
|---|---|---|
| Crossing | a request of at most CHUNK_SIZE bytes that crosses the end of a chunk is written into the first chunk beyond its end | `api/aggregator.hpp:360` |
| Overrun | a longer one fills its last chunk from behind the buffer | `api/aggregator.hpp:360` |
| Forgotten | a chunk that is stored and not cached starts anew | `cache/cache.hpp:104` |
| Overtaken | an answer that is still to come replaces what was written | `intercom/user_harmony.hpp:144` |
| Wrapped | the end of the request does not fit into an int | `fuse/colonyfs_fusexx.cpp:761` |

**Namespace** is the directory tree. `attr` is the attribute of every path as
the metadata sink presents it, which MetadataSink and AttributeStore justify;
`stored` is what the DHT has of it and survives a new mount. Directory lists
are counts of names (only readdir shows an order). Calls are single steps
(section 5); a flush is two, Serialise and Store, and any call may come
between. `loose` collects the directories whose listing the code does not keep
exact: rmdir of a directory with something in it, rename of one, rename over an
existing name, and the parents of what a new mount finds in the DHT. `broken`
is set when the end iterator of a list was erased; nothing is said after that.

**Harmony** is `get` and `put` of the DHT client, and `chunkserver_harmony::init`
on top of them. A call goes to the service under its 16-bit `Hash` (`Request`),
is executed or refused (`Lookup`, `Store`, `Refuse`), and the answer is judged
in the order of the code (`Outcome`: the DHT's error, the service's, the type
of the archive). `Retry` is the `goto` after a transport error, from which the
client cannot tell a lost request from a lost answer; a request that was given
up stays in `late` and may be executed after anything else (`ExecuteLate`).
`Join`, `JoinRead` and `JoinStored` are the read, append and write of a server's
start. `raced` is the hosts whose join overlapped another one or a late put of
one, or that were overwritten by a server whose read failed for another reason
than E_NOT_FOUND and which took itself for the first.

**AtLeastOnce** is what is left of a map: an entry changes by puts of its own
key, a put that returned was applied, maybe more than once, and maybe again
after it has returned. It is instantiated for the keys that share their hash
with no other (`Alone`).

**ChunkServer** is a chunk server and its clients, one step per asio handler:
on the client from the resolved name over the addresses (`Connected`,
`ConnectFails`), the command and the body to the last read; on the server
`Accept`, `ProcessCmd`, `DisplayData` or `SendData`, `End`, `ReadFails`. Both
ends of an exchange share a `link` that delivers in order until it is `Reset`.
`database` is `uid_map_`, in memory; `disk` the files, which survive a stop.
`AcceptFails` leaves the server running and deaf, as `server.cpp` does.

**ChunkStore** is its promise. A client asks for one thing (`request`), and a
request that has reached the server is processed once: a deposit is applied
whole to the chunk it names, a retrieval is answered with the content of the
chunk it names at that moment, or refused if that is not held, and nothing else
ends a request but the loss of its connection. A stop leaves nothing held and no
connection. The mapping takes as `held` the files of the chunks that are in the
database and as `open` the exchanges the server is not done with; so a server
that answers with another chunk, drops a request on a connection that holds,
refuses what it has, or comes back with its old database is no ChunkStore. (TLC
finds each of these four violated when it is put into ChunkServer.)

**ThreadPool** is `pool_core` with its workers. A critical section of
`m_monitor` is a step, and so is each part of a task's future that is done
without it. A worker is at "fetch" (about to look at the queue), "waiting" or
"notified" (in the condition variable), "fetched", "calling", "clearing" (in a
task), "leaving" or "dying" (in the two ends of a worker), or "gone". Callers
sleep in `wait` and in the shutdown. The policies of the template are a
constant, and the initial state picks one.

**Executor** is its promise: a task is executed once, or removed while pending.

## 4 The runs

| Run | Instance | Properties | Shows |
|---|---|---|---|
| metadata_sink | 1 key, 2 calls and 2 tasks at a time, 5 in all | TypeOK, OnlyUnlinkDangles, NoNullEntry, UnflushedIsDirty, SecondLoadNeedsRace, InsertNeverReplaces, KeepsAttributes, CallsReturn | under the tree lock no call frees what another one uses, and nothing is null; without a race or a late put nothing is lost, no call blocks, and the sink implements AttributeStore |
| flush_control | 3 threads, 2 slots, 5 flushes | TypeOK, SlotConservation, InFlightBound, SharedRootNeedsOverlap, LostSlotsStopFlush, FlushReturns | slots are conserved, the overdraft is bounded by the other threads, flush hangs only when all slots were lost |
| data_sink | 1 chunk, 1 call and 2 tasks at a time, 2 hosts, 3 in all | TypeOK, LocationFollowsDeposit, PurgedIsLocated, DirtyIsIndexed, TasksEnd | the DHT names hosts that got a deposit; a purged chunk has a location whichever task fails half-way; the index has every dirty chunk that was not written under a task; a reader blocked for ever does not block a task |
| byte_file | chunks of 2 bytes, requests up to byte 6, ints below 6, 4 calls | TypeOK, WrittenAreKept, PlainFilesAreRead | the mishaps of section 3 are the only ways to lose a written byte; a file written from the beginning on in requests within chunks is read without the program ending, flushed or not, while every retrieval is answered before its bytes are taken |
| namespace | 2 names, 2 levels, 2 users, 6 calls and mounts | TypeOK, ListingExact, StoredExists, OnlyLinksInvalid | lists and attributes agree outside `loose`; removed names stay removed; only links have the attribute getattr asserts no attribute to be |
| harmony | 1 client, 2 chunk servers, 4 keys of which 2 collide, 3 calls, 1 retry | TypeOK, KeepsEntries, JoinedAreListed | puts are at least once and nothing better; a server that joined outside a race is listed |
| chunk_server | 2 exchanges, 2 chunks, 2 addresses, 2 faults | TypeOK, KeepsChunks, ExchangesComplete | deposits and retrievals are atomic and of the chunk that was asked for, only a reset loses one, a stop forgets all; an exchange ends unless it is reset or the server is deaf |
| thread_pool | 2 tasks of which 1 with a future, 3 threads, sizes 0 to 2, 3 calls, 3 pairs of policies | TypeOK, CountersAgree, WakeupsCoverQueue, ShutdownDrains, ExecutedOnce, TasksAreServed, WorkersEnd, WaitsReturn | no task, wakeup or worker is lost, and waits return |
| metadata_sink_unlink | as metadata_sink, 3 in all | UnlinkReadsItsFile | violation, section 7 |
| data_sink_null, data_sink_unfilled, data_sink_reload | one of everything, 3, 3 and 4 calls | one each | violations, section 7 |

Why the bounds are enough.

- *Sinks.* Keys of a sink share nothing but the tree lock, so one key has every
  interleaving a key can have, and the theorems of section 6 are about any
  number of them; two threads of each kind are what a race needs, and five calls
  are enough for load, change, flush, purge, and a second load that meets a
  race. In DataSink two tasks on one chunk need three calls (a write and two
  flushes), and so does a reader that loads a chunk for the second time among
  them: data_sink begins where the chunk may have been loaded and purged before
  (`LoadedBefore`). The runs that end in violations begin without it, and
  data_sink_reload takes the four calls of the whole history (load, write,
  flush, load). Two calls at a time on one chunk, which exclude each other by
  its mutex but for the last steps of a write, and an index of several chunks
  are in the theorems.
- *Flush control.* With three threads and two slots both the overdraft
  (`counter < 0`) and the loss of all slots occur.
- *ByteFile.* Three chunks are the least with a middle one; requests begin and
  end at every position, so they fall into a chunk, end with it, cross one and
  two ends. A request that ends at byte 6 does not fit into the "int" any more.
  Four calls are two writes, a truncation or a re-creation, and a read that
  loads; flushes and answers come in between and are not counted.
- *Namespace.* Two levels are the least that have a directory whose parent is
  not the root; renaming a directory that is not empty, and creating its old
  name again, takes four calls.
- *Harmony.* Two servers race for the list, or one is overtaken by its own late
  put; the attribute of one file and the location of a chunk share their hash,
  and the hash of the swarm is the largest, 65535.
- *ChunkServer.* Two exchanges are a deposit and a retrieval, or two deposits,
  of one chunk or of two; two faults let a client meet a server that has been
  stopped and started while its connection was reset.
- *ThreadPool.* With three threads a worker that dies is replaced while another
  one is excessive; two tasks are what a lost wakeup needs, sizes 0 to 2 let the
  pool grow, shrink and run dry.

Calls are bounded by `MaxCalls`, `MaxFlushes`, `MaxOps`, `MaxTransfers`,
`MaxTries`, `MaxFaults` and `MaxThreads`, which appear only in the guards that
start a call, a try, a fault or a thread. The bounded calls are also why the runs do
not check deadlock; what must go on is said by the liveness properties.

Every property of a passing run has a mutant in `PROJECT.json`: a plausible bug
in one definition that TLC finds by that property.

What is *not* promised is as telling. The properties that name `raced`, `loose`
or `spoilt` fail without that part: a flush that overlaps an unlink brings the
name back, one that overlaps a write drops the dirty mark of a newer version,
a write that crosses the end of a chunk is lost behind it, two servers that
start together are one in the list, and all of it without any message.

## 5 Environment and fairness

Outside of the repository, modelled from how the code uses it:

- *libfuse* runs unlink, rmdir and rename under the write side of its tree lock
  and all other calls under the read side (`TreeReadable`, `TreeWritable`).
  NoNullEntry holds in the metadata sink by this alone: its mutant lets a call
  purge that shares the lock. Tasks take no part in it, and the data sink's
  purge runs in a task, which is why NoNullEntry fails there.
- *The kernel* looks a name up before it changes it (`NameLookedUp`, `Resolves`),
  serialises changes of one directory, and refuses to create what exists,
  remove what does not, or rename a directory below itself. It asks for nothing
  behind the end of a file.
- *The DHT* stores a value per key; a put of `""` deletes (this is how `OnErase`
  uses it). In MetadataSink it executes every put at least once, as Harmony and
  AtLeastOnce have it; what is left out there is that two names can share a
  16-bit hash, and with it their value. Namespace and DataSink take it as a map:
  there a put is executed once, when it returns. So StoredExists (a removed name
  stays out of the DHT) is about a DHT without late puts: one that comes back
  after the purge would break it, as it sets `raced` in MetadataSink.
- *The network* delivers a connection in order until it is reset. The kernel of
  the server completes connections before the server accepts them.
- *A mutex* is fair enough for weak fairness: calls are bounded, so no thread is
  overtaken for ever. A condition variable has no spurious wakeup in the
  models; the loops around every wait look again in any case, and
  `WakeUp` and `Recheck` are those loops.

Fairness is weak, per thread: a thread that is inside a call, a spawned task,
the io_service threads, both ends of an exchange, the workers of a pool and a
caller that waits for them go on taking steps (they are ordinary threads on
which nothing else waits); nobody has to begin a call, and no fault has to
happen. That a task of a pool ends is assumed, it is the user's. Waiting for
the DHT is a step that is eventually taken because `harmony` retries for ever.
Waiting for a mutex, for a CV mutex or for a slot is a guard, and a thread for
which it stays false stays where it is. Harmony, ByteFile and Namespace state
safety only.

## 6 What is proved

For any sets of keys, threads, users, paths, hosts and tasks, any file system
and any bounds, from the named assumptions of the modules: that the sets are
disjoint or finite where the code has them so (`CacheAssumption`,
`FlushAssumption`, `DataAssumption`, `HarmonyAssumption`, `PoolAssumption`),
that special values are no ordinary ones (`MissingAssumption`, `NoneAssumption`,
`ChunkServerAssumption`), that a chunk is not empty and the bounds are numbers
(`ByteFileAssumption`), that a path is determined by its parent and its leaf
(`NamespaceAssumption`), and that chunks have numbers (`DataAssumption`), as
hashes do, below 2^16 (`HarmonyAssumption`).

| Module | Theorem | Property |
|---|---|---|
| MetadataSinkProofs | TypeCorrect | TypeOK |
| | OnlyUnlinkFollowsFreed, NothingIsNull | OnlyUnlinkDangles, NoNullEntry |
| | NeverReplaced | InsertNeverReplaces |
| | DirtyMarksAreKept | UnflushedIsDirty |
| | LoadedAtMostOnce | SecondLoadNeedsRace |
| | CallsCanGoOn | (NobodyWaitsInVain) |
| | ImplementsAttributeStore | KeepsAttributes |
| FlushControlProofs | TypeCorrect | TypeOK |
| | SlotsAreConserved, InFlightIsBounded | SlotConservation, InFlightBound |
| | LostSlotsAreLost | LostSlotsStopFlush |
| | RootsAreShared | SharedRootNeedsOverlap |
| | SpinningEnds | (SpinningHasReason) |
| DataSinkProofs | TypeCorrect | TypeOK |
| | DirtyChunksAreIndexed | DirtyIsIndexed |
| | LocationsFollowDeposits | LocationFollowsDeposit |
| | PurgedChunksAreLocated | PurgedIsLocated |
| | WritersHoldTheirChunk | (WriterHolds) |
| | NullsComeFromRaces | (NullNeedsRace) |
| ByteFileProofs | TypeCorrect | TypeOK |
| | CopyIsExact | (what `copy` does to each byte of a chunk) |
| | WrittenBytesAreKept | WrittenAreKept |
| | PlainFilesAreReadable | PlainFilesAreRead |
| NamespaceProofs | TreeTypeCorrect | TypeOK |
| | ListingIsExact | ListingExact |
| | NothingComesBack | StoredExists |
| | LinksAloneAreInvalid | OnlyLinksInvalid |
| HarmonyProofs | TypeCorrect | TypeOK |
| | ImplementsAtLeastOnce | KeepsEntries |
| | JoinedServersAreListed | JoinedAreListed |
| ChunkServerProofs | TypeCorrect | TypeOK |
| | ImplementsChunkStore | KeepsChunks |
| | DepositsStayTraced | (DepositsAreTraced) |
| ThreadPoolProofs | TypeCorrect | TypeOK |
| | ThreadsAreCounted | CountersAgree |
| | NoWakeupIsLost | WakeupsCoverQueue |
| | ShutdownLeavesNothing | ShutdownDrains |
| | WaitersAreTold | (SleepersAreWoken) |
| | NobodySleepsThroughTheStop | (StopIsHeard) |
| | ImplementsExecutor | ExecutedOnce |

A formula in parentheses is a state formula of the component's module that no
run has: TLC was run on it with the constants of the component's run before it
was proved, and the run itself keeps the stronger liveness property it belongs
to.

The inductive invariants, each a conjunction of named parts in the component's
module, and why they are needed. TLC was run on each before it was proved.

- `ObjectInv` (MetadataSink): a handler holds the key's mutex from the lookup
  to the insert and from the lookup to the dirty mark (`MutexHeld`), nothing is
  cached where a load or a purge is under way (`AbsentInBetween`), a purging
  call is alone (`PurgeExcludes`), and who has a pointer is inside a call
  (`PointersSet`). So a purge finds nobody else with a pointer; only the purging
  call itself can have one, and unlink has. Nothing stronger holds
  (metadata_sink_unlink).
- `ContentInv` (MetadataSink), for keys that were not raced: what a task
  carries is what is cached (`FlushCarriesCached`), what a load carries is what
  the DHT has (`LoadCarriesStored`), a writer has marked its key
  (`WriterMarked`), and a key that was loaded and purged has left the DHT
  (`LoadedThenPurged`), so that it is never loaded again. Without the first,
  erasing the dirty mark could not be shown harmless; without the last, neither
  could the CV mutex.
- The refinement of AttributeStore: a step of MetadataSink leaves `Value`
  alone, or creates (UpdateMiss), modifies (Modify) or removes (EraseWhole) the
  value of one key, or touches a raced key (`QuietStep`, `ChangingStep`,
  `NextImplements`). A put that is retried changes what the DHT has, not the
  value: the key is cached or being purged, unless it is raced.
- `SlotInv` (FlushControl): flushes are in one place at a time, slots are
  conserved, and `counter >= |Passed| + 1 - |Callers|` (`OverdraftBound`), which
  bounds what the gap between busy wait and decrement can cost. `RootInv`: the
  global root is that of the latest flush, and a flush that is inside and not
  the latest has met the latest.
- `DataInv` (DataSink) has three parts. `WriterInv`: a chunk that no task ran
  over keeps its object and its mark under its writer, and only then its index
  (`WriterHolds`). `LocateAfterDeposit`: a deposit leaves a trace (`Deposited`
  never shrinks), and a task names the host of one. `LocatedInv`: a task that is
  past a chunk, in its first loop or in the second, knows it located
  (`FlushedIsLocated`), and so is a chunk without a dirty mark
  (`CleanIsLocated`); both are needed at once, since either task may be the one
  that erases the mark and the other the one that purges.
- `NullNeedsRace` (DataSink) bounds the finding data_sink_null: a writer that no
  task ran over has its object from the lookup to the dirty mark
  (`WriterHolds`), so that the subscript finds one.
- `KeptInv` (ByteFile): data have no gap, and of every position that was written
  and is not spoilt (`Kept`) the cached chunk has the byte unless a retrieval is
  to fill it, the chunk server has it unless the chunk is dirty, and a dirty
  chunk is not being filled. The second is why a flush may drop a chunk, the
  third why an answer that comes late does no harm. `PlainInv`: a cached chunk is
  dirty or stored, so that a flush loses none; a plain file has no gap, nothing
  of it is being filled, and all chunks up to that of the end are cached or
  stored, the empty one behind a full last chunk and that of an empty file
  included. With KeptInv after the loads of a read (`PlainRead`), each chunk has
  the bytes that read_from_chunk asserts. What a step does to
  one byte is CopyIsExact. It rests on the closed form of `BufferStart`, a
  recursive function over the chunks of a request, shown without an induction.
  A recursive function is some function that satisfies its equation; the closed
  form satisfies it, so one exists, and `BufferStart` does as well
  (`BufferStartUnfolds`). If it differed from the closed form for a chunk, it
  would do so for a least one (`LeastElement`, from the library's theorem that <
  is well-founded on the numbers), which is not the first, and the equation
  leads from the one before to it.
- `TreeInv` (Namespace): ListingExact, and its converse `ListedExist`, that a
  list names existing paths only (a directory that is renamed takes its list
  with it, so an empty one must list nothing), that no directory is in the DHT
  (`DirectoriesUnstored`: after a mount only the root is a directory), and that
  what a task is about to store exists unless it was purged meanwhile
  (`FlightsExist`). `LinkInv` says of the DHT and of the flights what
  OnlyLinksInvalid says of the attributes.
- `SuccessMeansApplied` (Harmony): an answer E_SUCCESS to a put means that it
  was executed, by this try or an earlier one; it is all that KeepsEntries needs
  besides the types. `JoinInv`: a server outside `raced` joins alone and what is
  late is its own put (`JoinsAlone`); whatever may still be stored lists whoever
  is listed (`PutsList`), and so does whatever was read (`ReadsList`).
- `ExchangeInv` (ChunkServer): how far the ends can be apart, and that what is
  in the database has a file; without it an answer could be given twice, or a
  deposit applied after its connection was let go. With `TraceInv` below it says
  why the server is done with a request only by processing it or with its
  connection.
- `PoolInv` (ThreadPool): threads are numbered without gaps (`Known`), a worker
  has a task exactly in its second half (`HasTask`), a task is in one place
  (`OnePlace`), and after the policy's wait nothing is left (`Drained`), which
  rests on CountersAgree: a caller that sees no active worker knows that no
  worker has a task.

What liveness needs of safety is proved where it is more than a guard:

- CallsReturn: `NobodyWaitsInVain`. Every way out of the cache releases the
  mutex of the key (`MutexOwned`), so that whoever waits for the mutex of a key
  that was not raced waits for a call that is not waiting itself. `CanGoOn` is
  written as a state formula; on the instance TLC confirmed that it is true
  exactly where the step of the thread is enabled.
- FlushReturns: `SpinningHasReason`, from SlotConservation: where no slot is
  free and not all are lost, one is held.
- ExchangesComplete: `DepositsAreTraced`, from ExchangeInv and `TraceInv`, which
  says that connections live as long as the server runs, and that a deposit's
  connection is closed by its processing or by a reset only.
- WaitsReturn: `SleepersAreWoken`. A caller goes to sleep only where something
  is active or pending, pending tasks mean woken workers (WakeupsCoverQueue),
  and a worker that stops being active tells the callers in the same critical
  section. `clear` tells nobody, and need not.
- WorkersEnd: `StopIsHeard`. After terminate_all_workers the target is 0, so
  that a worker that looks for work counts as one too many (CountersAgree) and
  leaves.

Model-checked only: liveness itself (CallsReturn, FlushReturns, TasksEnd,
ExchangesComplete, TasksAreServed, WorkersEnd, WaitsReturn), which with fairness
is out of the prover's reach. TasksEnd has no safety half to speak of: a task
takes no mutex. Every invariant, action property and refinement of the passing
runs is a theorem.

## 7 Findings

Each is a run that TLC ends with a counterexample, against a statement of the
repository.

| Run | Where | What |
|---|---|---|
| metadata_sink_unlink | `fuse/colonyfs_fusexx.cpp:706` | unlink purges the attribute (line 703, "Delete attribute.") and then takes from it the size of the data to erase ("Delete the binary data."): its pointer does not own the object, which the purge has freed; on every unlink, without any other thread |
| data_sink_null | `cache/basic_cache.hpp:67` | a task purges a chunk between the lookup and the dirty mark of a write: the subscript stores an empty pointer, which the assertion at lines 119-120 of the same file excludes |
| data_sink_unfilled | `cache/policy/DataOnFlush.hpp:52` | the retrieval is posted and not awaited: the reader gets an empty chunk, contrary to the assertion at `api/aggregator.hpp:409` |
| data_sink_reload | `cache/cache.hpp:78` | the CV mutex of a key is never unlocked: load, write, flush, load blocks for ever, without any overlap of a flush and a write |

Observed while modelling, part of the models, and without a run of their own:

- A new link has link count 0 (`fuse/colonyfs_fusexx.cpp:608`), contrary to the
  assertion of getattr at lines 253-256; OnlyLinksInvalid says that it is the
  only way to such an attribute.
- rename erases `list.end()` if the old name is not listed (line 520), which it
  is not after a new mount; the mount begins with an empty root directory, so
  that what the DHT has is found by path and not listed (line 35). Both are
  `broken` and `loose` in Namespace.
- The five mishaps of ByteFile (section 3). A chunk without a location makes
  read and truncate throw, which nobody catches.
- A put that was retried can store its old value over a newer one, and two
  names with one hash share an entry (`xmlrpc/harmony.cpp:64`, `:240`).
- Two servers that join together, or one whose read of the list times out,
  drop others from the list (`intercom/chunkserver_harmony.cpp:45-57`).
- After one accept error a chunk server serves nobody, and clients go on
  connecting to it: deposits are lost without an error, retrievals do not end
  (`intercom/server.cpp:68`). After a restart it answers for no chunk.
- Thread pool: when the pool shrinks several workers can see the excess before
  the first of them has left, and all of them leave; a worker that dies during
  it sets the target to the number of workers there are; a thread that could not be created is not
  tried again; the executing flag of a future stays set after an exception, and
  its `get()` never returns.

## 8 What is not modelled

- In the data sink the content of chunks is a version number; ByteFile has the
  bytes, but no interleaving of calls and tasks and no lost deposit.
- chmod and utimens, which set fields no other call reads, and that rename
  leaves the chunks of a file under its old name.
- `purge()` and `invalidate()` of a whole cache, which no code calls.
- Corruption of a `std::map` that two threads change under different mutexes:
  there are no outcomes to enumerate, single map operations are taken as
  atomic. Likewise the XML-RPC client that all threads share.
- The wire format, the paths of files below a chunk server's prefix, and
  messages of several threads on one socket, which the code does not have.
- The controller's database, which no program uses; the socket scheduler, a
  sketch nothing calls, but for the thread pool it owns; parsers, start-up and
  logging.

## Running

    tlc -workers 2 -config MCMetadataSink.cfg MCMetadataSink.tla
    tlapm MetadataSinkProofs.tla

and likewise for the other MC modules, configurations and proof modules. Each
run takes at most a few minutes, and so does each proof module.
