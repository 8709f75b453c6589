---------------------------- MODULE MetadataSink ----------------------------
(***************************************************************************)
(* aggregator<attribute_value>: the write-back cache with the policy       *)
(* MetadataOnFlush, over the attribute values kept in the DHT.             *)
(*                                                                         *)
(* File system calls look attributes up, modify them and purge them;       *)
(* a dht_task writes a dirty attribute to the DHT without any lock.  The   *)
(* DHT is what Harmony makes of it: a put is executed when it returns, may *)
(* be executed before, and may be executed again at any time after.        *)
(***************************************************************************)
EXTENDS WriteBackCache

CONSTANT Missing      \* the DHT has no value for the key

ASSUME MissingAssumption == Missing \notin Contents

VARIABLES dht,        \* the value the DHT stores for a key
          sent,       \* the puts that were sent, as <<key, value>>
          tree,       \* handler that holds libfuse's tree lock for writing
          raced       \* history: keys whose flush overlapped a change of theirs,
                      \* or that an old put came back to

dhtVars == <<dht, sent>>
vars == <<cacheVars, dhtVars, tree, raced>>

-----------------------------------------------------------------------------
(***************************************************************************)
(* A flush of k overlaps a call that changes k: from the moment invalidate *)
(* has found the object until it has erased the dirty mark, some call      *)
(* holds a pointer for writing or is purging the key.  Nothing in the code *)
(* excludes it; raced remembers it.                                        *)
(***************************************************************************)
Flushing(t) == pc[t] \in {"onflush", "store", "eraseflushed"}
Changing(t) == pc[t] \in {"setdirty", "modify", "erase", "erasedirty", "onerase"}
Overlap(k) == \E t, h \in Threads :
  /\ key[t] = k /\ Flushing(t)
  /\ key[h] = k /\ Changing(h)

Observe == raced' = raced \cup {k \in Keys : Overlap(k)'}

-----------------------------------------------------------------------------
(***************************************************************************)
(* libfuse runs unlink, rmdir and rename under the write side of its tree  *)
(* lock, and every other call under the read side: a call that purges      *)
(* excludes all other calls, but not the tasks.                            *)
(***************************************************************************)
TreeReadable == tree = Nobody
TreeWritable == TreeReadable /\ \A h \in Handlers : At(h, "idle")

\* The kernel has looked a name up, through getattr, before it asks for any
\* change of it: what the DHT holds under the name is cached by then.
NameLookedUp(k) == whole[k] = "live" \/ dht[k] = Missing

\* Mutant of Purge: a call that shares the tree purges, say read or release.
PurgeShared(h, k) ==
  TreeReadable /\ CallPurge(h, k) /\ Count /\ UNCHANGED <<dhtVars, tree>>

Lookup(h, k) ==
  TreeReadable /\ CallLookup(h, k) /\ Count /\ UNCHANGED <<dhtVars, tree>>
Update(h, k) ==
  /\ TreeReadable /\ NameLookedUp(k)
  /\ CallUpdate(h, k) /\ Count /\ UNCHANGED <<dhtVars, tree>>
\* rmdir, and the end of rename: the caller has no pointer to the attribute.
Purge(h, k) ==
  TreeWritable /\ CallPurge(h, k) /\ Count /\ tree' = h /\ UNCHANGED dhtVars
\* unlink of a file the kernel has found: it takes the attribute first.
Unlink(h, k) ==
  /\ TreeWritable /\ whole[k] = "live"
  /\ CallUpdate(h, k) /\ Count /\ tree' = h /\ UNCHANGED dhtVars
Invalidate(t, k) ==
  CallInvalidate(t, k) /\ Count /\ UNCHANGED <<dhtVars, tree>>

\* unlink returns -EACCES; the attribute is marked dirty all the same.
UnlinkDenied(h) ==
  /\ At(h, "modify") /\ tree = h
  /\ Leave(h)
  /\ tree' = Nobody
  /\ UNCHANGED <<maps, locks, writes, calls, dhtVars>>

\* unlink purges the file and keeps the pointer to its attribute.
UnlinkPurges(h) ==
  /\ At(h, "modify") /\ tree = h
  /\ Goto(h, "erase")
  /\ UNCHANGED <<maps, locks, key, ref, buf, writes, calls, dhtVars, tree>>

\* The end of unlink: it reads the size out of the attribute, whose object
\* the purge has freed, and erases that many bytes of data.
EraseData(h) ==
  /\ At(h, "erasedata")
  /\ Leave(h)
  /\ tree' = Nobody
  /\ UNCHANGED <<maps, locks, writes, calls, dhtVars>>

-----------------------------------------------------------------------------
(***************************************************************************)
(* PreRead: harmony::get.  It throws key_missing_error, and dht_error also *)
(* for a key that has a value.                                             *)
(***************************************************************************)
PreReadFound(h) ==
  /\ At(h, "preread") /\ dht[key[h]] # Missing
  /\ PreReadReturns(h, dht[key[h]])
  /\ UNCHANGED dhtVars

PreReadFails(h) == PreReadThrows(h) /\ UNCHANGED dhtVars

(***************************************************************************)
(* harmony::put sends a request again whenever the answer does not arrive. *)
(* Each of the requests may have been executed, or may still be.           *)
(***************************************************************************)
Put(k, v) ==
  /\ dht' = [dht EXCEPT ![k] = v]
  /\ sent' = sent \cup {<<k, v>>}

\* purge returns.  This ends the call, unless it is unlink.
PurgeReturns(h) ==
  IF ref[h] = 0
  THEN Leave(h) /\ tree' = Nobody
  ELSE Goto(h, "erasedata") /\ UNCHANGED <<key, ref, buf, tree>>

\* Mutant of OnErase: the DHT keeps the value.
OnEraseKept(h) ==
  /\ At(h, "onerase")
  /\ PurgeReturns(h)
  /\ UNCHANGED <<maps, locks, writes, calls, dhtVars>>

\* OnErase: the value "" is put, which deletes the value.
OnErase(h) ==
  /\ At(h, "onerase")
  /\ Put(key[h], Missing)
  /\ PurgeReturns(h)
  /\ UNCHANGED <<maps, locks, writes, calls>>

\* OnFlush, first half: get_value serialises the object.
Serialise(t) ==
  /\ At(t, "onflush")
  /\ buf' = [buf EXCEPT ![t] = IF Alive(t) THEN mem[key[t]] ELSE Garbage]
  /\ Goto(t, "store")
  /\ UNCHANGED <<maps, locks, key, ref, writes, calls, dhtVars>>

\* OnFlush, second half: the DHT stores what was serialised.
Store(t) ==
  /\ At(t, "store")
  /\ Put(key[t], buf[t])
  /\ Goto(t, "eraseflushed")
  /\ UNCHANGED <<maps, locks, key, ref, buf, writes, calls>>

\* put throws dht_error or key_missing_error, which leaves execute(): the
\* dirty mark stays.
StoreThrows(t) ==
  /\ At(t, "store")
  /\ Leave(t)
  /\ UNCHANGED <<maps, locks, writes, calls, dhtVars>>

\* A request is executed, but its answer is lost: the thread sends another.
RetryPut(t) ==
  /\ \/ At(t, "store") /\ Put(key[t], buf[t])
     \/ At(t, "onerase") /\ Put(key[t], Missing)
  /\ UNCHANGED <<cacheVars, tree>>

\* A request that was given up is executed after others: an old value is
\* back, and nobody knows.
LatePut(k, v) ==
  /\ <<k, v>> \in sent /\ v # dht[k]
  /\ dht' = [dht EXCEPT ![k] = v]
  /\ raced' = raced \cup {k}
  /\ UNCHANGED <<cacheVars, sent, tree>>

-----------------------------------------------------------------------------
Init ==
  /\ CacheInit /\ cv = {}
  /\ dht \in [Keys -> {Missing, Earlier}]
  /\ sent = {}
  /\ tree = Nobody
  /\ raced = {}

CacheStep(h) ==
  /\ \/ LookupHit(h) \/ LookupMiss(h) \/ InsertLoaded(h) \/ Use(h)
     \/ UpdateHit(h) \/ UpdateMiss(h) \/ SetDirty(h)
     \/ tree # h /\ Modify(h)
     \/ EraseWhole(h) \/ EraseDirty(h)
  /\ UNCHANGED <<dhtVars, tree>>

HandlerStep(h) ==
  \/ CacheStep(h)
  \/ (PreReadFound(h) \/ PreReadFails(h)) /\ UNCHANGED tree
  \/ UnlinkDenied(h) \/ UnlinkPurges(h) \/ EraseData(h)
  \/ OnErase(h)

TaskStep(t) ==
  /\ \/ (ReadDirtyHit(t) \/ ReadDirtyMiss(t) \/ EraseFlushed(t)) /\ UNCHANGED dhtVars
     \/ Serialise(t) \/ Store(t) \/ StoreThrows(t)
  /\ UNCHANGED tree

Start ==
  \E k \in Keys :
    \/ \E h \in Handlers : Lookup(h, k) \/ Update(h, k) \/ Purge(h, k) \/ Unlink(h, k)
    \/ \E t \in Tasks : Invalidate(t, k)

Next ==
  \/ /\ \/ Start
        \/ \E h \in Handlers : HandlerStep(h)
        \/ \E t \in Tasks : TaskStep(t)
        \/ \E t \in Threads : RetryPut(t)
     /\ Observe
  \/ \E p \in sent : LatePut(p[1], p[2])

(***************************************************************************)
(* Every thread that is inside a call keeps running; nobody has to make    *)
(* another call.  (The DHT answers in the end: harmony retries for ever.)  *)
(***************************************************************************)
Fairness ==
  /\ \A h \in Handlers : WF_vars(HandlerStep(h) /\ Observe)
  /\ \A t \in Tasks : WF_vars(TaskStep(t) /\ Observe)

Spec == Init /\ [][Next]_vars /\ Fairness

-----------------------------------------------------------------------------
Labels == {"idle", "lookup", "preread", "cvlock", "use", "update", "setdirty",
           "modify", "erase", "erasedirty", "onerase", "erasedata", "readdirty",
           "onflush", "store", "eraseflushed"}

TypeOK ==
  /\ whole \in [Keys -> {"absent", "null", "live"}]
  /\ gen \in [Keys -> Nat]
  /\ mem \in [Keys -> Contents]
  /\ dirty \subseteq Keys
  /\ owner \in [Keys -> Threads \cup {Nobody}]
  /\ cv \subseteq Keys
  /\ pc \in [Threads -> Labels]
  /\ key \in [Threads -> Keys \cup {NoKey}]
  /\ \A t \in Threads : key[t] = NoKey <=> pc[t] = "idle"
  /\ ref \in [Threads -> Nat]
  /\ buf \in [Threads -> Contents]
  /\ writes \in Nat
  /\ calls \in 0..MaxCalls
  /\ dht \in [Keys -> Contents \cup {Missing}]
  /\ sent \subseteq Keys \X (Contents \cup {Missing})
  /\ tree \in Handlers \cup {Nobody}
  /\ raced \subseteq Keys

(***************************************************************************)
(* The critical sections of operator() and operator[] make find-and-insert *)
(* atomic although the load from the DHT sits between the two: an object   *)
(* that is in the cache is never replaced, only purged, so all pointers to *)
(* a cached attribute are pointers to one object.                          *)
(***************************************************************************)
InsertNeverReplaces ==
  [][\A k \in Keys : whole[k] = "live" /\ whole'[k] = "live" => gen'[k] = gen[k]]_vars

(***************************************************************************)
(* A file system call has a pointer to a cached attribute that does not    *)
(* keep the attribute alive, and purge takes no mutex.  Still the object   *)
(* behind the pointer is the one in the cache, whoever the other threads   *)
(* are, except for the call that purges it: unlink goes on with the        *)
(* pointer it has taken before.                                            *)
(***************************************************************************)
OnlyUnlinkDangles ==
  \A h \in Handlers : ref[h] # 0 =>
    Alive(h) \/ (tree = h /\ pc[h] \in {"erasedirty", "onerase", "erasedata"})

(***************************************************************************)
(* What unlink is written for: when it erases the data of the file         *)
(* (colonyfs_fusexx.cpp:706), the attribute it takes their size from is    *)
(* there.                                                                  *)
(***************************************************************************)
UnlinkReadsItsFile == \A h \in Handlers : At(h, "erasedata") => Alive(h)

(***************************************************************************)
(* whole_ never holds an empty pointer, on which the assertion in          *)
(* basic_cache::read would stop the program: dirty_[key] = whole_[key]     *)
(* (basic_cache.hpp:67) never runs for a key that a purge has removed.     *)
(***************************************************************************)
NoNullEntry == \A k \in Keys : whole[k] # "null"

(***************************************************************************)
(* Write-back: a cached attribute that differs from what the DHT stores    *)
(* carries a dirty mark, so that the next flush of the file writes it;     *)
(* except while its writer is still in its call, or once a flush of it     *)
(* overlapped a change or an old put came back.                            *)
(***************************************************************************)
UnflushedIsDirty ==
  \A k \in Keys \ raced :
    /\ whole[k] = "live" /\ mem[k] # dht[k]
    /\ \A h \in Handlers : key[h] = k => ~Changing(h)
    => k \in dirty

(***************************************************************************)
(* The CV mutex of a key is locked by the first load and never unlocked, so*)
(* a second load of the key blocks its caller and everybody who wants the  *)
(* key after it.  A second load needs a purged attribute whose value is    *)
(* back in the DHT: this takes a flush that overlapped the purge, or a put *)
(* of the value that is executed once more after the purge.                *)
(***************************************************************************)
SecondLoadNeedsRace ==
  \A h \in Handlers : At(h, "cvlock") /\ key[h] \in cv => key[h] \in raced

(***************************************************************************)
(* What makes the properties above inductive.  The first part is about     *)
(* objects and locks: who is where in the calls, who owns the mutex of a   *)
(* key, and that nothing is cached where a load or a purge is under way.   *)
(***************************************************************************)
BeingErased(k) == \E h \in Handlers : key[h] = k /\ pc[h] \in {"erasedirty", "onerase"}

Roles ==
  /\ \A h \in Handlers : pc[h] \notin {"readdirty", "onflush", "store", "eraseflushed"}
  /\ \A t \in Tasks : pc[t] \in {"idle", "readdirty", "onflush", "store", "eraseflushed"}

Purging(h) == pc[h] \in {"erase", "erasedirty", "onerase", "erasedata"}

PurgeExcludes ==
  \A h \in Handlers :
    /\ Purging(h) => tree = h
    /\ tree = h => /\ Purging(h) \/ pc[h] \in {"update", "setdirty", "modify"}
                  /\ \A g \in Handlers \ {h} : At(g, "idle")
    /\ tree = h /\ At(h, "update") => whole[key[h]] = "live"

MutexHeld ==
  \A h \in Handlers : pc[h] \in {"preread", "cvlock", "setdirty"} => owner[key[h]] = h

AbsentInBetween ==
  \A h \in Handlers :
    pc[h] \in {"preread", "cvlock", "erasedirty", "onerase", "erasedata"} =>
      whole[key[h]] = "absent"

\* A call has a pointer exactly between the cache's return and its own; no
\* object has generation 0, which stands for no pointer.
PointersSet ==
  /\ \A k \in Keys : whole[k] = "live" => gen[k] # 0
  /\ \A h \in Handlers :
       /\ pc[h] \in {"use", "setdirty", "modify", "erasedata"} => ref[h] # 0
       /\ ref[h] # 0 => pc[h] \in {"use", "setdirty", "modify"} \/ Purging(h)

ObjectInv ==
  /\ Roles
  /\ PurgeExcludes
  /\ MutexHeld
  /\ AbsentInBetween
  /\ PointersSet
  /\ OnlyUnlinkDangles
  /\ NoNullEntry

(***************************************************************************)
(* The second part is about content: for a key that was not raced, what a  *)
(* flush carries is what is cached, what a load carries is what the DHT    *)
(* stores, a writer's key is marked, a name looked up stays looked up, and *)
(* a key loaded before has nothing left in the DHT once it is purged.      *)
(***************************************************************************)
OverlapSeen == \A k \in Keys : Overlap(k) => k \in raced

FlushCarriesCached ==
  \A t \in Tasks : key[t] \notin raced =>
    /\ Flushing(t) => Alive(t)
    /\ At(t, "store") => buf[t] = mem[key[t]]
    /\ At(t, "eraseflushed") => dht[key[t]] = mem[key[t]]

LoadCarriesStored ==
  \A h \in Handlers : At(h, "cvlock") /\ key[h] \notin raced => buf[h] = dht[key[h]]

WriterMarked ==
  \A h \in Handlers : At(h, "modify") /\ key[h] \notin raced => key[h] \in dirty

NameStaysKnown ==
  \A h \in Handlers : At(h, "update") /\ key[h] \notin raced => NameLookedUp(key[h])

LoadedThenPurged ==
  \A k \in cv \ raced : whole[k] = "absent" /\ ~BeingErased(k) => dht[k] = Missing

ContentInv ==
  /\ OverlapSeen
  /\ FlushCarriesCached
  /\ LoadCarriesStored
  /\ WriterMarked
  /\ NameStaysKnown
  /\ UnflushedIsDirty
  /\ LoadedThenPurged
  /\ SecondLoadNeedsRace

(***************************************************************************)
(* The mutex of a key is held by a call that is between its lookup and its *)
(* insert or its dirty mark: every way out of the cache has released it,   *)
(* an exception included.  So whoever waits for the mutex of a key that    *)
(* was not raced waits for a call that can go on, and every thread inside  *)
(* the cache can go on or is waited for in this way.                       *)
(***************************************************************************)
MutexOwned ==
  \A k \in Keys : owner[k] # Nobody =>
    /\ owner[k] \in Handlers /\ key[owner[k]] = k
    /\ pc[owner[k]] \in {"preread", "cvlock", "setdirty"}

CanGoOn(t) ==
  /\ pc[t] \in {"lookup", "update"} => Free(key[t]) /\ whole[key[t]] # "null"
  /\ pc[t] = "cvlock" => key[t] \notin cv
  /\ pc[t] = "readdirty" => whole[key[t]] # "null"

NobodyWaitsInVain ==
  \A t \in Threads : key[t] \in Keys \ raced =>
    \/ CanGoOn(t)
    \/ LET g == owner[key[t]]
       IN  g \in Handlers /\ key[g] = key[t] /\ CanGoOn(g)

(***************************************************************************)
(* Every call on a key returns, unless the key was raced.  In particular   *)
(* no thread waits for ever for mutex_map_[key].                           *)
(***************************************************************************)
CallsReturn ==
  \A t \in Threads : \A k \in Keys :
    key[t] = k ~> (key[t] # k \/ k \in raced)

(***************************************************************************)
(* The sink keeps the promise of AttributeStore.  The value of a name is   *)
(* that of the cached object, else what the DHT stores; a purge removes it *)
(* when it erases the object.                                              *)
(***************************************************************************)
Value(k) == IF BeingErased(k) THEN Missing
            ELSE IF whole[k] = "live" THEN mem[k]
            ELSE dht[k]

Promise == INSTANCE AttributeStore WITH
  Names <- Keys,
  First <- Earlier,
  value <- [k \in Keys |-> Value(k)],
  last <- writes

KeepsAttributes == Promise!Spec

=============================================================================
