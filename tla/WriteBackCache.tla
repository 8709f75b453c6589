--------------------------- MODULE WriteBackCache ---------------------------
(***************************************************************************)
(* The write-back cache colony::cache<T, Policy> over basic_cache<T>, as   *)
(* the steps a thread takes inside it.  The module has no behaviours of    *)
(* its own: a sink (MetadataSink, ...) adds what its policy does at        *)
(* PreRead, OnFlush and OnErase and states Init and Next.                  *)
(*                                                                         *)
(* Threads: Handlers are the libfuse threads, which call operator(),       *)
(* operator[] and purge; Tasks are the tbb tasks spawned by flush, which   *)
(* call invalidate (and, in the data sink, purge).                         *)
(*                                                                         *)
(* An object T is told apart from the others that lived under its key by   *)
(* its generation.  whole_ is its only owner (basic_cache.hpp:55): every   *)
(* other pointer has a deleter that does nothing (ValueFactory.hpp:51), so *)
(* an object is alive exactly while whole_ holds it.                       *)
(***************************************************************************)
EXTENDS Naturals, FiniteSets

CONSTANTS Keys,       \* the keys the threads use
          Handlers,   \* threads that run file system calls
          Tasks,      \* threads that run dht_task
          MaxCalls,   \* bound on the calls made into the cache
          NoKey,      \* key of a thread that is outside the cache
          Nobody,     \* owner of a free mutex
          Garbage     \* what is read from an object that was freed

Threads == Handlers \cup Tasks

ASSUME CacheAssumption ==
  /\ Handlers \cap Tasks = {}
  /\ MaxCalls \in Nat
  /\ NoKey \notin Keys
  /\ Nobody \notin Threads
  /\ Garbage \notin Nat

VARIABLES whole,    \* whole_[k]: "absent", "null" (an empty shared_ptr) or "live"
          gen,      \* generation of the last object stored at whole_[k]
          mem,      \* version of the content of that object
          dirty,    \* keys of dirty_
          owner,    \* thread that holds mutex_map_[k]
          cv,       \* keys whose CV mutex is locked
          pc,       \* where a thread is
          key,      \* the key it works on
          ref,      \* generation its pointer refers to
          buf,      \* content it has loaded or serialised
          writes,   \* number of versions written so far
          calls     \* number of calls made so far

maps  == <<whole, gen, mem, dirty>>
locks == <<owner, cv>>
cacheVars == <<whole, gen, mem, dirty, owner, cv, pc, key, ref, buf, writes, calls>>

(***************************************************************************)
(* Content is a version number.  Empty is what the constructor of T        *)
(* builds; Earlier is what a previous mount left in the backing store;     *)
(* each modification makes the next number.                                *)
(***************************************************************************)
Empty    == 0
Earlier  == 1
Contents == Nat \cup {Garbage}

CacheInit ==
  /\ whole = [k \in Keys |-> "absent"]
  /\ gen = [k \in Keys |-> 0]
  /\ mem = [k \in Keys |-> Empty]
  /\ dirty = {}
  /\ owner = [k \in Keys |-> Nobody]
  /\ pc = [t \in Threads |-> "idle"]
  /\ key = [t \in Threads |-> NoKey]
  /\ ref = [t \in Threads |-> 0]
  /\ buf = [t \in Threads |-> Empty]
  /\ writes = Earlier
  /\ calls = 0

At(t, label) == pc[t] = label
Goto(t, label) == pc' = [pc EXCEPT ![t] = label]
\* Mutant of Free: the scoped_lock is left out.
FreeUnlocked(k) == TRUE

Free(k) == owner[k] = Nobody
Acquire(t) == owner' = [owner EXCEPT ![key[t]] = t]
Release(t) == owner' = [owner EXCEPT ![key[t]] = Nobody]

\* The pointer of t refers to an object that has not been freed.
Alive(t) == whole[key[t]] = "live" /\ gen[key[t]] = ref[t]

\* Mutant of Leave: the thread keeps its key.
LeaveWithKey(t) ==
  /\ Goto(t, "idle")
  /\ UNCHANGED <<key, ref, buf>>

\* t leaves the cache: its pointer and its buffers go out of scope.
Leave(t) ==
  /\ Goto(t, "idle")
  /\ key' = [key EXCEPT ![t] = NoKey]
  /\ ref' = [ref EXCEPT ![t] = 0]
  /\ buf' = [buf EXCEPT ![t] = Empty]

Call(t, k, label) ==
  /\ At(t, "idle")
  /\ Goto(t, label)
  /\ key' = [key EXCEPT ![t] = k]
  /\ UNCHANGED <<maps, locks, ref, buf, writes>>

\* The calls that start an operation are bounded.
Count == calls < MaxCalls /\ calls' = calls + 1

\* basic_cache::insert: whole_[key] takes over a new object.
Insert(t, content) ==
  /\ whole' = [whole EXCEPT ![key[t]] = "live"]
  /\ gen' = [gen EXCEPT ![key[t]] = @ + 1]
  /\ mem' = [mem EXCEPT ![key[t]] = content]
  /\ ref' = [ref EXCEPT ![t] = gen[key[t]] + 1]

-----------------------------------------------------------------------------
(***************************************************************************)
(* operator()(key): the whole call runs under mutex_map_[key].             *)
(***************************************************************************)
CallLookup(t, k) == Call(t, k, "lookup")

\* The key is cached: find it, point at its object, return.
LookupHit(t) ==
  /\ At(t, "lookup")
  /\ Free(key[t])
  /\ whole[key[t]] = "live"
  /\ ref' = [ref EXCEPT ![t] = gen[key[t]]]
  /\ Goto(t, "use")
  /\ UNCHANGED <<maps, locks, key, buf, writes, calls>>

\* cache_miss_e: the mutex stays locked while the policy loads the value.
LookupMiss(t) ==
  /\ At(t, "lookup")
  /\ Free(key[t])
  /\ whole[key[t]] = "absent"
  /\ Acquire(t)
  /\ Goto(t, "preread")
  /\ UNCHANGED <<maps, cv, key, ref, buf, writes, calls>>

PreReadReturns(t, content) ==
  /\ At(t, "preread")
  /\ buf' = [buf EXCEPT ![t] = content]
  /\ Goto(t, "cvlock")
  /\ UNCHANGED <<maps, locks, key, ref, writes, calls>>

\* Mutant of PreReadThrows: the mutex is not unlocked by the exception.
PreReadThrowsLocked(t) ==
  /\ At(t, "preread")
  /\ Leave(t)
  /\ UNCHANGED <<maps, locks, writes, calls>>

\* lookup_e leaves operator(); the scoped_lock unlocks the mutex.
PreReadThrows(t) ==
  /\ At(t, "preread")
  /\ Release(t)
  /\ Leave(t)
  /\ UNCHANGED <<maps, cv, writes, calls>>

\* Mutant of InsertLoaded: what is inserted is not what was read.
InsertUnread(t) ==
  /\ At(t, "cvlock")
  /\ key[t] \notin cv
  /\ cv' = cv \cup {key[t]}
  /\ Insert(t, Empty)
  /\ Release(t)
  /\ Goto(t, "use")
  /\ buf' = [buf EXCEPT ![t] = Empty]
  /\ UNCHANGED <<dirty, key, writes, calls>>

\* CV::Instance(value).lock() and insert.  No code unlocks a CV mutex: a
\* second thread that gets here for the same key spins for ever.
InsertLoaded(t) ==
  /\ At(t, "cvlock")
  /\ key[t] \notin cv
  /\ cv' = cv \cup {key[t]}
  /\ Insert(t, buf[t])
  /\ Release(t)
  /\ Goto(t, "use")
  /\ buf' = [buf EXCEPT ![t] = Empty]
  /\ UNCHANGED <<dirty, key, writes, calls>>

\* The caller reads the object through the pointer and drops the pointer.
Use(t) ==
  /\ At(t, "use")
  /\ Leave(t)
  /\ UNCHANGED <<maps, locks, writes, calls>>

-----------------------------------------------------------------------------
(***************************************************************************)
(* operator[](key): find the object or insert an empty one, then mark it   *)
(* dirty; the caller modifies it after the mutex is unlocked.              *)
(***************************************************************************)
CallUpdate(t, k) == Call(t, k, "update")


UpdateHit(t) ==
  /\ At(t, "update")
  /\ Free(key[t])
  /\ whole[key[t]] = "live"
  /\ Acquire(t)
  /\ ref' = [ref EXCEPT ![t] = gen[key[t]]]
  /\ Goto(t, "setdirty")
  /\ UNCHANGED <<maps, cv, key, buf, writes, calls>>

UpdateMiss(t) ==
  /\ At(t, "update")
  /\ Free(key[t])
  /\ whole[key[t]] = "absent"
  /\ Acquire(t)
  /\ Insert(t, Empty)
  /\ Goto(t, "setdirty")
  /\ UNCHANGED <<dirty, cv, key, buf, writes, calls>>

\* dirty_[key] = whole_[key]: if a purge has removed the key meanwhile, the
\* subscript puts an empty shared_ptr into whole_.
SetDirty(t) ==
  /\ At(t, "setdirty")
  /\ dirty' = dirty \cup {key[t]}
  /\ whole' = [whole EXCEPT ![key[t]] = IF @ = "absent" THEN "null" ELSE @]
  /\ Release(t)
  /\ Goto(t, "modify")
  /\ UNCHANGED <<gen, mem, cv, key, ref, buf, writes, calls>>

\* The caller writes through the pointer: the cached object changes only if
\* the pointer still refers to it.
Modify(t) ==
  /\ At(t, "modify")
  /\ writes' = writes + 1
  /\ mem' = [mem EXCEPT ![key[t]] = IF Alive(t) THEN writes + 1 ELSE @]
  /\ Leave(t)
  /\ UNCHANGED <<whole, gen, dirty, locks, calls>>

-----------------------------------------------------------------------------
(***************************************************************************)
(* purge(key): takes no mutex.                                             *)
(***************************************************************************)
CallPurge(t, k) == Call(t, k, "erase")

\* Mutant of EraseWhole: purge waits for the mutex of the key.
EraseWholeLocked(t) ==
  /\ At(t, "erase")
  /\ Free(key[t])
  /\ whole' = [whole EXCEPT ![key[t]] = "absent"]
  /\ mem' = [mem EXCEPT ![key[t]] = Empty]
  /\ Goto(t, "erasedirty")
  /\ UNCHANGED <<gen, dirty, locks, key, ref, buf, writes, calls>>

EraseWhole(t) ==
  /\ At(t, "erase")
  /\ whole' = [whole EXCEPT ![key[t]] = "absent"]
  /\ mem' = [mem EXCEPT ![key[t]] = Empty]
  /\ Goto(t, "erasedirty")
  /\ UNCHANGED <<gen, dirty, locks, key, ref, buf, writes, calls>>

EraseDirty(t) ==
  /\ At(t, "erasedirty")
  /\ dirty' = dirty \ {key[t]}
  /\ Goto(t, "onerase")
  /\ UNCHANGED <<whole, gen, mem, locks, key, ref, buf, writes, calls>>

OnEraseReturns(t) ==
  /\ At(t, "onerase")
  /\ Leave(t)
  /\ UNCHANGED <<maps, locks, writes, calls>>

-----------------------------------------------------------------------------
(***************************************************************************)
(* invalidate(key): takes no mutex.  The policy's OnFlush sits between     *)
(* ReadDirty, which leaves the thread at "onflush", and EraseFlushed.      *)
(***************************************************************************)
CallInvalidate(t, k) == Call(t, k, "readdirty")

ReadDirtyHit(t) ==
  /\ At(t, "readdirty")
  /\ key[t] \in dirty
  /\ whole[key[t]] = "live"
  /\ ref' = [ref EXCEPT ![t] = gen[key[t]]]
  /\ Goto(t, "onflush")
  /\ UNCHANGED <<maps, locks, key, buf, writes, calls>>

\* cache_miss_e, swallowed: nothing to flush.
ReadDirtyMiss(t) ==
  /\ At(t, "readdirty")
  /\ key[t] \notin dirty \/ whole[key[t]] = "absent"
  /\ Leave(t)
  /\ UNCHANGED <<maps, locks, writes, calls>>

EraseFlushed(t) ==
  /\ At(t, "eraseflushed")
  /\ dirty' = dirty \ {key[t]}
  /\ Leave(t)
  /\ UNCHANGED <<whole, gen, mem, locks, writes, calls>>

=============================================================================
