------------------------------ MODULE DataSink ------------------------------
(***************************************************************************)
(* aggregator<chunk_data>: the write-back cache with the policy            *)
(* DataOnFlush, over the chunks of one file.                               *)
(*                                                                         *)
(* A dht_task flushes the file and then purges it, chunk by chunk along    *)
(* index_map_[file].  Chunks travel to and from the chunk servers on the   *)
(* io_service threads, after the call that asked for it has returned; the  *)
(* DHT keeps, for each chunk, the host it was deposited on.                *)
(***************************************************************************)
EXTENDS WriteBackCache, Bags

CONSTANTS Hosts,         \* the hosts of CSScheduler
          LoadedBefore,  \* chunks that may have been loaded before
          Missing,       \* no value, no host, no file
          Unsent         \* content of a deposit that is not serialised yet

ASSUME DataAssumption ==
  /\ Keys \subseteq Nat
  /\ Hosts # {} /\ LoadedBefore \subseteq Keys
  /\ Missing \notin Contents \cup Hosts
  /\ Unsent \notin Contents \cup {Missing}

VARIABLES index,      \* index_map_[file]: the chunks a flush goes through
          noted,      \* writers that have noted their chunk in index_map_
          stage,      \* which loop of dht_task a task is in
          next,       \* the first chunk its loop has not passed
          target,     \* the host it deposits on
          loc,        \* the host the DHT names for a chunk
          disk,       \* what a host stores for a chunk
          deposits,   \* bag of the deposits under way
          retrieves,  \* the retrievals under way
          lost,       \* history: <<host, chunk>> whose deposit failed
          raced       \* history: chunks written during a dht_task

runVars  == <<index, noted, stage, next, target>>
wireVars == <<loc, disk, deposits, retrieves, lost>>
vars     == <<cacheVars, runVars, wireVars, raced>>

InTask(t)  == stage[t] # "none"
Writing(h) == pc[h] \in {"update", "setdirty", "modify"}

Observe == raced' = raced \cup
  {k \in Keys : (\E t \in Tasks : InTask(t))' /\ (\E h \in Handlers : key[h] = k /\ Writing(h))'}

-----------------------------------------------------------------------------
(***************************************************************************)
(* read and truncate: raise_if_missing, then the chunk is read or resized. *)
(***************************************************************************)
Raise(h, k) == CallLookup(h, k) /\ Count /\ UNCHANGED <<runVars, wireVars>>

\* PreRead asks the DHT for the host and starts a retrieval into the object
\* that is about to be inserted: it does not wait for the data.
PreReadLocated(h) ==
  /\ At(h, "preread") /\ loc[key[h]] # Missing
  /\ retrieves' = retrieves \cup
       {[chunk |-> key[h], gen |-> gen[key[h]] + 1, host |-> loc[key[h]]]}
  /\ PreReadReturns(h, Empty)
  /\ UNCHANGED <<runVars, loc, disk, deposits, lost>>

\* The DHT has no host for the chunk or fails, or the host has no address.
PreReadFails(h) == PreReadThrows(h) /\ UNCHANGED <<runVars, wireVars>>

\* truncate resizes the chunk in place and does not mark it dirty.
Resize(h) ==
  /\ At(h, "use")
  /\ writes' = writes + 1
  /\ mem' = [mem EXCEPT ![key[h]] = IF Alive(h) THEN writes + 1 ELSE @]
  /\ Leave(h)
  /\ UNCHANGED <<whole, gen, dirty, locks, calls, runVars, wireVars>>

(***************************************************************************)
(* write: create_if_missing, which notes the chunk in index_map_ once      *)
(* operator[] has returned, then write_to_chunk.                           *)
(***************************************************************************)
Create(h, k) == CallUpdate(h, k) /\ Count /\ UNCHANGED <<runVars, wireVars>>

\* Mutant of NoteIndex: a chunk the DHT already knows is not noted.
NoteUnlocated(h) ==
  /\ At(h, "modify") /\ h \notin noted
  /\ noted' = noted \cup {h}
  /\ index' = IF loc[key[h]] = Missing THEN index \cup {key[h]} ELSE index
  /\ UNCHANGED <<cacheVars, stage, next, target, wireVars>>

\* The file name and the index are read from the object: if it was freed,
\* anything may be noted.
NoteIndex(h) ==
  /\ At(h, "modify") /\ h \notin noted
  /\ noted' = noted \cup {h}
  /\ \/ index' = index \cup {key[h]}
     \/ ~Alive(h) /\ index' = index
  /\ UNCHANGED <<cacheVars, stage, next, target, wireVars>>

WriteToChunk(h) ==
  /\ h \in noted
  /\ Modify(h)
  /\ noted' = noted \ {h}
  /\ UNCHANGED <<index, stage, next, target, wireVars>>

-----------------------------------------------------------------------------
(***************************************************************************)
(* dht_task: data_sink_.invalidate(file), then data_sink_.purge(file).     *)
(***************************************************************************)
Ahead(t) == {k \in index : k >= next[t]}

Execute(t) ==
  /\ At(t, "idle") /\ ~InTask(t) /\ Count
  /\ stage' = [stage EXCEPT ![t] = "invalidate"]
  /\ next' = [next EXCEPT ![t] = 0]
  /\ UNCHANGED <<maps, locks, pc, key, ref, buf, writes, index, noted, target, wireVars>>

VisitNext(t) ==
  /\ InTask(t)
  /\ \E k \in Ahead(t) :
       /\ \A l \in Ahead(t) : k <= l
       /\ \/ stage[t] = "invalidate" /\ CallInvalidate(t, k)
          \/ stage[t] = "purge" /\ CallPurge(t, k)
       /\ next' = [next EXCEPT ![t] = k + 1]
  /\ UNCHANGED <<calls, index, noted, stage, target, wireVars>>

LoopEnds(t) ==
  /\ At(t, "idle") /\ InTask(t) /\ Ahead(t) = {}
  /\ stage' = [stage EXCEPT ![t] = IF @ = "invalidate" THEN "purge" ELSE "none"]
  /\ next' = [next EXCEPT ![t] = 0]
  /\ UNCHANGED <<cacheVars, index, noted, target, wireVars>>

\* Mutant of Deposit: GetCS is called again for the entry in the DHT.
DepositElsewhere(t) ==
  /\ At(t, "onflush")
  /\ \E host, other \in Hosts :
       /\ target' = [target EXCEPT ![t] = other]
       /\ deposits' = deposits (+) SetToBag(
            {[chunk |-> key[t], gen |-> ref[t], host |-> host, content |-> Unsent]})
  /\ Goto(t, "locate")
  /\ UNCHANGED <<maps, locks, key, ref, buf, writes, calls,
                 index, noted, stage, next, loc, disk, retrieves, lost>>

\* OnFlush, first half: a host is drawn and the deposit handed to the
\* io_service, with a pointer that does not own the chunk.
Deposit(t) ==
  /\ At(t, "onflush")
  /\ \E host \in Hosts :
       /\ target' = [target EXCEPT ![t] = host]
       /\ deposits' = deposits (+) SetToBag(
            {[chunk |-> key[t], gen |-> ref[t], host |-> host, content |-> Unsent]})
  /\ Goto(t, "locate")
  /\ UNCHANGED <<maps, locks, key, ref, buf, writes, calls,
                 index, noted, stage, next, loc, disk, retrieves, lost>>

\* OnFlush, second half: the DHT is told the host.  The key is computed from
\* the chunk: if that was freed, the entry may go anywhere.
Locate(t) ==
  /\ At(t, "locate")
  /\ \/ loc' = [loc EXCEPT ![key[t]] = target[t]]
     \/ ~Alive(t) /\ loc' = loc
  /\ Goto(t, "eraseflushed")
  /\ UNCHANGED <<maps, locks, key, ref, buf, writes, calls,
                 runVars, disk, deposits, retrieves, lost>>

\* Mutant of FlushThrows: the task goes on with the next chunk.
FlushThrowsSwallowed(t) ==
  /\ pc[t] \in {"onflush", "locate"}
  /\ Leave(t)
  /\ UNCHANGED <<maps, locks, writes, calls, runVars, wireVars>>

\* The host name does not resolve, or set_pair throws: execute() is left.
FlushThrows(t) ==
  /\ pc[t] \in {"onflush", "locate"}
  /\ Leave(t)
  /\ stage' = [stage EXCEPT ![t] = "none"]
  /\ UNCHANGED <<maps, locks, writes, calls, index, noted, next, target, wireVars>>

-----------------------------------------------------------------------------
(***************************************************************************)
(* The io_service threads and the chunk servers.                           *)
(***************************************************************************)
Cached(k, g) == whole[k] = "live" /\ gen[k] = g

\* send_data: the connection is up, the chunk is serialised.
SendDeposit(d) ==
  /\ d.content = Unsent
  /\ deposits' = (deposits (-) SetToBag({d})) (+) SetToBag(
       {[d EXCEPT !.content = IF Cached(d.chunk, d.gen) THEN mem[d.chunk] ELSE Garbage]})
  /\ UNCHANGED <<cacheVars, runVars, loc, disk, retrieves, lost>>

\* The chunk server writes the file of the chunk.
StoreDeposit(d) ==
  /\ d.content # Unsent
  /\ deposits' = deposits (-) SetToBag({d})
  /\ disk' = [disk EXCEPT ![d.host][d.chunk] = d.content]
  /\ UNCHANGED <<cacheVars, runVars, loc, retrieves, lost>>

\* No connection, or it breaks: nobody is told.
LoseDeposit(d) ==
  /\ deposits' = deposits (-) SetToBag({d})
  /\ lost' = lost \cup {<<d.host, d.chunk>>}
  /\ UNCHANGED <<cacheVars, runVars, loc, disk, retrieves>>

\* receive_data fills the object, wherever that is by now.
Receive(r) ==
  /\ disk[r.host][r.chunk] # Missing
  /\ retrieves' = retrieves \ {r}
  /\ mem' = [mem EXCEPT ![r.chunk] =
       IF Cached(r.chunk, r.gen) THEN disk[r.host][r.chunk] ELSE @]
  /\ buf' = [t \in Threads |->
       IF At(t, "cvlock") /\ key[t] = r.chunk /\ gen[r.chunk] + 1 = r.gen
       THEN disk[r.host][r.chunk] ELSE buf[t]]
  /\ UNCHANGED <<whole, gen, dirty, locks, pc, key, ref, writes, calls,
                 runVars, loc, disk, deposits, lost>>

\* The server does not have the chunk, or the connection fails: the object
\* stays as it is and its reader is not told.
GiveUp(r) ==
  /\ retrieves' = retrieves \ {r}
  /\ UNCHANGED <<cacheVars, runVars, loc, disk, deposits, lost>>

-----------------------------------------------------------------------------
\* The file system is at rest.  A chunk on a chunk server is from another
\* client, or from this one, which has loaded, flushed and purged it before.
Init ==
  /\ CacheInit /\ noted = {}
  /\ stage = [t \in Tasks |-> "none"]
  /\ next = [t \in Tasks |-> 0]
  /\ target = [t \in Tasks |-> Missing]
  /\ loc \in [Keys -> Hosts \cup {Missing}]
  /\ cv \in SUBSET {k \in LoadedBefore : loc[k] # Missing} /\ index = cv
  /\ disk = [h \in Hosts |-> [k \in Keys |-> IF loc[k] = h THEN Earlier ELSE Missing]]
  /\ deposits = EmptyBag /\ retrieves = {}
  /\ lost = {} /\ raced = {}

HandlerStep(h) ==
  \/ /\ LookupHit(h) \/ LookupMiss(h) \/ InsertLoaded(h) \/ Use(h)
     /\ UNCHANGED <<runVars, wireVars>>
  \/ PreReadLocated(h) \/ PreReadFails(h) \/ Resize(h)
  \/ /\ UpdateHit(h) \/ UpdateMiss(h) \/ SetDirty(h)
     /\ UNCHANGED <<runVars, wireVars>>
  \/ NoteIndex(h) \/ WriteToChunk(h)

TaskStep(t) ==
  \/ VisitNext(t) \/ LoopEnds(t)
  \/ /\ ReadDirtyHit(t) \/ ReadDirtyMiss(t) \/ EraseFlushed(t)
     /\ UNCHANGED <<runVars, wireVars>>
  \/ Deposit(t) \/ Locate(t) \/ FlushThrows(t)
  \/ /\ EraseWhole(t) \/ EraseDirty(t) \/ OnEraseReturns(t)
     /\ UNCHANGED <<runVars, wireVars>>

WireStep ==
  \/ \E d \in BagToSet(deposits) : SendDeposit(d) \/ StoreDeposit(d) \/ LoseDeposit(d)
  \/ \E r \in retrieves : Receive(r) \/ GiveUp(r)

Start ==
  \/ \E h \in Handlers, k \in Keys : Raise(h, k) \/ Create(h, k)
  \/ \E t \in Tasks : Execute(t)

Next ==
  /\ \/ Start
     \/ \E h \in Handlers : HandlerStep(h)
     \/ \E t \in Tasks : TaskStep(t)
     \/ WireStep
  /\ Observe

(***************************************************************************)
(* Every thread inside a call, every task and the io_service keep running. *)
(***************************************************************************)
Fairness ==
  /\ \A h \in Handlers : WF_vars(HandlerStep(h) /\ Observe)
  /\ \A t \in Tasks : WF_vars(TaskStep(t) /\ Observe)
  /\ WF_vars(WireStep /\ Observe)

Spec == Init /\ [][Next]_vars /\ Fairness

-----------------------------------------------------------------------------
Labels == {"idle", "lookup", "preread", "cvlock", "use", "update", "setdirty", "modify",
           "erase", "erasedirty", "onerase", "readdirty", "onflush", "locate", "eraseflushed"}

Retrieval == [chunk : Keys, gen : Nat, host : Hosts]
Transfer  == [chunk : Keys, gen : Nat, host : Hosts, content : Contents \cup {Unsent}]

CacheTypeOK ==
  /\ whole \in [Keys -> {"absent", "null", "live"}]
  /\ gen \in [Keys -> Nat]
  /\ mem \in [Keys -> Contents]
  /\ dirty \subseteq Keys
  /\ owner \in [Keys -> Threads \cup {Nobody}]
  /\ cv \subseteq Keys
  /\ pc \in [Threads -> Labels]
  /\ key \in [Threads -> Keys \cup {NoKey}]
  /\ \A t \in Threads : key[t] = NoKey <=> pc[t] = "idle"
  /\ ref \in [Threads -> Nat]
  /\ buf \in [Threads -> Contents]
  /\ writes \in Nat
  /\ calls \in 0..MaxCalls

RunTypeOK ==
  /\ index \subseteq Keys
  /\ noted \subseteq {h \in Handlers : pc[h] = "modify"}
  /\ stage \in [Tasks -> {"none", "invalidate", "purge"}]
  /\ next \in [Tasks -> Nat]
  /\ target \in [Tasks -> Hosts \cup {Missing}]
  /\ raced \subseteq Keys

WireTypeOK ==
  /\ loc \in [Keys -> Hosts \cup {Missing}]
  /\ disk \in [Hosts -> [Keys -> Contents \cup {Missing}]]
  /\ IsABag(deposits) /\ BagToSet(deposits) \subseteq Transfer
  /\ retrieves \subseteq Retrieval
  /\ lost \subseteq Hosts \X Keys

TypeOK == CacheTypeOK /\ RunTypeOK /\ WireTypeOK

(***************************************************************************)
(* index_map_ is all a flush goes by, and it is filled after the dirty     *)
(* mark, outside the mutex: still, a dirty chunk is in it, unless its      *)
(* writer is on the way there or a dht_task ran while it was written.      *)
(***************************************************************************)
DirtyIsIndexed ==
  \A k \in dirty \ raced : k \in index \/ \E h \in Handlers : key[h] = k /\ Writing(h)

(***************************************************************************)
(* The DHT names a host for a chunk only if the host stores the chunk, or  *)
(* a deposit of it is on the way there, or one got lost.                   *)
(***************************************************************************)
LocationFollowsDeposit ==
  \A k \in Keys, host \in Hosts : loc[k] = host =>
    \/ disk[host][k] # Missing
    \/ \E d \in BagToSet(deposits) : d.chunk = k /\ d.host = host
    \/ <<host, k>> \in lost

(***************************************************************************)
(* A chunk the task has purged can be found again: it is not dropped from  *)
(* the cache before the DHT knows its host, with several tasks at work and *)
(* any of them failing half-way; unless a dht_task ran while it was written.*)
(***************************************************************************)
PurgedIsLocated ==
  \A k \in index \ raced :
    whole[k] # "live" /\ (\A h \in Handlers : key[h] = k => ~Writing(h)) => loc[k] # Missing

(***************************************************************************)
(* A dht_task ends, even when a reader waits for ever with the mutex of a  *)
(* chunk: a task takes no mutex.  (An empty pointer in whole_ stops the    *)
(* program at the next assertion.)                                         *)
(***************************************************************************)
NoNullEntry == \A k \in Keys : whole[k] # "null"

TasksEnd == \A t \in Tasks : InTask(t) ~> (~InTask(t) \/ ~NoNullEntry)

-----------------------------------------------------------------------------
(***************************************************************************)
(* What makes these inductive.  First, who is where, and what mutexes do.  *)
(***************************************************************************)
Roles ==
  /\ \A h \in Handlers : pc[h] \in {"idle", "lookup", "preread", "cvlock", "use",
                                    "update", "setdirty", "modify"}
  /\ \A t \in Tasks :
       \/ pc[t] = "idle"
       \/ /\ pc[t] \in {"readdirty", "onflush", "locate", "eraseflushed"}
          /\ stage[t] = "invalidate" /\ key[t] < next[t]
       \/ pc[t] \in {"erase", "erasedirty", "onerase"} /\ stage[t] = "purge"

MutexHeld ==
  \A h \in Handlers : pc[h] \in {"preread", "cvlock", "setdirty"} => owner[key[h]] = h

\* Nothing is cached where a load is under way.
AbsentInBetween == \A h \in Handlers : pc[h] \in {"preread", "cvlock"} => whole[key[h]] = "absent"

RaceSeen == \A t \in Tasks, h \in Handlers : InTask(t) /\ Writing(h) => key[h] \in raced

(***************************************************************************)
(* As long as no dht_task runs, a writer keeps its object and its mark.    *)
(***************************************************************************)
WriterHolds ==
  \A h \in Handlers : key[h] \notin raced =>
    /\ pc[h] \in {"setdirty", "modify"} => Alive(h)
    /\ pc[h] = "modify" => key[h] \in dirty
    /\ h \in noted => key[h] \in index

(***************************************************************************)
(* The empty pointers that operator[] leaves in whole_ come from a purge   *)
(* between its lookup and its dirty mark and from nothing else: only a     *)
(* chunk that was written while a dht_task ran can have one.               *)
(***************************************************************************)
NullNeedsRace == \A k \in Keys : whole[k] = "null" => k \in raced

WriterInv == Roles /\ MutexHeld /\ AbsentInBetween /\ RaceSeen /\ WriterHolds /\ DirtyIsIndexed

(***************************************************************************)
(* A deposit leaves a trace, and the DHT is told a host that has one.      *)
(***************************************************************************)
Deposited == {at \in Keys \X Hosts :
  \/ disk[at[2]][at[1]] # Missing
  \/ \E d \in BagToSet(deposits) : d.chunk = at[1] /\ d.host = at[2]
  \/ <<at[2], at[1]>> \in lost}

LocateAfterDeposit ==
  \A t \in Tasks : pc[t] = "locate" => target[t] \in Hosts /\ <<key[t], target[t]>> \in Deposited

(***************************************************************************)
(* A task that is done with flushing a chunk knows it to be located, and   *)
(* so is a chunk whose dirty mark is gone.                                 *)
(***************************************************************************)
Unwritten == {k \in index \ raced : \A h \in Handlers : key[h] = k => ~Writing(h)}

FlushedBy(t, k) ==
  \/ stage[t] = "purge"
  \/ /\ stage[t] = "invalidate" /\ k < next[t]
     /\ ~(key[t] = k /\ pc[t] \in {"readdirty", "onflush", "locate"})

FlushedIsLocated ==
  \A t \in Tasks, k \in index \ raced : FlushedBy(t, k) => loc[k] # Missing

FlushingIsCached ==
  \A t \in Tasks : pc[t] \in {"onflush", "locate"} /\ key[t] \in index \ raced =>
    Alive(t) \/ loc[key[t]] # Missing

CleanIsLocated == \A k \in Unwritten \ dirty : loc[k] # Missing

LocatedInv == FlushedIsLocated /\ FlushingIsCached /\ CleanIsLocated /\ PurgedIsLocated

DataInv == WriterInv /\ LocateAfterDeposit /\ LocationFollowsDeposit /\ LocatedInv

-----------------------------------------------------------------------------
(***************************************************************************)
(* What the repository says of the program, and the code does not keep.    *)
(***************************************************************************)
\* read_from_chunk asserts that the chunk holds the bytes it copies
\* (aggregator.hpp:409): a chunk under retrieval is not read while empty.
ReadsFilledChunk ==
  \A h \in Handlers, r \in retrieves :
    At(h, "use") /\ Alive(h) /\ r.chunk = key[h] /\ r.gen = ref[h] => mem[key[h]] # Empty

\* basic_cache::read asserts that whole_ holds no empty pointer
\* (basic_cache.hpp:119-120), which is NoNullEntry.

\* A read returns what was requested or an error (colonyfs_fusexx.hpp:203):
\* a load of a chunk no flush has raced with gets past the CV mutex.
LoadsReturn ==
  \A h \in Handlers : At(h, "cvlock") /\ key[h] \notin raced ~> ~At(h, "cvlock")

=============================================================================
