--------------------------- MODULE DataSinkProofs ---------------------------
(***************************************************************************)
(* Safety of DataSink, for any chunks of a file, any hosts and any number  *)
(* of file system calls and flush tasks.                                   *)
(***************************************************************************)
EXTENDS DataSink, TLAPS

-----------------------------------------------------------------------------
(***************************************************************************)
(* Bags of deposits: what is put in is there, and what is taken out was.   *)
(***************************************************************************)
LEMMA BagWith ==
  ASSUME NEW B, IsABag(B), NEW d
  PROVE  /\ IsABag(B (+) SetToBag({d}))
         /\ BagToSet(B (+) SetToBag({d})) = BagToSet(B) \cup {d}
BY DEF IsABag, BagToSet, SetToBag, (+)

LEMMA BagWithout ==
  ASSUME NEW B, IsABag(B), NEW d
  PROVE  /\ IsABag(B (-) SetToBag({d}))
         /\ BagToSet(B (-) SetToBag({d})) \subseteq BagToSet(B)
         /\ BagToSet(B) \ {d} \subseteq BagToSet(B (-) SetToBag({d}))
BY DEF IsABag, BagToSet, SetToBag, (-)

LEMMA EmptyBagIsABag == IsABag(EmptyBag) /\ BagToSet(EmptyBag) = {}
BY DEF IsABag, BagToSet, EmptyBag, SetToBag

-----------------------------------------------------------------------------
(***************************************************************************)
(* Type correctness.                                                       *)
(***************************************************************************)
LEMMA InitTypeOK == Init => TypeOK
BY CacheAssumption, DataAssumption, EmptyBagIsABag
   DEF Init, CacheInit, TypeOK, CacheTypeOK, RunTypeOK, WireTypeOK, Labels, Contents, Empty, Earlier, Threads

\* Observe remembers, and adds keys only.
LEMMA ObserveType ==
  ASSUME Observe
  PROVE  /\ raced \subseteq Keys => raced' \subseteq Keys
         /\ raced \subseteq raced'
BY DEF Observe

\* What adding a deposit, or taking one out, leaves of the bag.
LEMMA DepositAdded ==
  ASSUME NEW B, IsABag(B), BagToSet(B) \subseteq Transfer, NEW e \in Transfer
  PROVE  IsABag(B (+) SetToBag({e})) /\ BagToSet(B (+) SetToBag({e})) \subseteq Transfer
<1>1. IsABag(B (+) SetToBag({e})) /\ BagToSet(B (+) SetToBag({e})) = BagToSet(B) \cup {e}
  BY BagWith
<1> QED  BY <1>1

LEMMA DepositTaken ==
  ASSUME NEW B, IsABag(B), BagToSet(B) \subseteq Transfer, NEW e
  PROVE  IsABag(B (-) SetToBag({e})) /\ BagToSet(B (-) SetToBag({e})) \subseteq Transfer
BY BagWithout

LEMMA DepositsHaveType == TypeOK => IsABag(deposits) /\ BagToSet(deposits) \subseteq Transfer
BY DEF TypeOK, WireTypeOK

LEMMA NextTypeOK == TypeOK /\ [Next]_vars => TypeOK'
<1> SUFFICES ASSUME TypeOK, [Next]_vars
             PROVE  TypeOK'
  OBVIOUS
<1> USE CacheAssumption, ObserveType
<1> USE DEF TypeOK, CacheTypeOK, RunTypeOK, WireTypeOK, Labels, Contents, Threads, Empty, At
<1>1. ASSUME NEW k \in Keys, NEW h \in Handlers, Raise(h, k), Observe
      PROVE  TypeOK'
  BY <1>1 DEF Raise, CallLookup, Call, Count, Goto, maps, locks, runVars, wireVars
<1>2. ASSUME NEW k \in Keys, NEW h \in Handlers, Create(h, k), Observe
      PROVE  TypeOK'
  BY <1>2 DEF Create, CallUpdate, Call, Count, Goto, maps, locks, runVars, wireVars
<1>3. ASSUME NEW t \in Tasks, Execute(t), Observe
      PROVE  TypeOK'
  BY <1>3 DEF Execute, Count, maps, locks, wireVars
<1>4. ASSUME NEW h \in Handlers, LookupHit(h), UNCHANGED <<runVars, wireVars>>, Observe
      PROVE  TypeOK'
  BY <1>4 DEF LookupHit, Goto, maps, locks, runVars, wireVars
<1>5. ASSUME NEW h \in Handlers, LookupMiss(h), UNCHANGED <<runVars, wireVars>>, Observe
      PROVE  TypeOK'
  BY <1>5 DEF LookupMiss, Acquire, Goto, maps, runVars, wireVars
<1>6. ASSUME NEW h \in Handlers, InsertLoaded(h), UNCHANGED <<runVars, wireVars>>, Observe
      PROVE  TypeOK'
  BY <1>6 DEF InsertLoaded, Insert, Release, Goto, runVars, wireVars
<1>7. ASSUME NEW h \in Handlers, Use(h), UNCHANGED <<runVars, wireVars>>, Observe
      PROVE  TypeOK'
  BY <1>7 DEF Use, Leave, Goto, maps, locks, runVars, wireVars
<1>8. ASSUME NEW h \in Handlers, PreReadLocated(h), Observe
      PROVE  TypeOK'
  BY <1>8 DEF PreReadLocated, PreReadReturns, Goto, maps, locks, runVars, Retrieval
<1>9. ASSUME NEW h \in Handlers, PreReadFails(h), Observe
      PROVE  TypeOK'
  BY <1>9 DEF PreReadFails, PreReadThrows, Release, Leave, Goto, maps, runVars, wireVars
<1>10. ASSUME NEW h \in Handlers, Resize(h), Observe
       PROVE  TypeOK'
  BY <1>10 DEF Resize, Leave, Goto, locks, runVars, wireVars
<1>11. ASSUME NEW h \in Handlers, UpdateHit(h), UNCHANGED <<runVars, wireVars>>, Observe
       PROVE  TypeOK'
  BY <1>11 DEF UpdateHit, Acquire, Goto, maps, runVars, wireVars
<1>12. ASSUME NEW h \in Handlers, UpdateMiss(h), UNCHANGED <<runVars, wireVars>>, Observe
       PROVE  TypeOK'
  BY <1>12 DEF UpdateMiss, Insert, Acquire, Goto, runVars, wireVars
<1>13. ASSUME NEW h \in Handlers, SetDirty(h), UNCHANGED <<runVars, wireVars>>, Observe
       PROVE  TypeOK'
  BY <1>13 DEF SetDirty, Release, Goto, runVars, wireVars
<1>14. ASSUME NEW h \in Handlers, NoteIndex(h), Observe
       PROVE  TypeOK'
  BY <1>14 DEF NoteIndex, cacheVars, wireVars
<1>15. ASSUME NEW h \in Handlers, WriteToChunk(h), Observe
       PROVE  TypeOK'
  BY <1>15 DEF WriteToChunk, Modify, Leave, Goto, locks, wireVars
<1>16. ASSUME NEW t \in Tasks, VisitNext(t), Observe
       PROVE  TypeOK'
  <2>1. PICK k \in Ahead(t), label \in {"readdirty", "erase"} :
          Call(t, k, label) /\ next' = [next EXCEPT ![t] = k + 1]
    BY <1>16 DEF VisitNext, CallInvalidate, CallPurge
  <2>2. k \in Keys /\ k + 1 \in Nat
    BY DataAssumption DEF Ahead
  <2>3. UNCHANGED <<calls, index, noted, stage, target, wireVars>>
    BY <1>16 DEF VisitNext
  <2> QED
    BY <1>16, <2>1, <2>2, <2>3 DEF Call, Goto, maps, locks, wireVars
<1>17. ASSUME NEW t \in Tasks, LoopEnds(t), Observe
       PROVE  TypeOK'
  BY <1>17 DEF LoopEnds, Ahead, cacheVars, wireVars
<1>18. ASSUME NEW t \in Tasks, ReadDirtyHit(t), UNCHANGED <<runVars, wireVars>>, Observe
       PROVE  TypeOK'
  BY <1>18 DEF ReadDirtyHit, Goto, maps, locks, runVars, wireVars
<1>19. ASSUME NEW t \in Tasks, ReadDirtyMiss(t), UNCHANGED <<runVars, wireVars>>, Observe
       PROVE  TypeOK'
  BY <1>19 DEF ReadDirtyMiss, Leave, Goto, maps, locks, runVars, wireVars
<1>20. ASSUME NEW t \in Tasks, EraseFlushed(t), UNCHANGED <<runVars, wireVars>>, Observe
       PROVE  TypeOK'
  BY <1>20 DEF EraseFlushed, Leave, Goto, locks, runVars, wireVars
<1>21. ASSUME NEW t \in Tasks, Deposit(t), Observe
       PROVE  TypeOK'
  <2>1. PICK host \in Hosts :
          /\ target' = [target EXCEPT ![t] = host]
          /\ deposits' = deposits (+) SetToBag(
               {[chunk |-> key[t], gen |-> ref[t], host |-> host, content |-> Unsent]})
    BY <1>21 DEF Deposit
  <2> DEFINE d == [chunk |-> key[t], gen |-> ref[t], host |-> host, content |-> Unsent]
  <2>2. d \in Transfer
    BY <1>21 DEF Deposit, Transfer
  <2>3. IsABag(deposits') /\ BagToSet(deposits') \subseteq Transfer
    <3> HIDE DEF d, TypeOK
    <3> QED  BY <2>1, <2>2, DepositsHaveType, DepositAdded DEF d
  <2> QED  BY <1>21, <2>1, <2>3 DEF Deposit, Goto, maps, locks
<1>22. ASSUME NEW t \in Tasks, Locate(t), Observe
       PROVE  TypeOK'
  BY <1>22 DEF Locate, Goto, maps, locks, runVars
<1>23. ASSUME NEW t \in Tasks, FlushThrows(t), Observe
       PROVE  TypeOK'
  BY <1>23 DEF FlushThrows, Leave, Goto, maps, locks, wireVars
<1>24. ASSUME NEW t \in Tasks, EraseWhole(t), UNCHANGED <<runVars, wireVars>>, Observe
       PROVE  TypeOK'
  BY <1>24 DEF EraseWhole, Goto, locks, runVars, wireVars
<1>25. ASSUME NEW t \in Tasks, EraseDirty(t), UNCHANGED <<runVars, wireVars>>, Observe
       PROVE  TypeOK'
  BY <1>25 DEF EraseDirty, Goto, locks, runVars, wireVars
<1>26. ASSUME NEW t \in Tasks, OnEraseReturns(t), UNCHANGED <<runVars, wireVars>>, Observe
       PROVE  TypeOK'
  BY <1>26 DEF OnEraseReturns, Leave, Goto, maps, locks, runVars, wireVars
<1>27. ASSUME NEW d \in BagToSet(deposits), SendDeposit(d), Observe
       PROVE  TypeOK'
  <2> DEFINE e == [d EXCEPT !.content = IF Cached(d.chunk, d.gen) THEN mem[d.chunk] ELSE Garbage]
  <2>1. e \in Transfer
    BY DEF Transfer, Cached
  <2>2. IsABag(deposits') /\ BagToSet(deposits') \subseteq Transfer
    <3> HIDE DEF e, TypeOK
    <3> QED  BY <1>27, <2>1, DepositsHaveType, DepositAdded, DepositTaken DEF SendDeposit, e
  <2> QED  BY <1>27, <2>2 DEF SendDeposit, cacheVars, runVars
<1>28. ASSUME NEW d \in BagToSet(deposits), StoreDeposit(d), Observe
       PROVE  TypeOK'
  <2>1. IsABag(deposits') /\ BagToSet(deposits') \subseteq Transfer
    BY <1>28, DepositsHaveType, DepositTaken DEF StoreDeposit
  <2>2. d.host \in Hosts /\ d.chunk \in Keys /\ d.content \in Contents
    BY <1>28 DEF StoreDeposit, Transfer
  <2> QED  BY <1>28, <2>1, <2>2 DEF StoreDeposit, cacheVars, runVars
<1>29. ASSUME NEW d \in BagToSet(deposits), LoseDeposit(d), Observe
       PROVE  TypeOK'
  <2>1. IsABag(deposits') /\ BagToSet(deposits') \subseteq Transfer
    BY <1>29, DepositsHaveType, DepositTaken DEF LoseDeposit
  <2>2. <<d.host, d.chunk>> \in Hosts \X Keys
    BY DEF Transfer
  <2> QED  BY <1>29, <2>1, <2>2 DEF LoseDeposit, cacheVars, runVars
<1>30. ASSUME NEW r \in retrieves, Receive(r), Observe
       PROVE  TypeOK'
  BY <1>30 DEF Receive, locks, runVars, Retrieval, Cached
<1>31. ASSUME NEW r \in retrieves, GiveUp(r), Observe
       PROVE  TypeOK'
  BY <1>31 DEF GiveUp, cacheVars, runVars
<1>32. CASE UNCHANGED vars
  BY <1>32 DEF vars, cacheVars, runVars, wireVars
<1> QED
  BY <1>1, <1>2, <1>3, <1>4, <1>5, <1>6, <1>7, <1>8, <1>9, <1>10, <1>11,
     <1>12, <1>13, <1>14, <1>15, <1>16, <1>17, <1>18, <1>19, <1>20, <1>21,
     <1>22, <1>23, <1>24, <1>25, <1>26, <1>27, <1>28, <1>29, <1>30, <1>31,
     <1>32
     DEF Next, Start, HandlerStep, TaskStep, WireStep

(***************************************************************************)
(* The state always has its type: among the rest, the deposits under way   *)
(* are a bag of deposits.                                                  *)
(***************************************************************************)
THEOREM TypeCorrect == Spec => []TypeOK
BY InitTypeOK, NextTypeOK, PTL DEF Spec

-----------------------------------------------------------------------------
(***************************************************************************)
(* Threads and mutexes, and what writers hold.                             *)
(***************************************************************************)
LEMMA InitWriterInv == Init => WriterInv
BY CacheAssumption
   DEF Init, CacheInit, WriterInv, Roles, MutexHeld, AbsentInBetween, RaceSeen, WriterHolds, DirtyIsIndexed,
       InTask, Writing, Alive, Threads

LEMMA RacesAreSeen == TypeOK' /\ Observe => RaceSeen'
BY DEF Observe, RaceSeen, TypeOK, CacheTypeOK, Writing, Threads

LEMMA NextLocks ==
  TypeOK /\ Roles /\ MutexHeld /\ AbsentInBetween /\ [Next]_vars
    => (Roles /\ MutexHeld /\ AbsentInBetween)'
<1> SUFFICES ASSUME TypeOK, Roles, MutexHeld, AbsentInBetween, [Next]_vars
             PROVE  (Roles /\ MutexHeld /\ AbsentInBetween)'
  OBVIOUS
<1> USE CacheAssumption
<1> USE DEF TypeOK, CacheTypeOK, RunTypeOK, Roles, MutexHeld, AbsentInBetween, Threads, Free, InTask, At
<1>1. ASSUME NEW k \in Keys, NEW h \in Handlers, Raise(h, k), Observe
      PROVE  (Roles /\ MutexHeld /\ AbsentInBetween)'
  BY <1>1 DEF Raise, CallLookup, Call, Count, Goto, maps, locks, runVars, wireVars
<1>2. ASSUME NEW k \in Keys, NEW h \in Handlers, Create(h, k), Observe
      PROVE  (Roles /\ MutexHeld /\ AbsentInBetween)'
  BY <1>2 DEF Create, CallUpdate, Call, Count, Goto, maps, locks, runVars, wireVars
<1>3. ASSUME NEW t \in Tasks, Execute(t), Observe
      PROVE  (Roles /\ MutexHeld /\ AbsentInBetween)'
  BY <1>3 DEF Execute, Count, maps, locks, wireVars
<1>4. ASSUME NEW h \in Handlers, LookupHit(h), UNCHANGED <<runVars, wireVars>>, Observe
      PROVE  (Roles /\ MutexHeld /\ AbsentInBetween)'
  BY <1>4 DEF LookupHit, Goto, maps, locks, runVars, wireVars
<1>5. ASSUME NEW h \in Handlers, LookupMiss(h), UNCHANGED <<runVars, wireVars>>, Observe
      PROVE  (Roles /\ MutexHeld /\ AbsentInBetween)'
  BY <1>5 DEF LookupMiss, Acquire, Goto, maps, runVars, wireVars
<1>6. ASSUME NEW h \in Handlers, InsertLoaded(h), UNCHANGED <<runVars, wireVars>>, Observe
      PROVE  (Roles /\ MutexHeld /\ AbsentInBetween)'
  BY <1>6 DEF InsertLoaded, Insert, Release, Goto, runVars, wireVars
<1>7. ASSUME NEW h \in Handlers, Use(h), UNCHANGED <<runVars, wireVars>>, Observe
      PROVE  (Roles /\ MutexHeld /\ AbsentInBetween)'
  BY <1>7 DEF Use, Leave, Goto, maps, locks, runVars, wireVars
<1>8. ASSUME NEW h \in Handlers, PreReadLocated(h), Observe
      PROVE  (Roles /\ MutexHeld /\ AbsentInBetween)'
  BY <1>8 DEF PreReadLocated, PreReadReturns, Goto, maps, locks, runVars
<1>9. ASSUME NEW h \in Handlers, PreReadFails(h), Observe
      PROVE  (Roles /\ MutexHeld /\ AbsentInBetween)'
  BY <1>9 DEF PreReadFails, PreReadThrows, Release, Leave, Goto, maps, runVars, wireVars
<1>10. ASSUME NEW h \in Handlers, Resize(h), Observe
       PROVE  (Roles /\ MutexHeld /\ AbsentInBetween)'
  BY <1>10 DEF Resize, Leave, Goto, locks, runVars, wireVars
<1>11. ASSUME NEW h \in Handlers, UpdateHit(h), UNCHANGED <<runVars, wireVars>>, Observe
       PROVE  (Roles /\ MutexHeld /\ AbsentInBetween)'
  BY <1>11 DEF UpdateHit, Acquire, Goto, maps, runVars, wireVars
<1>12. ASSUME NEW h \in Handlers, UpdateMiss(h), UNCHANGED <<runVars, wireVars>>, Observe
       PROVE  (Roles /\ MutexHeld /\ AbsentInBetween)'
  BY <1>12 DEF UpdateMiss, Insert, Acquire, Goto, runVars, wireVars
<1>13. ASSUME NEW h \in Handlers, SetDirty(h), UNCHANGED <<runVars, wireVars>>, Observe
       PROVE  (Roles /\ MutexHeld /\ AbsentInBetween)'
  BY <1>13 DEF SetDirty, Release, Goto, runVars, wireVars
<1>14. ASSUME NEW h \in Handlers, NoteIndex(h), Observe
       PROVE  (Roles /\ MutexHeld /\ AbsentInBetween)'
  BY <1>14 DEF NoteIndex, cacheVars, wireVars
<1>15. ASSUME NEW h \in Handlers, WriteToChunk(h), Observe
       PROVE  (Roles /\ MutexHeld /\ AbsentInBetween)'
  BY <1>15 DEF WriteToChunk, Modify, Leave, Goto, locks, wireVars
<1>16. ASSUME NEW t \in Tasks, VisitNext(t), Observe
       PROVE  (Roles /\ MutexHeld /\ AbsentInBetween)'
  <2>1. PICK k \in Ahead(t) :
          /\ \/ stage[t] = "invalidate" /\ Call(t, k, "readdirty")
             \/ stage[t] = "purge" /\ Call(t, k, "erase")
          /\ next' = [next EXCEPT ![t] = k + 1]
    BY <1>16 DEF VisitNext, CallInvalidate, CallPurge
  <2>2. k \in Keys /\ k < k + 1
    BY DataAssumption DEF Ahead
  <2>3. UNCHANGED <<calls, index, noted, stage, target, wireVars>>
    BY <1>16 DEF VisitNext
  <2> QED
    BY <1>16, <2>1, <2>2, <2>3 DEF Call, Goto, maps, locks
<1>17. ASSUME NEW t \in Tasks, LoopEnds(t), Observe
       PROVE  (Roles /\ MutexHeld /\ AbsentInBetween)'
  BY <1>17 DEF LoopEnds, Ahead, cacheVars, wireVars
<1>18. ASSUME NEW t \in Tasks, ReadDirtyHit(t), UNCHANGED <<runVars, wireVars>>, Observe
       PROVE  (Roles /\ MutexHeld /\ AbsentInBetween)'
  BY <1>18 DEF ReadDirtyHit, Goto, maps, locks, runVars, wireVars
<1>19. ASSUME NEW t \in Tasks, ReadDirtyMiss(t), UNCHANGED <<runVars, wireVars>>, Observe
       PROVE  (Roles /\ MutexHeld /\ AbsentInBetween)'
  BY <1>19 DEF ReadDirtyMiss, Leave, Goto, maps, locks, runVars, wireVars
<1>20. ASSUME NEW t \in Tasks, EraseFlushed(t), UNCHANGED <<runVars, wireVars>>, Observe
       PROVE  (Roles /\ MutexHeld /\ AbsentInBetween)'
  BY <1>20 DEF EraseFlushed, Leave, Goto, locks, runVars, wireVars
<1>21. ASSUME NEW t \in Tasks, Deposit(t), Observe
       PROVE  (Roles /\ MutexHeld /\ AbsentInBetween)'
  BY <1>21 DEF Deposit, Goto, maps, locks
<1>22. ASSUME NEW t \in Tasks, Locate(t), Observe
       PROVE  (Roles /\ MutexHeld /\ AbsentInBetween)'
  BY <1>22 DEF Locate, Goto, maps, locks, runVars
<1>23. ASSUME NEW t \in Tasks, FlushThrows(t), Observe
       PROVE  (Roles /\ MutexHeld /\ AbsentInBetween)'
  BY <1>23 DEF FlushThrows, Leave, Goto, maps, locks, wireVars
<1>24. ASSUME NEW t \in Tasks, EraseWhole(t), UNCHANGED <<runVars, wireVars>>, Observe
       PROVE  (Roles /\ MutexHeld /\ AbsentInBetween)'
  BY <1>24 DEF EraseWhole, Goto, locks, runVars, wireVars
<1>25. ASSUME NEW t \in Tasks, EraseDirty(t), UNCHANGED <<runVars, wireVars>>, Observe
       PROVE  (Roles /\ MutexHeld /\ AbsentInBetween)'
  BY <1>25 DEF EraseDirty, Goto, locks, runVars, wireVars
<1>26. ASSUME NEW t \in Tasks, OnEraseReturns(t), UNCHANGED <<runVars, wireVars>>, Observe
       PROVE  (Roles /\ MutexHeld /\ AbsentInBetween)'
  BY <1>26 DEF OnEraseReturns, Leave, Goto, maps, locks, runVars, wireVars
<1>27. ASSUME NEW d \in BagToSet(deposits), SendDeposit(d), Observe
       PROVE  (Roles /\ MutexHeld /\ AbsentInBetween)'
  BY <1>27 DEF SendDeposit, cacheVars, runVars
<1>28. ASSUME NEW d \in BagToSet(deposits), StoreDeposit(d), Observe
       PROVE  (Roles /\ MutexHeld /\ AbsentInBetween)'
  BY <1>28 DEF StoreDeposit, cacheVars, runVars
<1>29. ASSUME NEW d \in BagToSet(deposits), LoseDeposit(d), Observe
       PROVE  (Roles /\ MutexHeld /\ AbsentInBetween)'
  BY <1>29 DEF LoseDeposit, cacheVars, runVars
<1>30. ASSUME NEW r \in retrieves, Receive(r), Observe
       PROVE  (Roles /\ MutexHeld /\ AbsentInBetween)'
  BY <1>30 DEF Receive, locks, runVars
<1>31. ASSUME NEW r \in retrieves, GiveUp(r), Observe
       PROVE  (Roles /\ MutexHeld /\ AbsentInBetween)'
  BY <1>31 DEF GiveUp, cacheVars, runVars
<1>32. CASE UNCHANGED vars
  BY <1>32 DEF vars, cacheVars, runVars
<1> QED
  BY <1>1, <1>2, <1>3, <1>4, <1>5, <1>6, <1>7, <1>8, <1>9, <1>10, <1>11,
     <1>12, <1>13, <1>14, <1>15, <1>16, <1>17, <1>18, <1>19, <1>20, <1>21,
     <1>22, <1>23, <1>24, <1>25, <1>26, <1>27, <1>28, <1>29, <1>30, <1>31,
     <1>32
     DEF Next, Start, HandlerStep, TaskStep, WireStep

LEMMA NextWriters ==
  TypeOK /\ TypeOK' /\ WriterInv /\ [Next]_vars => (WriterHolds /\ DirtyIsIndexed)'
<1> SUFFICES ASSUME TypeOK, TypeOK', WriterInv, [Next]_vars
             PROVE  (WriterHolds /\ DirtyIsIndexed)'
  OBVIOUS
<1> USE CacheAssumption, ObserveType, RacesAreSeen
<1> USE DEF TypeOK, CacheTypeOK, RunTypeOK, WriterInv, Roles, MutexHeld, AbsentInBetween, RaceSeen, WriterHolds, DirtyIsIndexed,
            Threads, Free, InTask, Writing, Alive, At
<1>1. ASSUME NEW k \in Keys, NEW h \in Handlers, Raise(h, k), Observe
      PROVE  (WriterHolds /\ DirtyIsIndexed)'
  BY <1>1 DEF Raise, CallLookup, Call, Count, Goto, maps, locks, runVars, wireVars
<1>2. ASSUME NEW k \in Keys, NEW h \in Handlers, Create(h, k), Observe
      PROVE  (WriterHolds /\ DirtyIsIndexed)'
  BY <1>2 DEF Create, CallUpdate, Call, Count, Goto, maps, locks, runVars, wireVars
<1>3. ASSUME NEW t \in Tasks, Execute(t), Observe
      PROVE  (WriterHolds /\ DirtyIsIndexed)'
  BY <1>3 DEF Execute, Count, maps, locks, wireVars
<1>4. ASSUME NEW h \in Handlers, LookupHit(h), UNCHANGED <<runVars, wireVars>>, Observe
      PROVE  (WriterHolds /\ DirtyIsIndexed)'
  BY <1>4 DEF LookupHit, Goto, maps, locks, runVars, wireVars
<1>5. ASSUME NEW h \in Handlers, LookupMiss(h), UNCHANGED <<runVars, wireVars>>, Observe
      PROVE  (WriterHolds /\ DirtyIsIndexed)'
  BY <1>5 DEF LookupMiss, Acquire, Goto, maps, runVars, wireVars
<1>6. ASSUME NEW h \in Handlers, InsertLoaded(h), UNCHANGED <<runVars, wireVars>>, Observe
      PROVE  (WriterHolds /\ DirtyIsIndexed)'
  BY <1>6 DEF InsertLoaded, Insert, Release, Goto, runVars, wireVars
<1>7. ASSUME NEW h \in Handlers, Use(h), UNCHANGED <<runVars, wireVars>>, Observe
      PROVE  (WriterHolds /\ DirtyIsIndexed)'
  BY <1>7 DEF Use, Leave, Goto, maps, locks, runVars, wireVars
<1>8. ASSUME NEW h \in Handlers, PreReadLocated(h), Observe
      PROVE  (WriterHolds /\ DirtyIsIndexed)'
  BY <1>8 DEF PreReadLocated, PreReadReturns, Goto, maps, locks, runVars
<1>9. ASSUME NEW h \in Handlers, PreReadFails(h), Observe
      PROVE  (WriterHolds /\ DirtyIsIndexed)'
  BY <1>9 DEF PreReadFails, PreReadThrows, Release, Leave, Goto, maps, runVars, wireVars
<1>10. ASSUME NEW h \in Handlers, Resize(h), Observe
       PROVE  (WriterHolds /\ DirtyIsIndexed)'
  BY <1>10 DEF Resize, Leave, Goto, locks, runVars, wireVars
<1>11. ASSUME NEW h \in Handlers, UpdateHit(h), UNCHANGED <<runVars, wireVars>>, Observe
       PROVE  (WriterHolds /\ DirtyIsIndexed)'
  BY <1>11 DEF UpdateHit, Acquire, Goto, maps, runVars, wireVars
<1>12. ASSUME NEW h \in Handlers, UpdateMiss(h), UNCHANGED <<runVars, wireVars>>, Observe
       PROVE  (WriterHolds /\ DirtyIsIndexed)'
  BY <1>12 DEF UpdateMiss, Insert, Acquire, Goto, runVars, wireVars
<1>13. ASSUME NEW h \in Handlers, SetDirty(h), UNCHANGED <<runVars, wireVars>>, Observe
       PROVE  (WriterHolds /\ DirtyIsIndexed)'
  BY <1>13 DEF SetDirty, Release, Goto, runVars, wireVars
<1>14. ASSUME NEW h \in Handlers, NoteIndex(h), Observe
       PROVE  (WriterHolds /\ DirtyIsIndexed)'
  BY <1>14 DEF NoteIndex, cacheVars, wireVars
<1>15. ASSUME NEW h \in Handlers, WriteToChunk(h), Observe
       PROVE  (WriterHolds /\ DirtyIsIndexed)'
  BY <1>15 DEF WriteToChunk, Modify, Leave, Goto, locks, wireVars
<1>16. ASSUME NEW t \in Tasks, VisitNext(t), Observe
       PROVE  (WriterHolds /\ DirtyIsIndexed)'
  BY <1>16 DEF VisitNext, Ahead, CallInvalidate, CallPurge, Call, Goto, maps, locks, wireVars
<1>17. ASSUME NEW t \in Tasks, LoopEnds(t), Observe
       PROVE  (WriterHolds /\ DirtyIsIndexed)'
  BY <1>17 DEF LoopEnds, Ahead, cacheVars, wireVars
<1>18. ASSUME NEW t \in Tasks, ReadDirtyHit(t), UNCHANGED <<runVars, wireVars>>, Observe
       PROVE  (WriterHolds /\ DirtyIsIndexed)'
  BY <1>18 DEF ReadDirtyHit, Goto, maps, locks, runVars, wireVars
<1>19. ASSUME NEW t \in Tasks, ReadDirtyMiss(t), UNCHANGED <<runVars, wireVars>>, Observe
       PROVE  (WriterHolds /\ DirtyIsIndexed)'
  BY <1>19 DEF ReadDirtyMiss, Leave, Goto, maps, locks, runVars, wireVars
<1>20. ASSUME NEW t \in Tasks, EraseFlushed(t), UNCHANGED <<runVars, wireVars>>, Observe
       PROVE  (WriterHolds /\ DirtyIsIndexed)'
  BY <1>20 DEF EraseFlushed, Leave, Goto, locks, runVars, wireVars
<1>21. ASSUME NEW t \in Tasks, Deposit(t), Observe
       PROVE  (WriterHolds /\ DirtyIsIndexed)'
  BY <1>21 DEF Deposit, Goto, maps, locks
<1>22. ASSUME NEW t \in Tasks, Locate(t), Observe
       PROVE  (WriterHolds /\ DirtyIsIndexed)'
  BY <1>22 DEF Locate, Goto, maps, locks, runVars
<1>23. ASSUME NEW t \in Tasks, FlushThrows(t), Observe
       PROVE  (WriterHolds /\ DirtyIsIndexed)'
  BY <1>23 DEF FlushThrows, Leave, Goto, maps, locks, wireVars
<1>24. ASSUME NEW t \in Tasks, EraseWhole(t), UNCHANGED <<runVars, wireVars>>, Observe
       PROVE  (WriterHolds /\ DirtyIsIndexed)'
  BY <1>24 DEF EraseWhole, Goto, locks, runVars, wireVars
<1>25. ASSUME NEW t \in Tasks, EraseDirty(t), UNCHANGED <<runVars, wireVars>>, Observe
       PROVE  (WriterHolds /\ DirtyIsIndexed)'
  BY <1>25 DEF EraseDirty, Goto, locks, runVars, wireVars
<1>26. ASSUME NEW t \in Tasks, OnEraseReturns(t), UNCHANGED <<runVars, wireVars>>, Observe
       PROVE  (WriterHolds /\ DirtyIsIndexed)'
  BY <1>26 DEF OnEraseReturns, Leave, Goto, maps, locks, runVars, wireVars
<1>27. ASSUME NEW d \in BagToSet(deposits), SendDeposit(d), Observe
       PROVE  (WriterHolds /\ DirtyIsIndexed)'
  BY <1>27 DEF SendDeposit, cacheVars, runVars
<1>28. ASSUME NEW d \in BagToSet(deposits), StoreDeposit(d), Observe
       PROVE  (WriterHolds /\ DirtyIsIndexed)'
  BY <1>28 DEF StoreDeposit, cacheVars, runVars
<1>29. ASSUME NEW d \in BagToSet(deposits), LoseDeposit(d), Observe
       PROVE  (WriterHolds /\ DirtyIsIndexed)'
  BY <1>29 DEF LoseDeposit, cacheVars, runVars
<1>30. ASSUME NEW r \in retrieves, Receive(r), Observe
       PROVE  (WriterHolds /\ DirtyIsIndexed)'
  BY <1>30 DEF Receive, locks, runVars
<1>31. ASSUME NEW r \in retrieves, GiveUp(r), Observe
       PROVE  (WriterHolds /\ DirtyIsIndexed)'
  BY <1>31 DEF GiveUp, cacheVars, runVars
<1>32. CASE UNCHANGED vars
  BY <1>32 DEF vars, cacheVars, runVars
<1> QED
  BY <1>1, <1>2, <1>3, <1>4, <1>5, <1>6, <1>7, <1>8, <1>9, <1>10, <1>11,
     <1>12, <1>13, <1>14, <1>15, <1>16, <1>17, <1>18, <1>19, <1>20, <1>21,
     <1>22, <1>23, <1>24, <1>25, <1>26, <1>27, <1>28, <1>29, <1>30, <1>31,
     <1>32
     DEF Next, Start, HandlerStep, TaskStep, WireStep

-----------------------------------------------------------------------------
(***************************************************************************)
(* Deposits and locations.                                                 *)
(***************************************************************************)
LEMMA LocationMeansDeposited ==
  LocationFollowsDeposit <=> \A k \in Keys, host \in Hosts : loc[k] = host => <<k, host>> \in Deposited
BY DEF LocationFollowsDeposit, Deposited

LEMMA InitLocation == Init => LocateAfterDeposit /\ LocationFollowsDeposit
BY CacheAssumption, DataAssumption
   DEF Init, CacheInit, LocateAfterDeposit, LocationFollowsDeposit, Threads, Contents, Earlier

\* What the steps of the wire do to the deposits, one by one.
LEMMA Replaced ==
  ASSUME TypeOK, NEW d \in BagToSet(deposits), NEW e \in Transfer
  PROVE  \A x \in BagToSet(deposits) :
           x = d \/ x \in BagToSet((deposits (-) SetToBag({d})) (+) SetToBag({e}))
<1> DEFINE B == deposits (-) SetToBag({d})
<1>1. IsABag(B) /\ BagToSet(deposits) \ {d} \subseteq BagToSet(B)
  BY DepositsHaveType, BagWithout
<1>2. BagToSet(B (+) SetToBag({e})) = BagToSet(B) \cup {e}
  <2> HIDE DEF B
  <2> QED  BY <1>1, BagWith
<1> QED  BY <1>1, <1>2

(***************************************************************************)
(* The trace of a deposit stays: under way, stored, or lost.               *)
(***************************************************************************)
LEMMA DepositedStays == TypeOK /\ [Next]_vars => Deposited \subseteq Deposited'
<1> SUFFICES ASSUME TypeOK, [Next]_vars
             PROVE  Deposited \subseteq Deposited'
  OBVIOUS
<1>1. ASSUME NEW t \in Tasks, Deposit(t) PROVE Deposited \subseteq Deposited'
  <2>1. PICK host \in Hosts :
          deposits' = deposits (+) SetToBag(
            {[chunk |-> key[t], gen |-> ref[t], host |-> host, content |-> Unsent]})
    BY <1>1 DEF Deposit
  <2> DEFINE d == [chunk |-> key[t], gen |-> ref[t], host |-> host, content |-> Unsent]
  <2>2. BagToSet(deposits) \subseteq BagToSet(deposits')
    <3> HIDE DEF d
    <3>1. deposits' = deposits (+) SetToBag({d})
      BY <2>1 DEF d
    <3>2. BagToSet(deposits (+) SetToBag({d})) = BagToSet(deposits) \cup {d}
      BY DepositsHaveType, BagWith
    <3> QED  BY <3>1, <3>2
  <2>3. disk' = disk /\ lost' = lost
    BY <1>1 DEF Deposit
  <2> QED  BY <2>2, <2>3 DEF Deposited
<1>2. ASSUME NEW d \in BagToSet(deposits), SendDeposit(d) PROVE Deposited \subseteq Deposited'
  <2> DEFINE e == [d EXCEPT !.content = IF Cached(d.chunk, d.gen) THEN mem[d.chunk] ELSE Garbage]
  <2>1. e \in Transfer /\ e.chunk = d.chunk /\ e.host = d.host
    BY DEF TypeOK, CacheTypeOK, WireTypeOK, Transfer, Contents
  <2>2. e \in BagToSet(deposits') /\ \A x \in BagToSet(deposits) : x = d \/ x \in BagToSet(deposits')
    <3> HIDE DEF e
    <3>1. deposits' = (deposits (-) SetToBag({d})) (+) SetToBag({e})
      BY <1>2 DEF SendDeposit, e
    <3>2. IsABag(deposits (-) SetToBag({d}))
      BY DepositsHaveType, BagWithout
    <3>3. e \in BagToSet((deposits (-) SetToBag({d})) (+) SetToBag({e}))
      BY <3>2, BagWith
    <3> QED  BY <2>1, <3>1, <3>3, Replaced
  <2>3. disk' = disk /\ lost' = lost
    BY <1>2 DEF SendDeposit
  <2> HIDE DEF e
  <2> QED  BY <2>1, <2>2, <2>3 DEF Deposited
<1>3. ASSUME NEW d \in BagToSet(deposits), StoreDeposit(d) PROVE Deposited \subseteq Deposited'
  <2>1. \A x \in BagToSet(deposits) : x = d \/ x \in BagToSet(deposits')
    BY <1>3, DepositsHaveType, BagWithout DEF StoreDeposit
  <2>2. d.host \in Hosts /\ d.chunk \in Keys /\ d.content # Missing
    BY <1>3, DataAssumption DEF StoreDeposit, TypeOK, WireTypeOK, Transfer
  <2>3. /\ disk'[d.host][d.chunk] # Missing
        /\ \A k \in Keys, host \in Hosts : disk[host][k] # Missing => disk'[host][k] # Missing
    BY <1>3, <2>2 DEF StoreDeposit, TypeOK, WireTypeOK
  <2>4. lost' = lost
    BY <1>3 DEF StoreDeposit
  <2> QED  BY <2>1, <2>3, <2>4 DEF Deposited
<1>4. ASSUME NEW d \in BagToSet(deposits), LoseDeposit(d) PROVE Deposited \subseteq Deposited'
  <2>1. \A x \in BagToSet(deposits) : x = d \/ x \in BagToSet(deposits')
    BY <1>4, DepositsHaveType, BagWithout DEF LoseDeposit
  <2>2. disk' = disk /\ lost' = lost \cup {<<d.host, d.chunk>>}
    BY <1>4 DEF LoseDeposit
  <2> QED  BY <2>1, <2>2 DEF Deposited
<1>5. CASE UNCHANGED <<deposits, disk, lost>>
  BY <1>5 DEF Deposited
<1>6. Next => \/ \E t \in Tasks : Deposit(t)
              \/ \E d \in BagToSet(deposits) : SendDeposit(d) \/ StoreDeposit(d) \/ LoseDeposit(d)
              \/ UNCHANGED <<deposits, disk, lost>>
  BY DEF Next, Start, HandlerStep, TaskStep, WireStep, runVars, wireVars, cacheVars,
         Raise, PreReadLocated, PreReadFails, Resize, Create, NoteIndex, WriteToChunk,
         Execute, VisitNext, LoopEnds, Locate, FlushThrows, Receive, GiveUp
<1> QED  BY <1>1, <1>2, <1>3, <1>4, <1>5, <1>6 DEF vars, wireVars

\* Only Deposit puts a task at "locate", only Locate changes the DHT.
LEMMA LocatingSteps ==
  ASSUME TypeOK, Roles, [Next]_vars
  PROVE  /\ \A t \in Tasks : pc'[t] = "locate" =>
              \/ pc[t] = "locate" /\ key'[t] = key[t] /\ target'[t] = target[t]
              \/ Deposit(t)
         /\ UNCHANGED loc \/ \E t \in Tasks : Locate(t)
<1> DEFINE P == /\ \A t \in Tasks : pc'[t] = "locate" =>
                     \/ pc[t] = "locate" /\ key'[t] = key[t] /\ target'[t] = target[t]
                     \/ Deposit(t)
                /\ UNCHANGED loc \/ \E t \in Tasks : Locate(t)
<1> USE CacheAssumption DEF TypeOK, CacheTypeOK, RunTypeOK, Roles, Threads, At, runVars, wireVars, cacheVars, locks, maps
<1>1. ASSUME Start PROVE P
  BY <1>1 DEF Start, Raise, Create, Execute, CallLookup, CallUpdate, Call, Count, Goto
<1>2. ASSUME NEW h \in Handlers, HandlerStep(h) PROVE P
  <2>1. CASE LookupHit(h) \/ LookupMiss(h) \/ InsertLoaded(h) \/ Use(h)
    BY <1>2, <2>1 DEF HandlerStep, LookupHit, LookupMiss, InsertLoaded, Use, Leave, Goto, Acquire, Insert, Release,
          PreReadLocated, PreReadFails, Resize, UpdateHit, UpdateMiss, SetDirty, NoteIndex, WriteToChunk, Modify,
          PreReadReturns, PreReadThrows
  <2>2. CASE PreReadLocated(h) \/ PreReadFails(h) \/ Resize(h)
    BY <2>2 DEF PreReadLocated, PreReadFails, Resize, PreReadReturns, PreReadThrows, Leave, Goto
  <2>3. CASE (UpdateHit(h) \/ UpdateMiss(h) \/ SetDirty(h)) /\ UNCHANGED <<runVars, wireVars>>
    BY <2>3 DEF UpdateHit, UpdateMiss, SetDirty, Goto, Insert
  <2>4. CASE NoteIndex(h) \/ WriteToChunk(h)
    BY <2>4 DEF NoteIndex, WriteToChunk, Modify, Leave, Goto
  <2> QED  BY <1>2, <2>1, <2>2, <2>3, <2>4 DEF HandlerStep
<1>3. ASSUME NEW t \in Tasks, TaskStep(t) PROVE P
  <2>1. CASE VisitNext(t) \/ LoopEnds(t)
    BY <2>1 DEF VisitNext, CallInvalidate, CallPurge, Call, LoopEnds, Goto
  <2>2. CASE (ReadDirtyHit(t) \/ ReadDirtyMiss(t) \/ EraseFlushed(t)) /\ UNCHANGED <<runVars, wireVars>>
    BY <2>2 DEF ReadDirtyHit, ReadDirtyMiss, EraseFlushed, Leave, Goto
  <2>3. CASE Deposit(t)
    <3>1. PICK host \in Hosts : target' = [target EXCEPT ![t] = host]
      BY <2>3 DEF Deposit
    <3>2. pc' = [pc EXCEPT ![t] = "locate"] /\ key' = key /\ loc' = loc
      BY <2>3 DEF Deposit, Goto
    <3>3. \A u \in Tasks \ {t} : pc'[u] = pc[u] /\ key'[u] = key[u] /\ target'[u] = target[u]
      BY <3>1, <3>2
    <3> QED  BY <2>3, <3>2, <3>3
  <2>4. CASE Locate(t)
    BY <2>4 DEF Locate, Goto
  <2>5. CASE FlushThrows(t)
    BY <2>5 DEF FlushThrows, Leave, Goto
  <2>6. CASE (EraseWhole(t) \/ EraseDirty(t) \/ OnEraseReturns(t)) /\ UNCHANGED <<runVars, wireVars>>
    BY <2>6 DEF EraseWhole, EraseDirty, OnEraseReturns, Leave, Goto
  <2> QED  BY <1>3, <2>1, <2>2, <2>3, <2>4, <2>5, <2>6 DEF TaskStep
<1>4. ASSUME WireStep PROVE P
  BY <1>4 DEF WireStep, SendDeposit, StoreDeposit, LoseDeposit, Receive, GiveUp
<1>5. CASE UNCHANGED vars
  BY <1>5 DEF vars
<1> QED  BY <1>1, <1>2, <1>3, <1>4, <1>5 DEF Next

LEMMA NextLocation ==
  TypeOK /\ TypeOK' /\ Roles /\ LocateAfterDeposit /\ LocationFollowsDeposit /\ [Next]_vars
    => (LocateAfterDeposit /\ LocationFollowsDeposit)'
<1> SUFFICES ASSUME TypeOK, TypeOK', Roles, LocateAfterDeposit, LocationFollowsDeposit, [Next]_vars
             PROVE  (LocateAfterDeposit /\ LocationFollowsDeposit)'
  OBVIOUS
<1>1. Deposited \subseteq Deposited'
  BY DepositedStays
<1>2. ASSUME NEW t \in Tasks, Deposit(t)
      PROVE  target'[t] \in Hosts /\ <<key'[t], target'[t]>> \in Deposited'
  <2>1. PICK host \in Hosts :
          /\ target' = [target EXCEPT ![t] = host]
          /\ deposits' = deposits (+) SetToBag(
               {[chunk |-> key[t], gen |-> ref[t], host |-> host, content |-> Unsent]})
    BY <1>2 DEF Deposit
  <2> DEFINE d == [chunk |-> key[t], gen |-> ref[t], host |-> host, content |-> Unsent]
  <2>2. d \in BagToSet(deposits')
    <3> HIDE DEF d
    <3>1. deposits' = deposits (+) SetToBag({d})
      BY <2>1 DEF d
    <3> QED  BY <3>1, DepositsHaveType, BagWith
  <2>3. target'[t] = host /\ key'[t] = key[t] /\ key[t] \in Keys
    BY <1>2, <2>1 DEF Deposit, TypeOK, CacheTypeOK, RunTypeOK, At, Threads
  <2>4. d.chunk = key[t] /\ d.host = host
    OBVIOUS
  <2> HIDE DEF d
  <2> QED  BY <2>2, <2>3, <2>4 DEF Deposited
<1>3. LocateAfterDeposit'
  BY <1>1, <1>2, LocatingSteps DEF LocateAfterDeposit
<1>4. ASSUME NEW t \in Tasks, Locate(t)
      PROVE  LocationFollowsDeposit'
  <2>1. key[t] \in Keys /\ target[t] \in Hosts /\ <<key[t], target[t]>> \in Deposited
    BY <1>4 DEF Locate, At, LocateAfterDeposit, TypeOK, CacheTypeOK, Threads
  <2>2. loc' = loc \/ loc' = [loc EXCEPT ![key[t]] = target[t]]
    BY <1>4 DEF Locate
  <2>3. \A k \in Keys, host \in Hosts : loc'[k] = host => <<k, host>> \in Deposited'
    BY <1>1, <2>1, <2>2, LocationMeansDeposited DEF TypeOK, WireTypeOK
  <2> QED  BY <2>3 DEF LocationFollowsDeposit, Deposited
<1>5. CASE UNCHANGED loc
  <2>1. \A k \in Keys, host \in Hosts : loc'[k] = host => <<k, host>> \in Deposited'
    BY <1>1, <1>5, LocationMeansDeposited
  <2> QED  BY <1>3, <2>1 DEF LocationFollowsDeposit, Deposited
<1> QED  BY <1>3, <1>4, <1>5, LocatingSteps

-----------------------------------------------------------------------------
(***************************************************************************)
(* What flushing leaves behind.                                            *)
(***************************************************************************)
LEMMA LocatedStays ==
  TypeOK /\ Roles /\ LocateAfterDeposit /\ [Next]_vars
    => \A k \in Keys : loc[k] # Missing => loc'[k] # Missing
<1> SUFFICES ASSUME TypeOK, Roles, LocateAfterDeposit, [Next]_vars
             PROVE  \A k \in Keys : loc[k] # Missing => loc'[k] # Missing
  OBVIOUS
<1>1. ASSUME NEW t \in Tasks, Locate(t)
      PROVE  \A k \in Keys : loc[k] # Missing => loc'[k] # Missing
  <2>1. target[t] \in Hosts
    BY <1>1 DEF Locate, At, LocateAfterDeposit
  <2> QED  BY <1>1, <2>1, DataAssumption DEF Locate, TypeOK, WireTypeOK
<1> QED  BY <1>1, LocatingSteps

LEMMA LocatingLocates ==
  ASSUME TypeOK, LocateAfterDeposit, NEW t \in Tasks, Locate(t)
  PROVE  loc'[key[t]] # Missing \/ (~Alive(t) /\ loc' = loc)
<1>1. pc[t] = "locate" /\ target[t] \in Hosts
  BY DEF Locate, At, LocateAfterDeposit
<1>2. key[t] \in Keys
  BY <1>1 DEF TypeOK, CacheTypeOK, Threads
<1>3. Missing \notin Hosts
  BY DataAssumption
<1>4. loc \in [Keys -> Hosts \cup {Missing}]
  BY DEF TypeOK, WireTypeOK
<1>5. CASE loc' = [loc EXCEPT ![key[t]] = target[t]]
  <2>1. loc'[key[t]] = target[t]
    BY <1>2, <1>4, <1>5
  <2> QED  BY <1>1, <1>3, <2>1
<1> QED  BY <1>5 DEF Locate

LEMMA InitLocated == Init => LocatedInv
BY CacheAssumption
   DEF Init, CacheInit, LocatedInv, FlushedIsLocated, FlushedBy, FlushingIsCached, CleanIsLocated, PurgedIsLocated,
       Unwritten, Threads

LEMMA NextLocated ==
  TypeOK /\ TypeOK' /\ WriterInv /\ LocateAfterDeposit /\ LocatedInv /\ [Next]_vars => LocatedInv'
<1> SUFFICES ASSUME TypeOK, TypeOK', WriterInv, LocateAfterDeposit, LocatedInv, [Next]_vars
             PROVE  LocatedInv'
  OBVIOUS
<1>stays. \A k \in Keys : loc[k] # Missing => loc'[k] # Missing
  BY LocatedStays DEF WriterInv
<1>seen. Observe => RaceSeen' /\ raced \subseteq raced'
  BY RacesAreSeen, ObserveType
<1> USE CacheAssumption, <1>stays, <1>seen
<1> USE DEF TypeOK, CacheTypeOK, RunTypeOK, WriterInv, Roles, AbsentInBetween, RaceSeen, WriterHolds,
            LocatedInv, FlushedIsLocated, FlushedBy, FlushingIsCached, CleanIsLocated, PurgedIsLocated, Unwritten,
            Threads, InTask, Writing, Alive, At
<1>1. ASSUME NEW k \in Keys, NEW h \in Handlers, Raise(h, k), Observe
      PROVE  LocatedInv'
  BY <1>1 DEF Raise, CallLookup, Call, Count, Goto, maps, locks, runVars, wireVars
<1>2. ASSUME NEW k \in Keys, NEW h \in Handlers, Create(h, k), Observe
      PROVE  LocatedInv'
  BY <1>2 DEF Create, CallUpdate, Call, Count, Goto, maps, locks, runVars, wireVars
<1>3. ASSUME NEW t \in Tasks, Execute(t), Observe
      PROVE  LocatedInv'
  <2>1. \A k \in index : ~(k < 0)
    BY DataAssumption
  <2>2. next'[t] = 0 /\ \A t2 \in Tasks : t2 # t => next'[t2] = next[t2] /\ stage'[t2] = stage[t2]
    BY <1>3 DEF Execute
  <2> QED  BY <1>3, <2>1, <2>2 DEF Execute, Count, maps, locks, wireVars
<1>4. ASSUME NEW h \in Handlers, LookupHit(h), UNCHANGED <<runVars, wireVars>>, Observe
      PROVE  LocatedInv'
  BY <1>4 DEF LookupHit, Goto, maps, locks, runVars, wireVars
<1>5. ASSUME NEW h \in Handlers, LookupMiss(h), UNCHANGED <<runVars, wireVars>>, Observe
      PROVE  LocatedInv'
  BY <1>5 DEF LookupMiss, Acquire, Goto, maps, runVars, wireVars
<1>6. ASSUME NEW h \in Handlers, InsertLoaded(h), UNCHANGED <<runVars, wireVars>>, Observe
      PROVE  LocatedInv'
  BY <1>6 DEF InsertLoaded, Insert, Release, Goto, runVars, wireVars
<1>7. ASSUME NEW h \in Handlers, Use(h), UNCHANGED <<runVars, wireVars>>, Observe
      PROVE  LocatedInv'
  BY <1>7 DEF Use, Leave, Goto, maps, locks, runVars, wireVars
<1>8. ASSUME NEW h \in Handlers, PreReadLocated(h), Observe
      PROVE  LocatedInv'
  BY <1>8 DEF PreReadLocated, PreReadReturns, Goto, maps, locks, runVars
<1>9. ASSUME NEW h \in Handlers, PreReadFails(h), Observe
      PROVE  LocatedInv'
  BY <1>9 DEF PreReadFails, PreReadThrows, Release, Leave, Goto, maps, runVars, wireVars
<1>10. ASSUME NEW h \in Handlers, Resize(h), Observe
       PROVE  LocatedInv'
  BY <1>10 DEF Resize, Leave, Goto, locks, runVars, wireVars
<1>11. ASSUME NEW h \in Handlers, UpdateHit(h), UNCHANGED <<runVars, wireVars>>, Observe
       PROVE  LocatedInv'
  BY <1>11 DEF UpdateHit, Acquire, Goto, maps, runVars, wireVars
<1>12. ASSUME NEW h \in Handlers, UpdateMiss(h), UNCHANGED <<runVars, wireVars>>, Observe
       PROVE  LocatedInv'
  BY <1>12 DEF UpdateMiss, Insert, Acquire, Goto, runVars, wireVars
<1>13. ASSUME NEW h \in Handlers, SetDirty(h), UNCHANGED <<runVars, wireVars>>, Observe
       PROVE  LocatedInv'
  BY <1>13 DEF SetDirty, Release, Goto, runVars, wireVars
<1>14. ASSUME NEW h \in Handlers, NoteIndex(h), Observe
       PROVE  LocatedInv'
  BY <1>14 DEF NoteIndex, cacheVars, wireVars
<1>15. ASSUME NEW h \in Handlers, WriteToChunk(h), Observe
       PROVE  LocatedInv'
  BY <1>15 DEF WriteToChunk, Modify, Leave, Goto, locks, wireVars
<1>16. ASSUME NEW t \in Tasks, VisitNext(t), Observe
       PROVE  LocatedInv'
  <2>1. PICK k \in Ahead(t) :
          /\ \A l \in Ahead(t) : k <= l
          /\ \/ stage[t] = "invalidate" /\ Call(t, k, "readdirty")
             \/ stage[t] = "purge" /\ Call(t, k, "erase")
          /\ next' = [next EXCEPT ![t] = k + 1]
    BY <1>16 DEF VisitNext, CallInvalidate, CallPurge
  <2>2. \A l \in index : l < k + 1 => l = k \/ l < next[t]
    BY <2>1, DataAssumption DEF Ahead
  <2>3. /\ next'[t] = k + 1 /\ \A t2 \in Tasks : t2 # t => next'[t2] = next[t2]
        /\ key'[t] = k /\ \A t2 \in Tasks : t2 # t => key'[t2] = key[t2] /\ pc'[t2] = pc[t2]
        /\ pc[t] = "idle"
        /\ \A h \in Handlers : key'[h] = key[h] /\ pc'[h] = pc[h]
    BY <2>1 DEF Call, Goto
  <2>4. UNCHANGED <<index, stage, loc, maps, ref>> /\ (pc'[t] = "readdirty" \/ stage[t] = "purge")
    BY <1>16, <2>1 DEF VisitNext, Call, Goto, wireVars
  <2>5. /\ pc'[t] \notin {"onflush", "locate"}
        /\ \A h \in Handlers : Writing(h)' <=> Writing(h)
        /\ \A t2 \in Tasks : t2 # t => Alive(t2)' <=> Alive(t2)
    BY <2>1, <2>3, <2>4 DEF Call, Goto, maps
  <2>6. Unwritten' \subseteq Unwritten
    BY <2>3, <2>4, <2>5, <1>16
  <2>7. FlushedIsLocated'
    <3>1. ASSUME NEW t2 \in Tasks, NEW l \in (index \ raced)', FlushedBy(t2, l)'
          PROVE  loc'[l] # Missing
      <4>1. l \in index \ raced
        BY <1>16, <2>4
      <4>2. CASE t2 = t
        <5>1. CASE stage[t] = "purge"
          BY <2>4, <4>1, <4>2, <5>1
        <5>2. CASE stage[t] = "invalidate"
          <6>1. l < k + 1 /\ l # k
            BY <2>3, <2>4, <3>1, <4>2, <5>2
          <6>2. l < next[t]
            BY <2>2, <4>1, <6>1
          <6>3. FlushedBy(t, l)
            BY <2>3, <5>2, <6>2
          <6> QED  BY <2>4, <4>1, <4>2, <6>3
        <5> QED  BY <1>16, <5>1, <5>2 DEF VisitNext
      <4>3. CASE t2 # t
        BY <2>3, <2>4, <3>1, <4>1, <4>3
      <4> QED  BY <4>2, <4>3
    <3> QED  BY <3>1
  <2>8. FlushingIsCached'
    BY <1>16, <2>3, <2>4, <2>5
  <2>9. CleanIsLocated' /\ PurgedIsLocated'
    BY <1>16, <2>3, <2>4, <2>5 DEF maps
  <2> QED  BY <2>7, <2>8, <2>9
<1>17. ASSUME NEW t \in Tasks, LoopEnds(t), Observe
       PROVE  LocatedInv'
  <2>1. \A k \in index : k < next[t] /\ ~(k < 0)
    BY <1>17, DataAssumption DEF LoopEnds, Ahead
  <2>2. next'[t] = 0 /\ \A t2 \in Tasks : t2 # t => next'[t2] = next[t2] /\ stage'[t2] = stage[t2]
    BY <1>17 DEF LoopEnds
  <2> QED  BY <1>17, <2>1, <2>2 DEF LoopEnds, cacheVars, wireVars
<1>18. ASSUME NEW t \in Tasks, ReadDirtyHit(t), UNCHANGED <<runVars, wireVars>>, Observe
       PROVE  LocatedInv'
  BY <1>18 DEF ReadDirtyHit, Goto, maps, locks, runVars, wireVars
<1>19. ASSUME NEW t \in Tasks, ReadDirtyMiss(t), UNCHANGED <<runVars, wireVars>>, Observe
       PROVE  LocatedInv'
  BY <1>19 DEF ReadDirtyMiss, Leave, Goto, maps, locks, runVars, wireVars
<1>20. ASSUME NEW t \in Tasks, EraseFlushed(t), UNCHANGED <<runVars, wireVars>>, Observe
       PROVE  LocatedInv'
  BY <1>20 DEF EraseFlushed, Leave, Goto, locks, runVars, wireVars
<1>21. ASSUME NEW t \in Tasks, Deposit(t), Observe
       PROVE  LocatedInv'
  BY <1>21 DEF Deposit, Goto, maps, locks
<1>22. ASSUME NEW t \in Tasks, Locate(t), Observe
       PROVE  LocatedInv'
  <2>1. key[t] \in index \ raced => Alive(t) \/ loc[key[t]] # Missing
    BY <1>22 DEF Locate
  <2>2. key[t] \in index \ raced => loc'[key[t]] # Missing
    <3> HIDE DEF Alive
    <3> QED  BY <1>22, <2>1, LocatingLocates
  <2> QED  BY <1>22, <2>2 DEF Locate, Goto, maps, locks, runVars
<1>23. ASSUME NEW t \in Tasks, FlushThrows(t), Observe
       PROVE  LocatedInv'
  BY <1>23 DEF FlushThrows, Leave, Goto, maps, locks, wireVars
<1>24. ASSUME NEW t \in Tasks, EraseWhole(t), UNCHANGED <<runVars, wireVars>>, Observe
       PROVE  LocatedInv'
  BY <1>24 DEF EraseWhole, Goto, locks, runVars, wireVars
<1>25. ASSUME NEW t \in Tasks, EraseDirty(t), UNCHANGED <<runVars, wireVars>>, Observe
       PROVE  LocatedInv'
  BY <1>25 DEF EraseDirty, Goto, locks, runVars, wireVars
<1>26. ASSUME NEW t \in Tasks, OnEraseReturns(t), UNCHANGED <<runVars, wireVars>>, Observe
       PROVE  LocatedInv'
  BY <1>26 DEF OnEraseReturns, Leave, Goto, maps, locks, runVars, wireVars
<1>27. ASSUME NEW d \in BagToSet(deposits), SendDeposit(d), Observe
       PROVE  LocatedInv'
  BY <1>27 DEF SendDeposit, cacheVars, runVars
<1>28. ASSUME NEW d \in BagToSet(deposits), StoreDeposit(d), Observe
       PROVE  LocatedInv'
  BY <1>28 DEF StoreDeposit, cacheVars, runVars
<1>29. ASSUME NEW d \in BagToSet(deposits), LoseDeposit(d), Observe
       PROVE  LocatedInv'
  BY <1>29 DEF LoseDeposit, cacheVars, runVars
<1>30. ASSUME NEW r \in retrieves, Receive(r), Observe
       PROVE  LocatedInv'
  BY <1>30 DEF Receive, locks, runVars
<1>31. ASSUME NEW r \in retrieves, GiveUp(r), Observe
       PROVE  LocatedInv'
  BY <1>31 DEF GiveUp, cacheVars, runVars
<1>32. CASE UNCHANGED vars
  BY <1>32 DEF vars, cacheVars, runVars, wireVars
<1> QED
  BY <1>1, <1>2, <1>3, <1>4, <1>5, <1>6, <1>7, <1>8, <1>9, <1>10, <1>11,
     <1>12, <1>13, <1>14, <1>15, <1>16, <1>17, <1>18, <1>19, <1>20, <1>21,
     <1>22, <1>23, <1>24, <1>25, <1>26, <1>27, <1>28, <1>29, <1>30, <1>31,
     <1>32
     DEF Next, Start, HandlerStep, TaskStep, WireStep

-----------------------------------------------------------------------------
(***************************************************************************)
(* Empty pointers.                                                         *)
(***************************************************************************)
LEMMA NextNull == TypeOK /\ WriterInv /\ NullNeedsRace /\ [Next]_vars => NullNeedsRace'
<1> SUFFICES ASSUME TypeOK, WriterInv, NullNeedsRace, [Next]_vars
             PROVE  NullNeedsRace'
  OBVIOUS
<1>0. whole \in [Keys -> {"absent", "null", "live"}] /\ \A t \in Threads : pc[t] # "idle" => key[t] \in Keys
  BY DEF TypeOK, CacheTypeOK
<1>1. raced \subseteq raced'
  BY DEF Next, Observe, vars
<1>2. ASSUME \A k \in Keys : whole'[k] = "null" => whole[k] = "null"
      PROVE  NullNeedsRace'
  BY <1>1, <1>2 DEF NullNeedsRace
<1>3. CASE Start
  BY <1>2, <1>3 DEF Start, Raise, Create, Execute, CallLookup, CallUpdate, Call, maps
<1>4. ASSUME NEW h \in Handlers, HandlerStep(h)
      PROVE  NullNeedsRace'
  <2>1. CASE SetDirty(h)
    <3>1. key[h] \in Keys /\ pc[h] = "setdirty" /\ whole' = [whole EXCEPT ![key[h]] = IF @ = "absent" THEN "null" ELSE @]
      BY <1>0, <2>1 DEF SetDirty, At, Threads
    <3>2. key[h] \in raced \/ whole[key[h]] = "live"
      BY <3>1 DEF WriterInv, WriterHolds, Alive
    <3>3. \A k \in Keys : whole'[k] = "null" => whole[k] = "null" \/ k \in raced
      BY <1>0, <3>1, <3>2
    <3> QED  BY <1>1, <3>3 DEF NullNeedsRace
  <2>2. CASE InsertLoaded(h) \/ UpdateMiss(h)
    <3>1. whole' = [whole EXCEPT ![key[h]] = "live"]
      BY <2>2 DEF InsertLoaded, UpdateMiss, Insert
    <3> QED  BY <1>0, <1>2, <3>1
  <2>3. ASSUME whole' = whole
        PROVE  NullNeedsRace'
    BY <1>2, <2>3
  <2> QED
    BY <1>4, <2>1, <2>2, <2>3
       DEF HandlerStep, LookupHit, LookupMiss, Use, PreReadLocated, PreReadReturns, PreReadFails,
           PreReadThrows, Resize, UpdateHit, NoteIndex, WriteToChunk, Modify, maps, cacheVars
<1>5. ASSUME NEW t \in Tasks, TaskStep(t)
      PROVE  NullNeedsRace'
  <2>1. CASE EraseWhole(t)
    <3>1. whole' = [whole EXCEPT ![key[t]] = "absent"]
      BY <2>1 DEF EraseWhole
    <3> QED  BY <1>0, <1>2, <3>1
  <2>2. ASSUME whole' = whole
        PROVE  NullNeedsRace'
    BY <1>2, <2>2
  <2> QED
    BY <1>5, <2>1, <2>2
       DEF TaskStep, VisitNext, CallInvalidate, CallPurge, Call, LoopEnds, ReadDirtyHit, ReadDirtyMiss,
           EraseFlushed, Deposit, Locate, FlushThrows, EraseDirty, OnEraseReturns, maps, cacheVars
<1>6. CASE WireStep
  BY <1>2, <1>6 DEF WireStep, SendDeposit, StoreDeposit, LoseDeposit, Receive, GiveUp, cacheVars, maps
<1>7. CASE UNCHANGED vars
  BY <1>2, <1>7 DEF vars, cacheVars, maps
<1> QED  BY <1>3, <1>4, <1>5, <1>6, <1>7 DEF Next

-----------------------------------------------------------------------------
LEMMA InitDataInv == Init => DataInv
BY InitWriterInv, InitLocation, InitLocated DEF DataInv

LEMMA NextWriterInv == TypeOK /\ TypeOK' /\ WriterInv /\ [Next]_vars => WriterInv'
<1> SUFFICES ASSUME TypeOK, TypeOK', WriterInv, [Next]_vars
             PROVE  WriterInv'
  OBVIOUS
<1>1. (Roles /\ MutexHeld /\ AbsentInBetween)'
  BY NextLocks DEF WriterInv
<1>2. (WriterHolds /\ DirtyIsIndexed)'
  BY NextWriters
<1>3. RaceSeen'
  <2>1. CASE Next
    BY <2>1, RacesAreSeen DEF Next
  <2>2. CASE UNCHANGED vars
    BY <2>2 DEF WriterInv, RaceSeen, InTask, Writing, vars, cacheVars, runVars
  <2> QED  BY <2>1, <2>2
<1> QED  BY <1>1, <1>2, <1>3 DEF WriterInv

LEMMA NextDataInv == TypeOK /\ TypeOK' /\ DataInv /\ [Next]_vars => DataInv'
<1> SUFFICES ASSUME TypeOK, TypeOK', DataInv, [Next]_vars
             PROVE  DataInv'
  OBVIOUS
<1>1. WriterInv'
  BY NextWriterInv DEF DataInv
<1>2. (LocateAfterDeposit /\ LocationFollowsDeposit)'
  BY NextLocation DEF DataInv, WriterInv
<1>3. LocatedInv'
  BY NextLocated DEF DataInv
<1> QED  BY <1>1, <1>2, <1>3 DEF DataInv

LEMMA Invariance == Spec => []DataInv
<1>1. Init => TypeOK /\ DataInv
  BY InitTypeOK, InitDataInv
<1>2. TypeOK /\ DataInv /\ [Next]_vars => (TypeOK /\ DataInv)'
  BY NextTypeOK, NextDataInv
<1> QED  BY <1>1, <1>2, PTL DEF Spec

(***************************************************************************)
(* A flush finds every dirty chunk through index_map_, which write fills   *)
(* after it has marked the chunk, unless a dht_task ran during the write.  *)
(***************************************************************************)
THEOREM DirtyChunksAreIndexed == Spec => []DirtyIsIndexed
<1>1. DataInv => DirtyIsIndexed
  BY DEF DataInv, WriterInv
<1> QED  BY <1>1, Invariance, PTL

(***************************************************************************)
(* set_pair names a host for a chunk only when connect has handed the      *)
(* chunk to the io_service for that host: it is there, on its way, or lost.*)
(***************************************************************************)
THEOREM LocationsFollowDeposits == Spec => []LocationFollowsDeposit
<1>1. DataInv => LocationFollowsDeposit
  BY DEF DataInv
<1> QED  BY <1>1, Invariance, PTL

(***************************************************************************)
(* dht_task purges a chunk from the cache only when the DHT knows its host,*)
(* with any number of tasks at work and any of them thrown out half-way.   *)
(***************************************************************************)
THEOREM PurgedChunksAreLocated == Spec => []PurgedIsLocated
<1>1. DataInv => PurgedIsLocated
  BY DEF DataInv, LocatedInv
<1> QED  BY <1>1, Invariance, PTL

(***************************************************************************)
(* A write that no dht_task ran over goes to the cached chunk, which is    *)
(* marked dirty by then, and no other call takes the chunk from under it.  *)
(***************************************************************************)
THEOREM WritersHoldTheirChunk == Spec => []WriterHolds
<1>1. DataInv => WriterHolds
  BY DEF DataInv, WriterInv
<1> QED  BY <1>1, Invariance, PTL

(***************************************************************************)
(* The empty pointer that basic_cache::read excludes by an assertion is    *)
(* stored for a chunk only if a dht_task ran while the chunk was written.  *)
(***************************************************************************)
THEOREM NullsComeFromRaces == Spec => []NullNeedsRace
<1>1. Init => NullNeedsRace
  BY DEF Init, CacheInit, NullNeedsRace
<1>2. DataInv => WriterInv
  BY DEF DataInv
<1> QED  BY <1>1, <1>2, NextNull, Invariance, TypeCorrect, PTL DEF Spec

=============================================================================
