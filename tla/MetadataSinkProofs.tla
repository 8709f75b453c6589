------------------------- MODULE MetadataSinkProofs -------------------------
(***************************************************************************)
(* Safety of MetadataSink, for any keys and any number of file system      *)
(* calls and flush tasks.                                                  *)
(***************************************************************************)
EXTENDS MetadataSink, TLAPS

-----------------------------------------------------------------------------
(***************************************************************************)
(* Type correctness.                                                       *)
(***************************************************************************)
LEMMA InitTypeOK == Init => TypeOK
  BY CacheAssumption, MissingAssumption
     DEF Init, CacheInit, TypeOK, Labels, Contents, Empty, Earlier, Threads

LEMMA ObserveType == Observe => (raced \subseteq Keys => raced' \subseteq Keys)
  BY DEF Observe

LEMMA NextTypeOK == TypeOK /\ [Next]_vars => TypeOK'
<1> SUFFICES ASSUME TypeOK, [Next]_vars
             PROVE  TypeOK'
  OBVIOUS
<1> USE CacheAssumption, MissingAssumption
<1> USE DEF TypeOK, Labels, Contents, Threads, Empty, dhtVars
<1>1. ASSUME NEW k \in Keys, NEW h \in Handlers, Lookup(h, k), Observe
      PROVE  TypeOK'
  BY <1>1, ObserveType DEF Lookup, CallLookup, Call, Count, At, Goto, maps, locks
<1>2. ASSUME NEW k \in Keys, NEW h \in Handlers, Update(h, k), Observe
      PROVE  TypeOK'
  BY <1>2, ObserveType DEF Update, CallUpdate, Call, Count, At, Goto, maps, locks
<1>3. ASSUME NEW k \in Keys, NEW h \in Handlers, Purge(h, k), Observe
      PROVE  TypeOK'
  BY <1>3, ObserveType DEF Purge, CallPurge, Call, Count, At, Goto, maps, locks
<1>4. ASSUME NEW k \in Keys, NEW t \in Tasks, Invalidate(t, k), Observe
      PROVE  TypeOK'
  BY <1>4, ObserveType DEF Invalidate, CallInvalidate, Call, Count, At, Goto, maps, locks
<1>5. ASSUME NEW h \in Handlers, LookupHit(h), UNCHANGED <<dhtVars, tree>>, Observe
      PROVE  TypeOK'
  BY <1>5, ObserveType DEF LookupHit, At, Goto, maps, locks
<1>6. ASSUME NEW h \in Handlers, LookupMiss(h), UNCHANGED <<dhtVars, tree>>, Observe
      PROVE  TypeOK'
  BY <1>6, ObserveType DEF LookupMiss, Acquire, At, Goto, maps
<1>7. ASSUME NEW h \in Handlers, InsertLoaded(h), UNCHANGED <<dhtVars, tree>>, Observe
      PROVE  TypeOK'
  BY <1>7, ObserveType DEF InsertLoaded, Insert, Release, At, Goto
<1>8. ASSUME NEW h \in Handlers, Use(h), UNCHANGED <<dhtVars, tree>>, Observe
      PROVE  TypeOK'
  BY <1>8, ObserveType DEF Use, Leave, At, Goto, maps, locks
<1>9. ASSUME NEW h \in Handlers, PreReadFound(h), UNCHANGED tree, Observe
      PROVE  TypeOK'
  BY <1>9, ObserveType DEF PreReadFound, PreReadReturns, At, Goto, maps, locks
<1>10. ASSUME NEW h \in Handlers, PreReadFails(h), UNCHANGED tree, Observe
       PROVE  TypeOK'
  BY <1>10, ObserveType DEF PreReadFails, PreReadThrows, Release, Leave, At, Goto, maps
<1>11. ASSUME NEW h \in Handlers, UpdateHit(h), UNCHANGED <<dhtVars, tree>>, Observe
       PROVE  TypeOK'
  BY <1>11, ObserveType DEF UpdateHit, Acquire, At, Goto, maps
<1>12. ASSUME NEW h \in Handlers, UpdateMiss(h), UNCHANGED <<dhtVars, tree>>, Observe
       PROVE  TypeOK'
  BY <1>12, ObserveType DEF UpdateMiss, Insert, Acquire, At, Goto
<1>13. ASSUME NEW h \in Handlers, SetDirty(h), UNCHANGED <<dhtVars, tree>>, Observe
       PROVE  TypeOK'
  BY <1>13, ObserveType DEF SetDirty, Release, At, Goto
<1>14. ASSUME NEW h \in Handlers, tree # h, Modify(h), UNCHANGED <<dhtVars, tree>>, Observe
       PROVE  TypeOK'
  BY <1>14, ObserveType DEF Modify, Leave, At, Goto, locks
<1>15. ASSUME NEW h \in Handlers, EraseWhole(h), UNCHANGED <<dhtVars, tree>>, Observe
       PROVE  TypeOK'
  BY <1>15, ObserveType DEF EraseWhole, At, Goto, locks
<1>16. ASSUME NEW h \in Handlers, EraseDirty(h), UNCHANGED <<dhtVars, tree>>, Observe
       PROVE  TypeOK'
  BY <1>16, ObserveType DEF EraseDirty, At, Goto, locks
<1>17. ASSUME NEW h \in Handlers, OnErase(h), Observe
       PROVE  TypeOK'
  BY <1>17, ObserveType DEF OnErase, PurgeReturns, Put, Leave, At, Goto, maps, locks
<1>18. ASSUME NEW t \in Tasks, ReadDirtyHit(t), UNCHANGED dhtVars, UNCHANGED tree, Observe
       PROVE  TypeOK'
  BY <1>18, ObserveType DEF ReadDirtyHit, At, Goto, maps, locks
<1>19. ASSUME NEW t \in Tasks, ReadDirtyMiss(t), UNCHANGED dhtVars, UNCHANGED tree, Observe
       PROVE  TypeOK'
  BY <1>19, ObserveType DEF ReadDirtyMiss, Leave, At, Goto, maps, locks
<1>20. ASSUME NEW t \in Tasks, EraseFlushed(t), UNCHANGED dhtVars, UNCHANGED tree, Observe
       PROVE  TypeOK'
  BY <1>20, ObserveType DEF EraseFlushed, Leave, At, Goto, locks
<1>21. ASSUME NEW t \in Tasks, Serialise(t), UNCHANGED tree, Observe
       PROVE  TypeOK'
  BY <1>21, ObserveType DEF Serialise, At, Goto, maps, locks
<1>22. ASSUME NEW t \in Tasks, Store(t), UNCHANGED tree, Observe
       PROVE  TypeOK'
  BY <1>22, ObserveType DEF Store, Put, At, Goto, maps, locks
<1>23. ASSUME NEW t \in Tasks, StoreThrows(t), UNCHANGED tree, Observe
       PROVE  TypeOK'
  BY <1>23, ObserveType DEF StoreThrows, Leave, At, Goto, maps, locks
<1>24. ASSUME NEW k \in Keys, NEW h \in Handlers, Unlink(h, k), Observe
       PROVE  TypeOK'
  BY <1>24, ObserveType DEF Unlink, CallUpdate, Call, Count, At, Goto, maps, locks, dhtVars, TreeReadable, TreeWritable
<1>25. ASSUME NEW h \in Handlers, UnlinkDenied(h), Observe
       PROVE  TypeOK'
  BY <1>25, ObserveType DEF UnlinkDenied, Leave, At, Goto, maps, locks, dhtVars
<1>26. ASSUME NEW h \in Handlers, UnlinkPurges(h), Observe
       PROVE  TypeOK'
  BY <1>26, ObserveType DEF UnlinkPurges, At, Goto, maps, locks, dhtVars
<1>27. ASSUME NEW h \in Handlers, EraseData(h), Observe
       PROVE  TypeOK'
  BY <1>27, ObserveType DEF EraseData, Leave, At, Goto, maps, locks, dhtVars
<1>28. ASSUME NEW t \in Threads, RetryPut(t), Observe
       PROVE  TypeOK'
  BY <1>28, ObserveType DEF RetryPut, Put, At, cacheVars
<1>29. ASSUME NEW p \in sent, LatePut(p[1], p[2])
       PROVE  TypeOK'
  BY <1>29, ObserveType DEF LatePut, cacheVars
<1>30. CASE UNCHANGED vars
  BY <1>30 DEF vars, cacheVars, dhtVars
<1> QED
  BY <1>1, <1>2, <1>3, <1>4, <1>5, <1>6, <1>7, <1>8, <1>9, <1>10, <1>11, <1>12,
     <1>13, <1>14, <1>15, <1>16, <1>17, <1>18, <1>19, <1>20, <1>21, <1>22, <1>23, <1>24, <1>25, <1>26, <1>27, <1>28,
     <1>29, <1>30
     DEF Next, Start, HandlerStep, CacheStep, TaskStep, dhtVars

(***************************************************************************)
(* The state always has its type: among the rest, a thread has a key       *)
(* exactly while it is inside the cache.                                   *)
(***************************************************************************)
THEOREM TypeCorrect == Spec => []TypeOK
  BY InitTypeOK, NextTypeOK, PTL DEF Spec

-----------------------------------------------------------------------------
(***************************************************************************)
(* Objects and locks.                                                      *)
(***************************************************************************)
LEMMA InitObjectInv == Init => ObjectInv
  BY CacheAssumption
     DEF Init, CacheInit, ObjectInv, Roles, PurgeExcludes, MutexHeld, AbsentInBetween,
         PointersSet, OnlyUnlinkDangles, NoNullEntry, Purging, Threads

LEMMA NextObjectInv == TypeOK /\ ObjectInv /\ [Next]_vars => ObjectInv'
<1> SUFFICES ASSUME TypeOK, ObjectInv, [Next]_vars
             PROVE  ObjectInv'
  OBVIOUS
<1> USE CacheAssumption
<1> USE DEF dhtVars, TypeOK, Threads, ObjectInv, Roles, PurgeExcludes, MutexHeld, AbsentInBetween,
            PointersSet, OnlyUnlinkDangles, NoNullEntry, Purging, Alive, Free
<1>1. ASSUME NEW k \in Keys, NEW h \in Handlers, Lookup(h, k)
      PROVE  ObjectInv'
  BY <1>1 DEF Lookup, CallLookup, Call, Count, At, Goto, maps, locks, TreeReadable
<1>2. ASSUME NEW k \in Keys, NEW h \in Handlers, Update(h, k)
      PROVE  ObjectInv'
  BY <1>2 DEF Update, CallUpdate, Call, Count, At, Goto, maps, locks, TreeReadable
<1>3. ASSUME NEW k \in Keys, NEW h \in Handlers, Purge(h, k)
      PROVE  ObjectInv'
  BY <1>3 DEF Purge, CallPurge, Call, Count, At, Goto, maps, locks, TreeWritable
<1>4. ASSUME NEW k \in Keys, NEW t \in Tasks, Invalidate(t, k)
      PROVE  ObjectInv'
  BY <1>4 DEF Invalidate, CallInvalidate, Call, Count, At, Goto, maps, locks
<1>5. ASSUME NEW h \in Handlers, LookupHit(h), UNCHANGED <<dhtVars, tree>>
      PROVE  ObjectInv'
  BY <1>5 DEF LookupHit, At, Goto, maps, locks
<1>6. ASSUME NEW h \in Handlers, LookupMiss(h), UNCHANGED <<dhtVars, tree>>
      PROVE  ObjectInv'
  BY <1>6 DEF LookupMiss, Acquire, At, Goto, maps
<1>7. ASSUME NEW h \in Handlers, InsertLoaded(h), UNCHANGED <<dhtVars, tree>>
      PROVE  ObjectInv'
  BY <1>7 DEF InsertLoaded, Insert, Release, At, Goto
<1>8. ASSUME NEW h \in Handlers, Use(h), UNCHANGED <<dhtVars, tree>>
      PROVE  ObjectInv'
  BY <1>8 DEF Use, Leave, At, Goto, maps, locks
<1>9. ASSUME NEW h \in Handlers, PreReadFound(h), UNCHANGED tree
      PROVE  ObjectInv'
  BY <1>9 DEF PreReadFound, PreReadReturns, At, Goto, maps, locks
<1>10. ASSUME NEW h \in Handlers, PreReadFails(h), UNCHANGED tree
       PROVE  ObjectInv'
  BY <1>10 DEF PreReadFails, PreReadThrows, Release, Leave, At, Goto, maps
<1>11. ASSUME NEW h \in Handlers, UpdateHit(h), UNCHANGED <<dhtVars, tree>>
       PROVE  ObjectInv'
  BY <1>11 DEF UpdateHit, Acquire, At, Goto, maps
<1>12. ASSUME NEW h \in Handlers, UpdateMiss(h), UNCHANGED <<dhtVars, tree>>
       PROVE  ObjectInv'
  BY <1>12 DEF UpdateMiss, Insert, Acquire, At, Goto
<1>13. ASSUME NEW h \in Handlers, SetDirty(h), UNCHANGED <<dhtVars, tree>>
       PROVE  ObjectInv'
  BY <1>13 DEF SetDirty, Release, At, Goto
<1>14. ASSUME NEW h \in Handlers, tree # h, Modify(h), UNCHANGED <<dhtVars, tree>>
       PROVE  ObjectInv'
  BY <1>14 DEF Modify, Leave, At, Goto, locks
<1>15. ASSUME NEW h \in Handlers, EraseWhole(h), UNCHANGED <<dhtVars, tree>>
       PROVE  ObjectInv'
  BY <1>15 DEF EraseWhole, At, Goto, locks
<1>16. ASSUME NEW h \in Handlers, EraseDirty(h), UNCHANGED <<dhtVars, tree>>
       PROVE  ObjectInv'
  BY <1>16 DEF EraseDirty, At, Goto, locks
<1>17. ASSUME NEW h \in Handlers, OnErase(h)
       PROVE  ObjectInv'
  BY <1>17 DEF OnErase, PurgeReturns, Put, Leave, At, Goto, maps, locks
<1>18. ASSUME NEW t \in Tasks, ReadDirtyHit(t), UNCHANGED dhtVars, UNCHANGED tree
       PROVE  ObjectInv'
  BY <1>18 DEF ReadDirtyHit, At, Goto, maps, locks
<1>19. ASSUME NEW t \in Tasks, ReadDirtyMiss(t), UNCHANGED dhtVars, UNCHANGED tree
       PROVE  ObjectInv'
  BY <1>19 DEF ReadDirtyMiss, Leave, At, Goto, maps, locks
<1>20. ASSUME NEW t \in Tasks, EraseFlushed(t), UNCHANGED dhtVars, UNCHANGED tree
       PROVE  ObjectInv'
  BY <1>20 DEF EraseFlushed, Leave, At, Goto, locks
<1>21. ASSUME NEW t \in Tasks, Serialise(t), UNCHANGED tree
       PROVE  ObjectInv'
  BY <1>21 DEF Serialise, At, Goto, maps, locks
<1>22. ASSUME NEW t \in Tasks, Store(t), UNCHANGED tree
       PROVE  ObjectInv'
  BY <1>22 DEF Store, Put, At, Goto, maps, locks
<1>23. ASSUME NEW t \in Tasks, StoreThrows(t), UNCHANGED tree
       PROVE  ObjectInv'
  BY <1>23 DEF StoreThrows, Leave, At, Goto, maps, locks
<1>24. ASSUME NEW k \in Keys, NEW h \in Handlers, Unlink(h, k)
       PROVE  ObjectInv'
  BY <1>24 DEF Unlink, CallUpdate, Call, Count, At, Goto, maps, locks, dhtVars, TreeReadable, TreeWritable
<1>25. ASSUME NEW h \in Handlers, UnlinkDenied(h)
       PROVE  ObjectInv'
  BY <1>25 DEF UnlinkDenied, Leave, At, Goto, maps, locks, dhtVars
<1>26. ASSUME NEW h \in Handlers, UnlinkPurges(h)
       PROVE  ObjectInv'
  BY <1>26 DEF UnlinkPurges, At, Goto, maps, locks, dhtVars
<1>27. ASSUME NEW h \in Handlers, EraseData(h)
       PROVE  ObjectInv'
  BY <1>27 DEF EraseData, Leave, At, Goto, maps, locks, dhtVars
<1>28. ASSUME NEW t \in Threads, RetryPut(t)
       PROVE  ObjectInv'
  BY <1>28 DEF RetryPut, Put, At, cacheVars
<1>29. ASSUME NEW p \in sent, LatePut(p[1], p[2])
       PROVE  ObjectInv'
  BY <1>29 DEF LatePut, cacheVars, At
<1>30. CASE UNCHANGED vars
  BY <1>30 DEF vars, cacheVars, dhtVars, At
<1> QED
  BY <1>1, <1>2, <1>3, <1>4, <1>5, <1>6, <1>7, <1>8, <1>9, <1>10, <1>11,
     <1>12, <1>13, <1>14, <1>15, <1>16, <1>17, <1>18, <1>19, <1>20, <1>21,
     <1>22, <1>23, <1>24, <1>25, <1>26, <1>27, <1>28,
     <1>29, <1>30
     DEF Next, Start, HandlerStep, CacheStep, TaskStep, dhtVars

LEMMA ObjectInvariance == Spec => [](TypeOK /\ ObjectInv)
<1>1. Init => TypeOK /\ ObjectInv
  BY InitTypeOK, InitObjectInv
<1>2. TypeOK /\ ObjectInv /\ [Next]_vars => (TypeOK /\ ObjectInv)'
  BY NextTypeOK, NextObjectInv
<1> QED
  BY <1>1, <1>2, PTL DEF Spec

(***************************************************************************)
(* A pointer to a freed attribute is in nobody's hands but unlink's: the   *)
(* mutexes and the tree lock together keep every purge away from the calls *)
(* of the others, and nothing keeps unlink from its own.                   *)
(***************************************************************************)
THEOREM OnlyUnlinkFollowsFreed == Spec => []OnlyUnlinkDangles
<1>1. ObjectInv => OnlyUnlinkDangles
  BY DEF ObjectInv
<1> QED
  BY <1>1, ObjectInvariance, PTL

(***************************************************************************)
(* For the same reason set_dirty finds the object its caller has looked    *)
(* up, and the subscript in it never puts an empty pointer into whole_.    *)
(***************************************************************************)
THEOREM NothingIsNull == Spec => []NoNullEntry
<1>1. ObjectInv => NoNullEntry
  BY DEF ObjectInv
<1> QED
  BY <1>1, ObjectInvariance, PTL

-----------------------------------------------------------------------------
(***************************************************************************)
(* Content.                                                                *)
(***************************************************************************)
LEMMA InitContentInv == Init => ContentInv
  BY CacheAssumption
     DEF Init, CacheInit, ContentInv, OverlapSeen, FlushCarriesCached, LoadCarriesStored,
         WriterMarked, NameStaysKnown, UnflushedIsDirty, LoadedThenPurged, SecondLoadNeedsRace,
         Overlap, Flushing, Changing, At, Threads

\* Observe remembers the overlaps, and forgets none.
LEMMA ObserveOverlaps ==
  ASSUME Observe
  PROVE  OverlapSeen' /\ raced \subseteq raced'
  BY DEF Observe, OverlapSeen

LEMMA NextContentInv == TypeOK /\ ObjectInv /\ ContentInv /\ [Next]_vars => ContentInv'
<1> SUFFICES ASSUME TypeOK, ObjectInv, ContentInv, [Next]_vars
             PROVE  ContentInv'
  OBVIOUS
<1> USE CacheAssumption, MissingAssumption, ObserveOverlaps
<1> USE DEF dhtVars, TypeOK, Threads, Contents, ObjectInv, Roles, PurgeExcludes, MutexHeld, AbsentInBetween,
            PointersSet, OnlyUnlinkDangles, NoNullEntry, Purging, Alive, Free, At,
            ContentInv, FlushCarriesCached, LoadCarriesStored,
            WriterMarked, NameStaysKnown, NameLookedUp, UnflushedIsDirty, LoadedThenPurged,
            SecondLoadNeedsRace,
            Flushing, Changing, BeingErased
<1>1. ASSUME NEW k \in Keys, NEW h \in Handlers, Lookup(h, k), Observe
      PROVE  ContentInv'
  BY <1>1 DEF Lookup, CallLookup, Call, Count, At, Goto, maps, locks, TreeReadable
<1>2. ASSUME NEW k \in Keys, NEW h \in Handlers, Update(h, k), Observe
      PROVE  ContentInv'
  BY <1>2 DEF Update, CallUpdate, Call, Count, At, Goto, maps, locks, TreeReadable
<1>3. ASSUME NEW k \in Keys, NEW h \in Handlers, Purge(h, k), Observe
      PROVE  ContentInv'
  BY <1>3 DEF Purge, CallPurge, Call, Count, At, Goto, maps, locks, TreeWritable
<1>4. ASSUME NEW k \in Keys, NEW t \in Tasks, Invalidate(t, k), Observe
      PROVE  ContentInv'
  BY <1>4 DEF Invalidate, CallInvalidate, Call, Count, At, Goto, maps, locks
<1>5. ASSUME NEW h \in Handlers, LookupHit(h), UNCHANGED <<dhtVars, tree>>, Observe
      PROVE  ContentInv'
  BY <1>5 DEF LookupHit, At, Goto, maps, locks
<1>6. ASSUME NEW h \in Handlers, LookupMiss(h), UNCHANGED <<dhtVars, tree>>, Observe
      PROVE  ContentInv'
  BY <1>6 DEF LookupMiss, Acquire, At, Goto, maps
<1>7. ASSUME NEW h \in Handlers, InsertLoaded(h), UNCHANGED <<dhtVars, tree>>, Observe
      PROVE  ContentInv'
  BY <1>7 DEF InsertLoaded, Insert, Release, At, Goto
<1>8. ASSUME NEW h \in Handlers, Use(h), UNCHANGED <<dhtVars, tree>>, Observe
      PROVE  ContentInv'
  BY <1>8 DEF Use, Leave, At, Goto, maps, locks
<1>9. ASSUME NEW h \in Handlers, PreReadFound(h), UNCHANGED tree, Observe
      PROVE  ContentInv'
  BY <1>9 DEF PreReadFound, PreReadReturns, At, Goto, maps, locks
<1>10. ASSUME NEW h \in Handlers, PreReadFails(h), UNCHANGED tree, Observe
       PROVE  ContentInv'
  BY <1>10 DEF PreReadFails, PreReadThrows, Release, Leave, At, Goto, maps
<1>11. ASSUME NEW h \in Handlers, UpdateHit(h), UNCHANGED <<dhtVars, tree>>, Observe
       PROVE  ContentInv'
  BY <1>11 DEF UpdateHit, Acquire, At, Goto, maps
<1>12. ASSUME NEW h \in Handlers, UpdateMiss(h), UNCHANGED <<dhtVars, tree>>, Observe
       PROVE  ContentInv'
  BY <1>12 DEF UpdateMiss, Insert, Acquire, At, Goto
<1>13. ASSUME NEW h \in Handlers, SetDirty(h), UNCHANGED <<dhtVars, tree>>, Observe
       PROVE  ContentInv'
  BY <1>13 DEF SetDirty, Release, At, Goto
<1>14. ASSUME NEW h \in Handlers, tree # h, Modify(h), UNCHANGED <<dhtVars, tree>>, Observe
       PROVE  ContentInv'
  BY <1>14 DEF Modify, Leave, At, Goto, locks, OverlapSeen, Overlap
<1>15. ASSUME NEW h \in Handlers, EraseWhole(h), UNCHANGED <<dhtVars, tree>>, Observe
       PROVE  ContentInv'
  BY <1>15 DEF EraseWhole, At, Goto, locks, OverlapSeen, Overlap
<1>16. ASSUME NEW h \in Handlers, EraseDirty(h), UNCHANGED <<dhtVars, tree>>, Observe
       PROVE  ContentInv'
  BY <1>16 DEF EraseDirty, At, Goto, locks, OverlapSeen, Overlap
<1>17. ASSUME NEW h \in Handlers, OnErase(h), Observe
       PROVE  ContentInv'
  <2>1. CASE ref[h] = 0
    BY <1>17, <2>1 DEF OnErase, PurgeReturns, Put, Leave, At, Goto, maps, locks, OverlapSeen, Overlap
  <2>2. CASE ref[h] # 0
    BY <1>17, <2>2 DEF OnErase, PurgeReturns, Put, At, Goto, maps, locks, OverlapSeen, Overlap
  <2> QED
    BY <2>1, <2>2
<1>18. ASSUME NEW t \in Tasks, ReadDirtyHit(t), UNCHANGED dhtVars, UNCHANGED tree, Observe
       PROVE  ContentInv'
  BY <1>18 DEF ReadDirtyHit, At, Goto, maps, locks
<1>19. ASSUME NEW t \in Tasks, ReadDirtyMiss(t), UNCHANGED dhtVars, UNCHANGED tree, Observe
       PROVE  ContentInv'
  BY <1>19 DEF ReadDirtyMiss, Leave, At, Goto, maps, locks
<1>20. ASSUME NEW t \in Tasks, EraseFlushed(t), UNCHANGED dhtVars, UNCHANGED tree, Observe
       PROVE  ContentInv'
  BY <1>20 DEF EraseFlushed, Leave, At, Goto, locks, OverlapSeen, Overlap
<1>21. ASSUME NEW t \in Tasks, Serialise(t), UNCHANGED tree, Observe
       PROVE  ContentInv'
  BY <1>21 DEF Serialise, At, Goto, maps, locks
<1>22. ASSUME NEW t \in Tasks, Store(t), UNCHANGED tree, Observe
       PROVE  ContentInv'
  BY <1>22 DEF Store, Put, At, Goto, maps, locks
<1>23. ASSUME NEW t \in Tasks, StoreThrows(t), UNCHANGED tree, Observe
       PROVE  ContentInv'
  BY <1>23 DEF StoreThrows, Leave, At, Goto, maps, locks
<1>24. ASSUME NEW k \in Keys, NEW h \in Handlers, Unlink(h, k), Observe
       PROVE  ContentInv'
  BY <1>24 DEF Unlink, CallUpdate, Call, Count, At, Goto, maps, locks, dhtVars, TreeReadable, TreeWritable, OverlapSeen, Overlap
<1>25. ASSUME NEW h \in Handlers, UnlinkDenied(h), Observe
       PROVE  ContentInv'
  BY <1>25 DEF UnlinkDenied, Leave, At, Goto, maps, locks, dhtVars, OverlapSeen, Overlap
<1>26. ASSUME NEW h \in Handlers, UnlinkPurges(h), Observe
       PROVE  ContentInv'
  BY <1>26 DEF UnlinkPurges, At, Goto, maps, locks, dhtVars, OverlapSeen, Overlap
<1>27. ASSUME NEW h \in Handlers, EraseData(h), Observe
       PROVE  ContentInv'
  BY <1>27 DEF EraseData, Leave, At, Goto, maps, locks, dhtVars, OverlapSeen, Overlap
<1>28. ASSUME NEW t \in Threads, RetryPut(t), Observe
       PROVE  ContentInv'
  BY <1>28 DEF RetryPut, Put, At, cacheVars, OverlapSeen, Overlap
<1>29. ASSUME NEW p \in sent, LatePut(p[1], p[2])
       PROVE  ContentInv'
  BY <1>29 DEF LatePut, cacheVars, OverlapSeen, Overlap
<1>30. CASE UNCHANGED vars
  BY <1>30 DEF vars, cacheVars, dhtVars, OverlapSeen, Overlap
<1> QED
  BY <1>1, <1>2, <1>3, <1>4, <1>5, <1>6, <1>7, <1>8, <1>9, <1>10, <1>11,
     <1>12, <1>13, <1>14, <1>15, <1>16, <1>17, <1>18, <1>19, <1>20, <1>21,
     <1>22, <1>23, <1>24, <1>25, <1>26, <1>27, <1>28,
     <1>29, <1>30
     DEF Next, Start, HandlerStep, CacheStep, TaskStep, dhtVars

LEMMA Invariance == Spec => [](TypeOK /\ ObjectInv /\ ContentInv)
<1>1. Init => TypeOK /\ ObjectInv /\ ContentInv
  BY InitTypeOK, InitObjectInv, InitContentInv
<1>2. TypeOK /\ ObjectInv /\ ContentInv /\ [Next]_vars => (TypeOK /\ ObjectInv /\ ContentInv)'
  BY NextTypeOK, NextObjectInv, NextContentInv
<1> QED
  BY <1>1, <1>2, PTL DEF Spec

(***************************************************************************)
(* Nothing is forgotten by the write-back: a cached attribute that differs *)
(* from the DHT carries a dirty mark, for any schedule of flushes that did *)
(* not overlap a change of that attribute, and any number of puts that were*)
(* sent again, as long as none of an old value is executed late.           *)
(***************************************************************************)
THEOREM DirtyMarksAreKept == Spec => []UnflushedIsDirty
<1>1. ContentInv => UnflushedIsDirty
  BY DEF ContentInv
<1> QED
  BY <1>1, Invariance, PTL

(***************************************************************************)
(* The CV mutex, which is never unlocked, blocks nobody on a key that was  *)
(* not raced: such a key is loaded from the DHT at most once.              *)
(***************************************************************************)
THEOREM LoadedAtMostOnce == Spec => []SecondLoadNeedsRace
<1>1. ContentInv => SecondLoadNeedsRace
  BY DEF ContentInv
<1> QED
  BY <1>1, Invariance, PTL

-----------------------------------------------------------------------------
(***************************************************************************)
(* Nobody waits in vain.                                                   *)
(***************************************************************************)
Critical == {"preread", "cvlock", "setdirty"}

\* Steps outside the critical sections, those into one, within one and out.
LEMMA OutsideKeepsOwners ==
  ASSUME MutexOwned, TypeOK, NEW t \in Threads, pc[t] \notin Critical, owner' = owner,
         \A u \in Threads : u # t => pc'[u] = pc[u] /\ key'[u] = key[u]
  PROVE  MutexOwned'
BY DEF MutexOwned, TypeOK, Critical, Threads

LEMMA EnteringKeepsOwners ==
  ASSUME MutexOwned, TypeOK, NEW h \in Handlers, pc[h] \notin Critical, key[h] \in Keys,
         Acquire(h), key' = key, NEW l \in Critical, Goto(h, l)
  PROVE  MutexOwned'
BY DEF MutexOwned, TypeOK, Critical, Threads, Acquire, Goto

LEMMA StayingKeepsOwners ==
  ASSUME MutexOwned, TypeOK, NEW h \in Handlers, owner' = owner, key' = key,
         NEW l \in Critical, Goto(h, l)
  PROVE  MutexOwned'
BY DEF MutexOwned, TypeOK, Critical, Threads, Goto

LEMMA LeavingKeepsOwners ==
  ASSUME MutexOwned, MutexHeld, TypeOK, NEW h \in Handlers, pc[h] \in Critical, Release(h),
         \A u \in Threads : u # h => pc'[u] = pc[u] /\ key'[u] = key[u]
  PROVE  MutexOwned'
<1>1. ASSUME NEW k \in Keys, owner'[k] # Nobody
      PROVE  owner'[k] = owner[k] /\ owner[k] # h
  BY <1>1 DEF MutexOwned, MutexHeld, TypeOK, Critical, Threads, Release
<1> QED
  BY <1>1 DEF MutexOwned, TypeOK, Critical, Threads

LEMMA NextMutexOwned == TypeOK /\ ObjectInv /\ MutexOwned /\ [Next]_vars => MutexOwned'
<1> SUFFICES ASSUME TypeOK, ObjectInv, MutexOwned, [Next]_vars
             PROVE  MutexOwned'
  OBVIOUS
<1> USE DEF At, Threads
<1>1. ASSUME NEW k \in Keys, NEW h \in Handlers,
             Lookup(h, k) \/ Update(h, k) \/ Purge(h, k) \/ Unlink(h, k)
      PROVE  MutexOwned'
  <2>1. /\ pc[h] = "idle" /\ owner' = owner
        /\ \A u \in Threads : u # h => pc'[u] = pc[u] /\ key'[u] = key[u]
    BY <1>1 DEF Lookup, Update, Purge, Unlink, CallLookup, CallUpdate, CallPurge, Call, Goto, locks, TypeOK
  <2> QED BY <2>1, OutsideKeepsOwners DEF Critical
<1>2. ASSUME NEW k \in Keys, NEW t \in Tasks, Invalidate(t, k)
      PROVE  MutexOwned'
  <2>1. /\ pc[t] = "idle" /\ owner' = owner
        /\ \A u \in Threads : u # t => pc'[u] = pc[u] /\ key'[u] = key[u]
    BY <1>2 DEF Invalidate, CallInvalidate, Call, Goto, locks, TypeOK
  <2> QED BY <2>1, OutsideKeepsOwners DEF Critical
<1>3. ASSUME NEW h \in Handlers,
             \/ LookupHit(h) \/ Use(h) \/ Modify(h) \/ EraseWhole(h) \/ EraseDirty(h)
             \/ OnErase(h) \/ UnlinkDenied(h) \/ UnlinkPurges(h) \/ EraseData(h)
      PROVE  MutexOwned'
  <2>1. /\ pc[h] \in {"lookup", "use", "modify", "erase", "erasedirty", "onerase", "erasedata"}
        /\ owner' = owner
        /\ \A u \in Threads : u # h => pc'[u] = pc[u] /\ key'[u] = key[u]
    BY <1>3 DEF LookupHit, Use, Modify, EraseWhole, EraseDirty, OnErase, PurgeReturns,
                UnlinkDenied, UnlinkPurges, EraseData, Leave, Goto, locks, TypeOK
  <2> QED BY <2>1, OutsideKeepsOwners DEF Critical
<1>4. ASSUME NEW h \in Handlers, LookupMiss(h) \/ UpdateHit(h) \/ UpdateMiss(h)
      PROVE  MutexOwned'
  <2>1. /\ pc[h] \in {"lookup", "update"} /\ Acquire(h) /\ key' = key
        /\ Goto(h, "preread") \/ Goto(h, "setdirty")
    BY <1>4 DEF LookupMiss, UpdateHit, UpdateMiss
  <2>2. key[h] \in Keys
    BY <2>1, CacheAssumption DEF TypeOK
  <2> QED BY <2>1, <2>2, EnteringKeepsOwners DEF Critical
<1>5. ASSUME NEW h \in Handlers, PreReadFound(h), UNCHANGED tree
      PROVE  MutexOwned'
  <2>1. owner' = owner /\ key' = key /\ Goto(h, "cvlock")
    BY <1>5 DEF PreReadFound, PreReadReturns, locks
  <2> QED BY <2>1, StayingKeepsOwners DEF Critical
<1>6. ASSUME NEW h \in Handlers, PreReadFails(h) \/ InsertLoaded(h) \/ SetDirty(h)
      PROVE  MutexOwned'
  <2>1. /\ pc[h] \in Critical /\ Release(h)
        /\ \A u \in Threads : u # h => pc'[u] = pc[u] /\ key'[u] = key[u]
    BY <1>6 DEF PreReadFails, PreReadThrows, InsertLoaded, SetDirty, Leave, Goto, Critical, TypeOK
  <2> QED BY <2>1, LeavingKeepsOwners DEF ObjectInv
<1>7. ASSUME NEW t \in Tasks, TaskStep(t)
      PROVE  MutexOwned'
  <2>1. /\ pc[t] \in {"readdirty", "onflush", "store", "eraseflushed"} /\ owner' = owner
        /\ \A u \in Threads : u # t => pc'[u] = pc[u] /\ key'[u] = key[u]
    BY <1>7 DEF TaskStep, ReadDirtyHit, ReadDirtyMiss, EraseFlushed, Serialise, Store, StoreThrows,
                Leave, Goto, locks, TypeOK
  <2> QED BY <2>1, OutsideKeepsOwners DEF Critical
<1>8. ASSUME UNCHANGED cacheVars
      PROVE  MutexOwned'
  BY <1>8 DEF cacheVars, MutexOwned
<1> QED
  BY <1>1, <1>2, <1>3, <1>4, <1>5, <1>6, <1>7, <1>8
     DEF Next, Start, HandlerStep, CacheStep, RetryPut, LatePut, vars

(***************************************************************************)
(* What CallsReturn needs of safety, for any number of threads: no call    *)
(* leaves the cache with a mutex, and as long as a key was not raced, who  *)
(* is inside the cache with it can go on or waits for one who can.         *)
(***************************************************************************)
THEOREM CallsCanGoOn == Spec => []NobodyWaitsInVain
<1>1. Init => MutexOwned
  BY DEF Init, CacheInit, MutexOwned
<1>2. TypeOK /\ ObjectInv /\ ContentInv /\ MutexOwned => NobodyWaitsInVain
  <2> SUFFICES ASSUME TypeOK, ObjectInv, ContentInv, MutexOwned,
                      NEW t \in Threads, key[t] \in Keys \ raced, ~CanGoOn(t)
               PROVE  LET g == owner[key[t]]
                      IN  g \in Handlers /\ key[g] = key[t] /\ CanGoOn(g)
    BY DEF NobodyWaitsInVain
  <2>1. \A h \in Handlers : pc[h] = "cvlock" /\ key[h] \in cv => key[h] \in raced
    BY DEF ContentInv, SecondLoadNeedsRace, At
  <2>2. \A k \in Keys : whole[k] # "null"
    BY DEF ObjectInv, NoNullEntry
  <2>3. pc[t] = "cvlock" => t \in Handlers
    BY DEF ObjectInv, Roles, Threads
  <2>4. ~Free(key[t])
    BY <2>1, <2>2, <2>3 DEF CanGoOn
  <2> DEFINE g == owner[key[t]]
  <2>5. g \in Handlers /\ key[g] = key[t] /\ pc[g] \in {"preread", "cvlock", "setdirty"}
    BY <2>4 DEF MutexOwned, Free
  <2>6. CanGoOn(g)
    BY <2>1, <2>5 DEF CanGoOn
  <2> QED BY <2>5, <2>6
<1> QED
  BY <1>1, <1>2, NextMutexOwned, Invariance, PTL DEF Spec

-----------------------------------------------------------------------------
(***************************************************************************)
(* Pointers to a cached attribute are pointers to one object.              *)
(***************************************************************************)
Replaces == \E k \in Keys : whole[k] = "live" /\ whole'[k] = "live" /\ gen'[k] # gen[k]

LEMMA StepNeverReplaces == TypeOK /\ ObjectInv /\ [Next]_vars => ~Replaces
<1> SUFFICES ASSUME TypeOK, ObjectInv, [Next]_vars
             PROVE  ~Replaces
  OBVIOUS
<1> USE CacheAssumption
<1> USE DEF dhtVars, TypeOK, Threads, ObjectInv, AbsentInBetween, Replaces
<1>1. ASSUME NEW k \in Keys, NEW h \in Handlers, Lookup(h, k)
      PROVE  ~Replaces
  BY <1>1 DEF Lookup, CallLookup, Call, Count, At, Goto, maps, locks
<1>2. ASSUME NEW k \in Keys, NEW h \in Handlers, Update(h, k)
      PROVE  ~Replaces
  BY <1>2 DEF Update, CallUpdate, Call, Count, At, Goto, maps, locks
<1>3. ASSUME NEW k \in Keys, NEW h \in Handlers, Purge(h, k)
      PROVE  ~Replaces
  BY <1>3 DEF Purge, CallPurge, Call, Count, At, Goto, maps, locks
<1>4. ASSUME NEW k \in Keys, NEW t \in Tasks, Invalidate(t, k)
      PROVE  ~Replaces
  BY <1>4 DEF Invalidate, CallInvalidate, Call, Count, At, Goto, maps, locks
<1>5. ASSUME NEW h \in Handlers, LookupHit(h), UNCHANGED <<dhtVars, tree>>
      PROVE  ~Replaces
  BY <1>5 DEF LookupHit, At, Goto, maps, locks
<1>6. ASSUME NEW h \in Handlers, LookupMiss(h), UNCHANGED <<dhtVars, tree>>
      PROVE  ~Replaces
  BY <1>6 DEF LookupMiss, Acquire, At, Goto, maps
<1>7. ASSUME NEW h \in Handlers, InsertLoaded(h), UNCHANGED <<dhtVars, tree>>
      PROVE  ~Replaces
  BY <1>7 DEF InsertLoaded, Insert, Release, At, Goto
<1>8. ASSUME NEW h \in Handlers, Use(h), UNCHANGED <<dhtVars, tree>>
      PROVE  ~Replaces
  BY <1>8 DEF Use, Leave, At, Goto, maps, locks
<1>9. ASSUME NEW h \in Handlers, PreReadFound(h), UNCHANGED tree
      PROVE  ~Replaces
  BY <1>9 DEF PreReadFound, PreReadReturns, At, Goto, maps, locks
<1>10. ASSUME NEW h \in Handlers, PreReadFails(h), UNCHANGED tree
       PROVE  ~Replaces
  BY <1>10 DEF PreReadFails, PreReadThrows, Release, Leave, At, Goto, maps
<1>11. ASSUME NEW h \in Handlers, UpdateHit(h), UNCHANGED <<dhtVars, tree>>
       PROVE  ~Replaces
  BY <1>11 DEF UpdateHit, Acquire, At, Goto, maps
<1>12. ASSUME NEW h \in Handlers, UpdateMiss(h), UNCHANGED <<dhtVars, tree>>
       PROVE  ~Replaces
  BY <1>12 DEF UpdateMiss, Insert, Acquire, At, Goto
<1>13. ASSUME NEW h \in Handlers, SetDirty(h), UNCHANGED <<dhtVars, tree>>
       PROVE  ~Replaces
  BY <1>13 DEF SetDirty, Release, At, Goto
<1>14. ASSUME NEW h \in Handlers, tree # h, Modify(h), UNCHANGED <<dhtVars, tree>>
       PROVE  ~Replaces
  BY <1>14 DEF Modify, Leave, At, Goto, locks
<1>15. ASSUME NEW h \in Handlers, EraseWhole(h), UNCHANGED <<dhtVars, tree>>
       PROVE  ~Replaces
  BY <1>15 DEF EraseWhole, At, Goto, locks
<1>16. ASSUME NEW h \in Handlers, EraseDirty(h), UNCHANGED <<dhtVars, tree>>
       PROVE  ~Replaces
  BY <1>16 DEF EraseDirty, At, Goto, locks
<1>17. ASSUME NEW h \in Handlers, OnErase(h)
       PROVE  ~Replaces
  BY <1>17 DEF OnErase, PurgeReturns, Put, Leave, At, Goto, maps, locks
<1>18. ASSUME NEW t \in Tasks, ReadDirtyHit(t), UNCHANGED dhtVars, UNCHANGED tree
       PROVE  ~Replaces
  BY <1>18 DEF ReadDirtyHit, At, Goto, maps, locks
<1>19. ASSUME NEW t \in Tasks, ReadDirtyMiss(t), UNCHANGED dhtVars, UNCHANGED tree
       PROVE  ~Replaces
  BY <1>19 DEF ReadDirtyMiss, Leave, At, Goto, maps, locks
<1>20. ASSUME NEW t \in Tasks, EraseFlushed(t), UNCHANGED dhtVars, UNCHANGED tree
       PROVE  ~Replaces
  BY <1>20 DEF EraseFlushed, Leave, At, Goto, locks
<1>21. ASSUME NEW t \in Tasks, Serialise(t), UNCHANGED tree
       PROVE  ~Replaces
  BY <1>21 DEF Serialise, At, Goto, maps, locks
<1>22. ASSUME NEW t \in Tasks, Store(t), UNCHANGED tree
       PROVE  ~Replaces
  BY <1>22 DEF Store, Put, At, Goto, maps, locks
<1>23. ASSUME NEW t \in Tasks, StoreThrows(t), UNCHANGED tree
       PROVE  ~Replaces
  BY <1>23 DEF StoreThrows, Leave, At, Goto, maps, locks
<1>24. ASSUME NEW k \in Keys, NEW h \in Handlers, Unlink(h, k)
       PROVE  ~Replaces
  BY <1>24 DEF Unlink, CallUpdate, Call, Count, At, Goto, maps, locks, dhtVars, TreeReadable, TreeWritable
<1>25. ASSUME NEW h \in Handlers, UnlinkDenied(h)
       PROVE  ~Replaces
  BY <1>25 DEF UnlinkDenied, Leave, At, Goto, maps, locks, dhtVars
<1>26. ASSUME NEW h \in Handlers, UnlinkPurges(h)
       PROVE  ~Replaces
  BY <1>26 DEF UnlinkPurges, At, Goto, maps, locks, dhtVars
<1>27. ASSUME NEW h \in Handlers, EraseData(h)
       PROVE  ~Replaces
  BY <1>27 DEF EraseData, Leave, At, Goto, maps, locks, dhtVars
<1>28. ASSUME NEW t \in Threads, RetryPut(t)
       PROVE  ~Replaces
  BY <1>28 DEF RetryPut, Put, At, cacheVars
<1>29. ASSUME NEW p \in sent, LatePut(p[1], p[2])
       PROVE  ~Replaces
  BY <1>29 DEF LatePut, cacheVars
<1>30. CASE UNCHANGED vars
  BY <1>30 DEF vars, cacheVars, dhtVars
<1> QED
  BY <1>1, <1>2, <1>3, <1>4, <1>5, <1>6, <1>7, <1>8, <1>9, <1>10, <1>11,
     <1>12, <1>13, <1>14, <1>15, <1>16, <1>17, <1>18, <1>19, <1>20, <1>21,
     <1>22, <1>23, <1>24, <1>25, <1>26, <1>27, <1>28,
     <1>29, <1>30
     DEF Next, Start, HandlerStep, CacheStep, TaskStep, dhtVars

(***************************************************************************)
(* operator() loads between its find and its insert, and operator[] of     *)
(* another thread inserts an empty object; still neither ever replaces an  *)
(* object that is in the cache.                                            *)
(***************************************************************************)
THEOREM NeverReplaced == Spec => InsertNeverReplaces
<1>1. TypeOK /\ ObjectInv /\ [Next]_vars =>
        [\A k \in Keys : whole[k] = "live" /\ whole'[k] = "live" => gen'[k] = gen[k]]_vars
  BY StepNeverReplaces DEF Replaces
<1> QED
  BY <1>1, Invariance, PTL DEF Spec, InsertNeverReplaces

-----------------------------------------------------------------------------
(***************************************************************************)
(* The sink implements AttributeStore.  A step leaves the values alone, or *)
(* changes the value of one name the way AttributeStore allows.            *)
(***************************************************************************)
SameValue(k) == k \in raced' \/ Value(k)' = Value(k)

LEMMA QuietStep ==
  ASSUME raced \subseteq raced', raced' \subseteq Keys, writes' = writes,
         \A k \in Keys : SameValue(k)
  PROVE  [Promise!Next]_(Promise!vars)
<1>1. CASE raced' = {}
  <2>1. [k \in Keys |-> Value(k)]' = [k \in Keys |-> Value(k)]
    BY <1>1 DEF SameValue
  <2> QED
    BY <1>1, <2>1 DEF Promise!vars
<1>2. CASE raced' # {}
  <2>1. PICK n \in Keys : n \in raced'
    BY <1>2
  <2>2. Promise!Anything(n)
    BY <2>1 DEF Promise!Anything
  <2>3. \A m \in Keys \ {n} : m \in raced' \/ Value(m)' = Value(m)
    BY DEF SameValue
  <2> QED
    BY <2>1, <2>2, <2>3 DEF Promise!Next
<1> QED
  BY <1>1, <1>2

LEMMA ChangingStep ==
  ASSUME raced \subseteq raced', NEW n \in Keys,
         Promise!Create(n) \/ Promise!Modify(n) \/ Promise!Remove(n) \/ Promise!Anything(n),
         \A k \in Keys \ {n} : SameValue(k)
  PROVE  Promise!Next
  BY DEF Promise!Next, SameValue

LEMMA InitImplements == Init => Promise!Init
<1> SUFFICES ASSUME Init
             PROVE  Promise!Init
  OBVIOUS
<1>1. \A k \in Keys : Value(k) = dht[k]
  BY DEF Init, CacheInit, Value, BeingErased, Threads
<1>2. [k \in Keys |-> Value(k)] \in [Keys -> {Missing, Earlier}]
  BY <1>1 DEF Init
<1> QED
  BY <1>2 DEF Init, CacheInit, Promise!Init

LEMMA NextImplements ==
  TypeOK /\ ObjectInv /\ ContentInv /\ [Next]_vars => [Promise!Next]_(Promise!vars)
<1> SUFFICES ASSUME TypeOK, ObjectInv, ContentInv, [Next]_vars
             PROVE  [Promise!Next]_(Promise!vars)
  OBVIOUS
<1> USE CacheAssumption, MissingAssumption, ObserveOverlaps, ObserveType
<1> USE DEF dhtVars, TypeOK, Threads, Contents, ObjectInv, Roles, PurgeExcludes, AbsentInBetween,
            PointersSet, OnlyUnlinkDangles, NoNullEntry, Purging, Alive, At
<1> DEFINE Quiet == writes' = writes /\ \A k \in Keys : SameValue(k)
<1>1. ASSUME NEW k \in Keys, NEW h \in Handlers, Lookup(h, k), Observe
      PROVE  [Promise!Next]_(Promise!vars)
  <2>1. Quiet
    BY <1>1 DEF Lookup, CallLookup, Call, Count, At, Goto, maps, locks, SameValue, Value, BeingErased, TreeReadable
  <2> QED
    BY <1>1, <2>1, QuietStep
<1>2. ASSUME NEW k \in Keys, NEW h \in Handlers, Update(h, k), Observe
      PROVE  [Promise!Next]_(Promise!vars)
  <2>1. Quiet
    BY <1>2 DEF Update, CallUpdate, Call, Count, At, Goto, maps, locks, SameValue, Value, BeingErased, TreeReadable
  <2> QED
    BY <1>2, <2>1, QuietStep
<1>3. ASSUME NEW k \in Keys, NEW h \in Handlers, Purge(h, k), Observe
      PROVE  [Promise!Next]_(Promise!vars)
  <2>1. Quiet
    BY <1>3 DEF Purge, CallPurge, Call, Count, At, Goto, maps, locks, SameValue, Value, BeingErased, TreeWritable
  <2> QED
    BY <1>3, <2>1, QuietStep
<1>4. ASSUME NEW k \in Keys, NEW t \in Tasks, Invalidate(t, k), Observe
      PROVE  [Promise!Next]_(Promise!vars)
  <2>1. Quiet
    BY <1>4 DEF Invalidate, CallInvalidate, Call, Count, At, Goto, maps, locks, SameValue, Value, BeingErased
  <2> QED
    BY <1>4, <2>1, QuietStep
<1>5. ASSUME NEW h \in Handlers, LookupHit(h), UNCHANGED <<dhtVars, tree>>, Observe
      PROVE  [Promise!Next]_(Promise!vars)
  <2>1. Quiet
    BY <1>5 DEF LookupHit, At, Goto, maps, locks, SameValue, Value, BeingErased
  <2> QED
    BY <1>5, <2>1, QuietStep
<1>6. ASSUME NEW h \in Handlers, LookupMiss(h), UNCHANGED <<dhtVars, tree>>, Observe
      PROVE  [Promise!Next]_(Promise!vars)
  <2>1. Quiet
    BY <1>6 DEF LookupMiss, Acquire, At, Goto, maps, SameValue, Value, BeingErased
  <2> QED
    BY <1>6, <2>1, QuietStep
<1>7. ASSUME NEW h \in Handlers, InsertLoaded(h), UNCHANGED <<dhtVars, tree>>, Observe
      PROVE  [Promise!Next]_(Promise!vars)
  <2>1. Quiet
    BY <1>7 DEF InsertLoaded, Insert, Release, At, Goto, SameValue, Value, BeingErased, ContentInv, LoadCarriesStored
  <2> QED
    BY <1>7, <2>1, QuietStep
<1>8. ASSUME NEW h \in Handlers, Use(h), UNCHANGED <<dhtVars, tree>>, Observe
      PROVE  [Promise!Next]_(Promise!vars)
  <2>1. Quiet
    BY <1>8 DEF Use, Leave, At, Goto, maps, locks, SameValue, Value, BeingErased
  <2> QED
    BY <1>8, <2>1, QuietStep
<1>9. ASSUME NEW h \in Handlers, PreReadFound(h), UNCHANGED tree, Observe
      PROVE  [Promise!Next]_(Promise!vars)
  <2>1. Quiet
    BY <1>9 DEF PreReadFound, PreReadReturns, At, Goto, maps, locks, SameValue, Value, BeingErased
  <2> QED
    BY <1>9, <2>1, QuietStep
<1>10. ASSUME NEW h \in Handlers, PreReadFails(h), UNCHANGED tree, Observe
       PROVE  [Promise!Next]_(Promise!vars)
  <2>1. Quiet
    BY <1>10 DEF PreReadFails, PreReadThrows, Release, Leave, At, Goto, maps, SameValue, Value, BeingErased
  <2> QED
    BY <1>10, <2>1, QuietStep
<1>11. ASSUME NEW h \in Handlers, UpdateHit(h), UNCHANGED <<dhtVars, tree>>, Observe
       PROVE  [Promise!Next]_(Promise!vars)
  <2>1. Quiet
    BY <1>11 DEF UpdateHit, Acquire, At, Goto, maps, SameValue, Value, BeingErased
  <2> QED
    BY <1>11, <2>1, QuietStep
<1>12. ASSUME NEW h \in Handlers, UpdateMiss(h), UNCHANGED <<dhtVars, tree>>, Observe
       PROVE  [Promise!Next]_(Promise!vars)
  <2>0. PICK n \in Keys : n = key[h]
    BY <1>12 DEF UpdateMiss, Labels
  <2>1. writes' = writes /\ \A k \in Keys \ {n} : SameValue(k)
    BY <1>12, <2>0 DEF UpdateMiss, Insert, Acquire, At, Goto, SameValue, Value, BeingErased
  <2>2. CASE n \in raced'
    BY <1>12, <2>1, <2>2, ChangingStep DEF Promise!Anything
  <2>3. CASE n \notin raced'
    <3>1. Value(n) = Missing
      BY <1>12, <2>0, <2>1, <2>3 DEF UpdateMiss, Value, ContentInv, NameStaysKnown, NameLookedUp
    <3>2. Value(n)' = Empty
      BY <1>12, <2>0, <2>1 DEF UpdateMiss, Insert, Acquire, At, Goto, Value, BeingErased
    <3> QED
      BY <1>12, <2>1, <3>1, <3>2, ChangingStep DEF Promise!Create
  <2> QED
    BY <2>2, <2>3
<1>13. ASSUME NEW h \in Handlers, SetDirty(h), UNCHANGED <<dhtVars, tree>>, Observe
       PROVE  [Promise!Next]_(Promise!vars)
  <2>1. Quiet
    BY <1>13 DEF SetDirty, Release, At, Goto, SameValue, Value, BeingErased
  <2> QED
    BY <1>13, <2>1, QuietStep
<1>14. ASSUME NEW h \in Handlers, tree # h, Modify(h), UNCHANGED <<dhtVars, tree>>, Observe
       PROVE  [Promise!Next]_(Promise!vars)
  <2>0. PICK n \in Keys : n = key[h]
    BY <1>14 DEF Modify, Labels
  <2>1. writes' = writes + 1 /\ \A k \in Keys \ {n} : SameValue(k)
    BY <1>14, <2>0 DEF Modify, Leave, At, Goto, locks, SameValue, Value, BeingErased
  <2>2. Value(n) # Missing /\ Value(n)' = writes + 1
    BY <1>14, <2>0, <2>1 DEF Modify, Leave, At, Goto, locks, Value, BeingErased
  <2> QED
    BY <1>14, <2>1, <2>2, ChangingStep DEF Promise!Modify
<1>15. ASSUME NEW h \in Handlers, EraseWhole(h), UNCHANGED <<dhtVars, tree>>, Observe
       PROVE  [Promise!Next]_(Promise!vars)
  <2>0. PICK n \in Keys : n = key[h]
    BY <1>15 DEF EraseWhole, Labels
  <2>1. writes' = writes /\ \A k \in Keys \ {n} : SameValue(k)
    BY <1>15, <2>0 DEF EraseWhole, At, Goto, locks, SameValue, Value, BeingErased
  <2>2. Value(n)' = Missing
    BY <1>15, <2>0 DEF EraseWhole, At, Goto, locks, Value, BeingErased
  <2> QED
    BY <1>15, <2>1, <2>2, ChangingStep DEF Promise!Remove
<1>16. ASSUME NEW h \in Handlers, EraseDirty(h), UNCHANGED <<dhtVars, tree>>, Observe
       PROVE  [Promise!Next]_(Promise!vars)
  <2>1. Quiet
    BY <1>16 DEF EraseDirty, At, Goto, locks, SameValue, Value, BeingErased
  <2> QED
    BY <1>16, <2>1, QuietStep
<1>17. ASSUME NEW h \in Handlers, OnErase(h), Observe
       PROVE  [Promise!Next]_(Promise!vars)
  <2>1. Quiet
    BY <1>17 DEF OnErase, PurgeReturns, Put, Leave, At, Goto, maps, locks, SameValue, Value, BeingErased, ContentInv, FlushCarriesCached, Flushing
  <2> QED
    BY <1>17, <2>1, QuietStep
<1>18. ASSUME NEW t \in Tasks, ReadDirtyHit(t), UNCHANGED dhtVars, UNCHANGED tree, Observe
       PROVE  [Promise!Next]_(Promise!vars)
  <2>1. Quiet
    BY <1>18 DEF ReadDirtyHit, At, Goto, maps, locks, SameValue, Value, BeingErased
  <2> QED
    BY <1>18, <2>1, QuietStep
<1>19. ASSUME NEW t \in Tasks, ReadDirtyMiss(t), UNCHANGED dhtVars, UNCHANGED tree, Observe
       PROVE  [Promise!Next]_(Promise!vars)
  <2>1. Quiet
    BY <1>19 DEF ReadDirtyMiss, Leave, At, Goto, maps, locks, SameValue, Value, BeingErased
  <2> QED
    BY <1>19, <2>1, QuietStep
<1>20. ASSUME NEW t \in Tasks, EraseFlushed(t), UNCHANGED dhtVars, UNCHANGED tree, Observe
       PROVE  [Promise!Next]_(Promise!vars)
  <2>1. Quiet
    BY <1>20 DEF EraseFlushed, Leave, At, Goto, locks, SameValue, Value, BeingErased
  <2> QED
    BY <1>20, <2>1, QuietStep
<1>21. ASSUME NEW t \in Tasks, Serialise(t), UNCHANGED tree, Observe
       PROVE  [Promise!Next]_(Promise!vars)
  <2>1. Quiet
    BY <1>21 DEF Serialise, At, Goto, maps, locks, SameValue, Value, BeingErased
  <2> QED
    BY <1>21, <2>1, QuietStep
<1>22. ASSUME NEW t \in Tasks, Store(t), UNCHANGED tree, Observe
       PROVE  [Promise!Next]_(Promise!vars)
  <2>1. Quiet
    BY <1>22 DEF Store, Put, At, Goto, maps, locks, SameValue, Value, BeingErased, ContentInv, FlushCarriesCached, Flushing
  <2> QED
    BY <1>22, <2>1, QuietStep
<1>23. ASSUME NEW t \in Tasks, StoreThrows(t), UNCHANGED tree, Observe
       PROVE  [Promise!Next]_(Promise!vars)
  <2>1. Quiet
    BY <1>23 DEF StoreThrows, Leave, At, Goto, maps, locks, SameValue, Value, BeingErased
  <2> QED
    BY <1>23, <2>1, QuietStep
<1>24. ASSUME NEW k \in Keys, NEW h \in Handlers, Unlink(h, k), Observe
       PROVE  [Promise!Next]_(Promise!vars)
  <2>1. Quiet
    BY <1>24 DEF Unlink, CallUpdate, Call, Count, At, Goto, maps, locks, dhtVars, TreeReadable, TreeWritable, SameValue, Value, BeingErased
  <2> QED
    BY <1>24, <2>1, QuietStep
<1>25. ASSUME NEW h \in Handlers, UnlinkDenied(h), Observe
       PROVE  [Promise!Next]_(Promise!vars)
  <2>1. Quiet
    BY <1>25 DEF UnlinkDenied, Leave, At, Goto, maps, locks, dhtVars, SameValue, Value, BeingErased
  <2> QED
    BY <1>25, <2>1, QuietStep
<1>26. ASSUME NEW h \in Handlers, UnlinkPurges(h), Observe
       PROVE  [Promise!Next]_(Promise!vars)
  <2>1. Quiet
    BY <1>26 DEF UnlinkPurges, At, Goto, maps, locks, dhtVars, SameValue, Value, BeingErased
  <2> QED
    BY <1>26, <2>1, QuietStep
<1>27. ASSUME NEW h \in Handlers, EraseData(h), Observe
       PROVE  [Promise!Next]_(Promise!vars)
  <2>1. Quiet
    BY <1>27 DEF EraseData, Leave, At, Goto, maps, locks, dhtVars, SameValue, Value, BeingErased
  <2> QED
    BY <1>27, <2>1, QuietStep
<1>28. ASSUME NEW t \in Threads, RetryPut(t), Observe
       PROVE  [Promise!Next]_(Promise!vars)
  <2>1. ASSUME At(t, "store") PROVE Quiet
    BY <1>28, <2>1 DEF RetryPut, Put, At, cacheVars, SameValue, Value, BeingErased, ContentInv, FlushCarriesCached, Flushing
  <2>2. ASSUME At(t, "onerase") PROVE Quiet
    BY <1>28, <2>2 DEF RetryPut, Put, At, cacheVars, SameValue, Value, BeingErased
  <2>3. Quiet
    BY <1>28, <2>1, <2>2 DEF RetryPut
  <2> QED
    BY <1>28, <2>3, QuietStep
<1>29. ASSUME NEW p \in sent, LatePut(p[1], p[2])
       PROVE  [Promise!Next]_(Promise!vars)
  <2>1. Quiet
    BY <1>29 DEF LatePut, cacheVars, SameValue, Value, BeingErased
  <2> QED
    BY <1>29, <2>1, QuietStep DEF LatePut
<1>30. CASE UNCHANGED vars
  <2>1. Quiet
    BY <1>30 DEF vars, cacheVars, dhtVars, SameValue, Value, BeingErased
  <2> QED
    BY <1>30, <2>1, QuietStep DEF vars
<1> QED
  BY <1>1, <1>2, <1>3, <1>4, <1>5, <1>6, <1>7, <1>8, <1>9, <1>10, <1>11,
     <1>12, <1>13, <1>14, <1>15, <1>16, <1>17, <1>18, <1>19, <1>20, <1>21,
     <1>22, <1>23, <1>24, <1>25, <1>26, <1>27, <1>28, <1>29, <1>30
     DEF Next, Start, HandlerStep, CacheStep, TaskStep, dhtVars

(***************************************************************************)
(* To its callers the sink is a store of one value per name: as long as no *)
(* flush of a name overlapped a change of it, and no old put of it was     *)
(* executed late, no modification of the name is lost and a removed name   *)
(* stays removed.                                                          *)
(***************************************************************************)
THEOREM ImplementsAttributeStore == Spec => KeepsAttributes
BY InitImplements, NextImplements, Invariance, PTL DEF Spec, KeepsAttributes, Promise!Spec

=============================================================================
