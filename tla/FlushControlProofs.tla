------------------------- MODULE FlushControlProofs -------------------------
(***************************************************************************)
(* Safety of FlushControl, for any finite number of threads that call      *)
(* flush and any number of slots and flushes.                              *)
(***************************************************************************)
EXTENDS FlushControl, FiniteSetTheorems, TLAPS

-----------------------------------------------------------------------------
(***************************************************************************)
(* Type correctness.                                                       *)
(***************************************************************************)
LEMMA InitTypeOK == Init => TypeOK
  BY FlushAssumption DEF Init, TypeOK, Flushes

LEMMA MetType ==
  ASSUME met \subseteq Flushes, Observe,
         call' \in [Callers -> Flushes \cup {0}],
         \A c \in Callers : pc'[c] = "idle" <=> call'[c] = 0
  PROVE  met' \subseteq Flushes
  BY DEF Observe, Together, Inside

LEMMA NextTypeOK == TypeOK /\ [Next]_vars => TypeOK'
<1> SUFFICES ASSUME TypeOK, [Next]_vars
             PROVE  TypeOK'
  OBVIOUS
<1> USE FlushAssumption, MetType DEF TypeOK, At, Goto
<1>1. ASSUME NEW c \in Callers, AllocateRoot(c), Observe
      PROVE  TypeOK'
  <2>1. begun + 1 \in Flushes /\ begun + 1 # 0 /\ begun' \in 0..MaxFlushes
    BY <1>1 DEF AllocateRoot, Flushes
  <2> QED
    BY <1>1, <2>1 DEF AllocateRoot
<1>2. ASSUME NEW c \in Callers, LeaveSpin(c), Observe
      PROVE  TypeOK'
  BY <1>2 DEF LeaveSpin
<1>3. ASSUME NEW c \in Callers, Decrement(c), Observe
      PROVE  TypeOK'
  BY <1>3 DEF Decrement
<1>4. ASSUME NEW c \in Callers, Spawn(c), Observe
      PROVE  TypeOK'
  <2>1. call[c] \in Flushes
    BY <1>4 DEF Spawn
  <2> QED
    BY <1>4, <2>1 DEF Spawn
<1>5. ASSUME NEW f \in Flushes, TaskDone(f), Observe
      PROVE  TypeOK'
  BY <1>5 DEF TaskDone
<1>6. ASSUME NEW f \in Flushes, TaskThrows(f), Observe
      PROVE  TypeOK'
  BY <1>6 DEF TaskThrows
<1>7. CASE UNCHANGED vars
  BY <1>7 DEF vars
<1> QED
  BY <1>1, <1>2, <1>3, <1>4, <1>5, <1>6, <1>7 DEF Next, InFlush, TaskEnds

-----------------------------------------------------------------------------
(***************************************************************************)
(* Roots.                                                                  *)
(***************************************************************************)
LEMMA InitRootInv == Init => RootInv
  BY FlushAssumption
     DEF Init, RootInv, RootIsLatest, LatestMetRest, ParentMetChild, Inside, Flushes

LEMMA NextRootInv == TypeOK /\ FlushesDistinct /\ RootInv /\ [Next]_vars => RootInv'
<1> SUFFICES ASSUME TypeOK, FlushesDistinct, RootInv, [Next]_vars
             PROVE  RootInv'
  OBVIOUS
<1> USE FlushAssumption
<1> USE DEF TypeOK, RootInv, RootIsLatest, LatestMetRest, ParentMetChild, Inside, At, Goto
<1>1. ASSUME NEW c \in Callers, AllocateRoot(c), Observe
      PROVE  RootInv'
  <2>1. RootIsLatest' /\ ParentMetChild'
    BY <1>1 DEF AllocateRoot, Observe
  <2>2. LatestMetRest'
    BY <1>1 DEF AllocateRoot, Observe, Together
  <2> QED
    BY <2>1, <2>2
<1>2. ASSUME NEW c \in Callers, LeaveSpin(c), Observe
      PROVE  RootInv'
  BY <1>2 DEF LeaveSpin, Observe
<1>3. ASSUME NEW c \in Callers, Decrement(c), Observe
      PROVE  RootInv'
  BY <1>3 DEF Decrement, Observe
<1>4. ASSUME NEW c \in Callers, Spawn(c), Observe
      PROVE  RootInv'
  <2>1. call[c] \in 1..begun
    BY <1>4 DEF Spawn, FlushesDistinct
  <2>2. RootIsLatest' /\ LatestMetRest'
    BY <1>4 DEF Spawn, Observe
  <2>3. ParentMetChild'
    BY <1>4, <2>1 DEF Spawn, Observe
  <2> QED
    BY <2>2, <2>3
<1>5. ASSUME NEW f \in Flushes, TaskDone(f), Observe
      PROVE  RootInv'
  BY <1>5 DEF TaskDone, Observe
<1>6. ASSUME NEW f \in Flushes, TaskThrows(f), Observe
      PROVE  RootInv'
  BY <1>6 DEF TaskThrows, Observe
<1>7. CASE UNCHANGED vars
  BY <1>7 DEF vars
<1> QED
  BY <1>1, <1>2, <1>3, <1>4, <1>5, <1>6, <1>7 DEF Next, InFlush, TaskEnds

-----------------------------------------------------------------------------
(***************************************************************************)
(* Slots.  The sets that are counted are finite, and a step moves one      *)
(* element.                                                                *)
(***************************************************************************)
LEMMA CountedSetsFinite ==
  ASSUME TypeOK
  PROVE  /\ IsFiniteSet(Passed) /\ Cardinality(Passed) \in Nat
         /\ Cardinality(Passed) <= Cardinality(Callers)
         /\ IsFiniteSet(Holding) /\ Cardinality(Holding) \in Nat
         /\ IsFiniteSet(running) /\ Cardinality(running) \in Nat
         /\ IsFiniteSet(failed) /\ Cardinality(failed) \in Nat
         /\ Cardinality(Callers) \in Nat
<1> USE FlushAssumption
<1>1. IsFiniteSet(Flushes)
  BY FS_Interval, 1 \in Int, MaxFlushes \in Int DEF Flushes
<1>2. Passed \in SUBSET Callers /\ Holding \in SUBSET Callers
  BY DEF Passed, Holding
<1>3. running \in SUBSET Flushes /\ failed \in SUBSET Flushes
  BY DEF TypeOK
<1>4. IsFiniteSet(Passed) /\ Cardinality(Passed) <= Cardinality(Callers)
  BY <1>2, FS_Subset
<1>5. IsFiniteSet(Holding) /\ IsFiniteSet(running) /\ IsFiniteSet(failed)
  BY <1>1, <1>2, <1>3, FS_Subset
<1> QED
  BY <1>4, <1>5, FS_CardinalityType

\* The callers at a label when c goes to a label.
LEMMA GotoMoves ==
  ASSUME TypeOK, NEW c \in Callers, NEW label, Goto(c, label)
  PROVE  /\ Passed' = IF label = "decrement" THEN Passed \cup {c} ELSE Passed \ {c}
         /\ Holding' = IF label = "spawn" THEN Holding \cup {c} ELSE Holding \ {c}
  BY DEF TypeOK, Goto, Passed, Holding

LEMMA InitSlotInv == Init => SlotInv
<1> SUFFICES ASSUME Init
             PROVE  SlotInv
  OBVIOUS
<1>1. Passed = {} /\ Holding = {} /\ running = {} /\ failed = {} /\ Inside = {}
  BY DEF Init, Passed, Holding, Inside
<1>2. Cardinality({}) = 0 /\ Cardinality(Callers) \in Nat
  BY FlushAssumption, FS_EmptySet, FS_CardinalityType
<1>3. SlotConservation /\ OverdraftBound
  BY <1>1, <1>2, FlushAssumption DEF Init, SlotConservation, OverdraftBound
<1>4. FlushesDistinct
  BY <1>1 DEF FlushesDistinct
<1> QED
  BY <1>3, <1>4 DEF SlotInv

LEMMA NextDistinct == TypeOK /\ FlushesDistinct /\ [Next]_vars => FlushesDistinct'
<1> SUFFICES ASSUME TypeOK, FlushesDistinct, [Next]_vars
             PROVE  FlushesDistinct'
  OBVIOUS
<1> USE FlushAssumption DEF TypeOK, FlushesDistinct, Inside, At, Goto
<1>1. ASSUME NEW c \in Callers, AllocateRoot(c)
      PROVE  FlushesDistinct'
  BY <1>1 DEF AllocateRoot
<1>2. ASSUME NEW c \in Callers, LeaveSpin(c)
      PROVE  FlushesDistinct'
  BY <1>2 DEF LeaveSpin
<1>3. ASSUME NEW c \in Callers, Decrement(c)
      PROVE  FlushesDistinct'
  BY <1>3 DEF Decrement
<1>4. ASSUME NEW c \in Callers, Spawn(c)
      PROVE  FlushesDistinct'
  BY <1>4 DEF Spawn
<1>5. ASSUME NEW f \in Flushes, TaskDone(f)
      PROVE  FlushesDistinct'
  BY <1>5 DEF TaskDone
<1>6. ASSUME NEW f \in Flushes, TaskThrows(f)
      PROVE  FlushesDistinct'
  BY <1>6 DEF TaskThrows
<1>7. CASE UNCHANGED vars
  BY <1>7 DEF vars
<1> QED
  BY <1>1, <1>2, <1>3, <1>4, <1>5, <1>6, <1>7 DEF Next, InFlush, TaskEnds

LEMMA NextSlots ==
  TypeOK /\ SlotInv /\ [Next]_vars => SlotConservation' /\ OverdraftBound'
<1> SUFFICES ASSUME TypeOK, SlotInv, [Next]_vars
             PROVE  SlotConservation' /\ OverdraftBound'
  OBVIOUS
<1> DEFINE n == Cardinality(Callers)
<1>0. /\ counter \in Int
      /\ counter + Cardinality(Holding) + Cardinality(running) + Cardinality(failed) = Slots
      /\ counter >= Cardinality(Passed) + 1 - n
  BY DEF TypeOK, SlotInv, SlotConservation, OverdraftBound
<1>1. ASSUME NEW c \in Callers, AllocateRoot(c)
      PROVE  SlotConservation' /\ OverdraftBound'
  <2>1. Passed' = Passed /\ Holding' = Holding
    BY <1>1, GotoMoves DEF AllocateRoot, At, Passed, Holding
  <2> QED
    BY <1>0, <1>1, <2>1 DEF AllocateRoot, SlotConservation, OverdraftBound
<1>2. ASSUME NEW c \in Callers, LeaveSpin(c)
      PROVE  SlotConservation' /\ OverdraftBound'
  <2>1. Holding' = Holding /\ Passed' = Passed \cup {c}
    BY <1>2, GotoMoves DEF LeaveSpin, At, Holding
  <2>2. Passed' \in SUBSET Callers
    BY <2>1 DEF Passed
  <2>3. Cardinality(Passed') \in Nat /\ n \in Nat /\ Cardinality(Passed') <= n
    BY <2>2, FlushAssumption, FS_Subset, FS_CardinalityType
  <2> QED
    BY <1>0, <1>2, <2>1, <2>3 DEF LeaveSpin, SlotConservation, OverdraftBound
<1>3. ASSUME NEW c \in Callers, Decrement(c)
      PROVE  SlotConservation' /\ OverdraftBound'
  <2>1. /\ c \in Passed /\ Passed' = Passed \ {c}
        /\ c \notin Holding /\ Holding' = Holding \cup {c}
    BY <1>3, GotoMoves DEF Decrement, At, Passed, Holding
  <2>2. /\ Cardinality(Passed') = Cardinality(Passed) - 1
        /\ Cardinality(Holding') = Cardinality(Holding) + 1
    BY <2>1, CountedSetsFinite, FS_AddElement, FS_RemoveElement
  <2> QED
    BY <1>0, <1>3, <2>2, CountedSetsFinite DEF Decrement, SlotConservation, OverdraftBound
<1>4. ASSUME NEW c \in Callers, Spawn(c)
      PROVE  SlotConservation' /\ OverdraftBound'
  <2>1. /\ Passed' = Passed
        /\ c \in Holding /\ Holding' = Holding \ {c}
        /\ call[c] \notin running /\ running' = running \cup {call[c]}
    BY <1>4, GotoMoves DEF Spawn, At, Passed, Holding, SlotInv, FlushesDistinct, Inside
  <2>2. /\ Cardinality(Holding') = Cardinality(Holding) - 1
        /\ Cardinality(running') = Cardinality(running) + 1
    BY <2>1, CountedSetsFinite, FS_AddElement, FS_RemoveElement
  <2> QED
    BY <1>0, <1>4, <2>1, <2>2, CountedSetsFinite DEF Spawn, SlotConservation, OverdraftBound
<1>5. ASSUME NEW f \in Flushes, TaskDone(f)
      PROVE  SlotConservation' /\ OverdraftBound'
  <2>1. Passed' = Passed /\ Holding' = Holding /\ failed' = failed
    BY <1>5 DEF TaskDone, Passed, Holding
  <2>2. Cardinality(running') = Cardinality(running) - 1
    BY <1>5, CountedSetsFinite, FS_RemoveElement DEF TaskDone
  <2> QED
    BY <1>0, <1>5, <2>1, <2>2, CountedSetsFinite DEF TaskDone, SlotConservation, OverdraftBound
<1>6. ASSUME NEW f \in Flushes, TaskThrows(f)
      PROVE  SlotConservation' /\ OverdraftBound'
  <2>1. Passed' = Passed /\ Holding' = Holding /\ counter' = counter
    BY <1>6 DEF TaskThrows, Passed, Holding
  <2>2. f \in running /\ f \notin failed
    BY <1>6 DEF TaskThrows, SlotInv, FlushesDistinct
  <2>3. /\ Cardinality(running') = Cardinality(running) - 1
        /\ Cardinality(failed') = Cardinality(failed) + 1
    BY <1>6, <2>2, CountedSetsFinite, FS_AddElement, FS_RemoveElement DEF TaskThrows
  <2> QED
    BY <1>0, <2>1, <2>3, CountedSetsFinite DEF SlotConservation, OverdraftBound
<1>7. CASE UNCHANGED vars
  BY <1>0, <1>7 DEF vars, SlotConservation, OverdraftBound, Passed, Holding
<1> QED
  BY <1>1, <1>2, <1>3, <1>4, <1>5, <1>6, <1>7 DEF Next, InFlush, TaskEnds

-----------------------------------------------------------------------------
LEMMA Invariance == Spec => [](TypeOK /\ SlotInv /\ RootInv)
<1>1. Init => TypeOK /\ SlotInv /\ RootInv
  BY InitTypeOK, InitSlotInv, InitRootInv
<1>2. TypeOK /\ SlotInv /\ RootInv /\ [Next]_vars => (TypeOK /\ SlotInv /\ RootInv)'
  BY NextTypeOK, NextDistinct, NextSlots, NextRootInv DEF SlotInv
<1> QED
  BY <1>1, <1>2, PTL DEF Spec

(***************************************************************************)
(* The state always has its type.                                          *)
(***************************************************************************)
THEOREM TypeCorrect == Spec => []TypeOK
  BY Invariance, PTL

(***************************************************************************)
(* The counter and the slots taken always add up to the initial counter,   *)
(* for any number of threads that race between its two accesses in flush.  *)
(***************************************************************************)
THEOREM SlotsAreConserved == Spec => []SlotConservation
<1>1. SlotInv => SlotConservation
  BY DEF SlotInv
<1> QED
  BY <1>1, Invariance, PTL

(***************************************************************************)
(* At most Slots tasks plus one for each caller but one are in flight.     *)
(***************************************************************************)
THEOREM InFlightIsBounded == Spec => []InFlightBound
<1>1. TypeOK /\ SlotInv => InFlightBound
  BY CountedSetsFinite, FlushAssumption
     DEF SlotInv, SlotConservation, OverdraftBound, InFlightBound, TypeOK
<1> QED
  BY <1>1, Invariance, PTL

(***************************************************************************)
(* Once Slots tasks have thrown, flush never returns to anybody who is in  *)
(* its busy wait.                                                          *)
(***************************************************************************)
THEOREM LostSlotsAreLost == Spec => LostSlotsStopFlush
<1>1. TypeOK /\ SlotInv /\ [Next]_vars =>
        [Cardinality(failed) >= Slots =>
           \A c \in Callers : pc[c] = "spin" => pc'[c] = "spin"]_vars
  <2> SUFFICES ASSUME TypeOK, SlotInv, Next, Cardinality(failed) >= Slots,
                      NEW c \in Callers, pc[c] = "spin"
               PROVE  pc'[c] = "spin"
    OBVIOUS
  <2>1. ~(counter > 0)
    BY CountedSetsFinite, FlushAssumption DEF SlotInv, SlotConservation, TypeOK
  <2> QED
    BY <2>1 DEF Next, InFlush, TaskEnds, AllocateRoot, LeaveSpin, Decrement, Spawn,
                TaskDone, TaskThrows, At, Goto, TypeOK
<1> QED
  BY <1>1, Invariance, PTL DEF Spec, LostSlotsStopFlush

(***************************************************************************)
(* While no slot is free and a slot is not lost, somebody is on the way to *)
(* give one back: the busy wait of flush always has a reason.              *)
(***************************************************************************)
THEOREM SpinningEnds == Spec => []SpinningHasReason
<1>1. TypeOK /\ SlotInv => SpinningHasReason
  <2> SUFFICES ASSUME TypeOK, SlotInv, counter <= 0, Cardinality(failed) < Slots,
                      Holding = {}, running = {}
               PROVE  FALSE
    BY DEF SpinningHasReason
  <2>1. Cardinality(Holding) = 0 /\ Cardinality(running) = 0
    BY FS_EmptySet
  <2>2. counter + Cardinality(failed) = Slots
    BY <2>1, CountedSetsFinite, FlushAssumption DEF SlotInv, SlotConservation, TypeOK
  <2> QED
    BY <2>2, CountedSetsFinite, FlushAssumption DEF TypeOK
<1> QED
  BY <1>1, Invariance, PTL

(***************************************************************************)
(* Flushes that do not overlap never share a root task.                    *)
(***************************************************************************)
THEOREM RootsAreShared == Spec => []SharedRootNeedsOverlap
<1>1. RootInv => SharedRootNeedsOverlap
  BY DEF RootInv, ParentMetChild, SharedRootNeedsOverlap
<1> QED
  BY <1>1, Invariance, PTL

=============================================================================
