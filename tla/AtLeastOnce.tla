---------------------------- MODULE AtLeastOnce ----------------------------
(***************************************************************************)
(* What harmony promises of put: an entry changes by puts of its own key   *)
(* only, and a put that has returned was applied.  It may be applied more  *)
(* than once, and after it has returned if a try of it was given up.       *)
(***************************************************************************)
CONSTANTS Keys, Values, Procs, None

VARIABLES entry,    \* the value of a key
          open,     \* the put a process is in
          applied,  \* the processes whose put was applied
          left,     \* the puts of which a try was given up
          result    \* how the last put of a process ended

Put == [key : Keys, value : Values]

Init ==
  /\ entry = [k \in Keys |-> None] /\ left = {} /\ applied = {}
  /\ open = [p \in Procs |-> None] /\ result = [p \in Procs |-> "none"]

Begin(p) ==
  /\ open[p] = None
  /\ open'[p] \in Put /\ open' = [open EXCEPT ![p] = open'[p]]
  /\ result' = [result EXCEPT ![p] = "none"]
  /\ UNCHANGED <<entry, applied, left>>

\* The process goes on to something else.
Rest(p) ==
  /\ open[p] = None /\ result' = [result EXCEPT ![p] = "none"]
  /\ UNCHANGED <<entry, open, applied, left>>

Apply(p) ==
  /\ open[p] # None
  /\ entry' = [entry EXCEPT ![open[p].key] = open[p].value]
  /\ applied' = applied \cup {p}
  /\ UNCHANGED <<open, left, result>>

GiveUpTry(p) ==
  /\ open[p] # None /\ left' = left \cup {open[p]}
  /\ UNCHANGED <<entry, open, applied, result>>

ApplyLate(q) ==
  /\ q \in left
  /\ entry' = [entry EXCEPT ![q.key] = q.value]
  /\ left' \in {left, left \ {q}}
  /\ UNCHANGED <<open, applied, result>>

End(p) ==
  /\ open[p] # None
  /\ \/ p \in applied /\ result' = [result EXCEPT ![p] = "returned"]
     \/ result' = [result EXCEPT ![p] = "thrown"]
  /\ open' = [open EXCEPT ![p] = None] /\ applied' = applied \ {p}
  /\ UNCHANGED <<entry, left>>

Next ==
  \/ \E p \in Procs : Begin(p) \/ Rest(p) \/ Apply(p) \/ GiveUpTry(p) \/ End(p)
  \/ \E q \in left : ApplyLate(q)

Spec == Init /\ [][Next]_<<entry, open, applied, left, result>>

=============================================================================
