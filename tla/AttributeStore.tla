--------------------------- MODULE AttributeStore ---------------------------
(***************************************************************************)
(* What a sink of attributes promises its callers: one value per name,     *)
(* created empty, modified, removed.  A modification is never lost, a      *)
(* removed name stays removed until it is created again, and neither the   *)
(* cache nor the flush tasks can be seen.                                  *)
(*                                                                         *)
(* The promise is void for the names in raced: a flush of theirs overlapped*)
(* a change, or an old put of theirs was executed late.                    *)
(***************************************************************************)
EXTENDS Naturals

CONSTANTS Names,
          Missing,    \* value of a name that does not exist
          Empty,      \* value of a name just created
          First       \* version number of the values there are at the start

VARIABLES value,      \* the value of each name
          last,       \* the version written last
          raced       \* names the promise does not cover

vars == <<value, last, raced>>

Init ==
  /\ value \in [Names -> {Missing, First}]
  /\ last = First
  /\ raced = {}

Create(n) ==
  /\ value[n] = Missing
  /\ value'[n] = Empty
  /\ last' = last

Modify(n) ==
  /\ value[n] # Missing
  /\ value'[n] = last + 1
  /\ last' = last + 1

Remove(n) ==
  /\ value'[n] = Missing
  /\ last' = last

Anything(n) ==
  /\ n \in raced'
  /\ last' \in {last, last + 1}

Next ==
  /\ raced \subseteq raced'
  /\ \E n \in Names :
       /\ Create(n) \/ Modify(n) \/ Remove(n) \/ Anything(n)
       /\ \A m \in Names \ {n} : m \in raced' \/ value'[m] = value[m]

Spec == Init /\ [][Next]_vars

=============================================================================
