---------------------------- MODULE MCNamespace ----------------------------
(***************************************************************************)
(* Instances of Namespace for TLC: a path is the sequence of its names,    *)
(* two names, directories in directories.                                  *)
(***************************************************************************)
EXTENDS Namespace, Sequences, SequencesExt

CONSTANTS x, y, daemon, superuser

MCNames == {x, y}
MCUsers == {daemon, superuser}
MCRoot  == << >>
MCPaths == {<< >>} \cup {<<m>> : m \in MCNames} \cup {<<m, n>> : m, n \in MCNames}
MCParent == [p \in MCPaths \ {MCRoot} |-> Front(p)]
MCLeaf   == [p \in MCPaths \ {MCRoot} |-> Last(p)]
MCAbove  == [p \in MCPaths |-> {q \in MCPaths : IsStrictPrefix(q, p)}]

=============================================================================
