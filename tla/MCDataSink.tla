----------------------------- MODULE MCDataSink -----------------------------
(***************************************************************************)
(* Instances of DataSink for TLC.                                          *)
(***************************************************************************)
EXTENDS DataSink

CONSTANTS h1, t1, t2, s1, s2

OneChunk   == {0}
NoChunk    == {}
OneReader  == {h1}
OneTask    == {t1}
MCTasks    == {t1, t2}
OneHost    == {s1}
MCHosts    == {s1, s2}

=============================================================================
