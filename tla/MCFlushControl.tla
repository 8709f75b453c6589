--------------------------- MODULE MCFlushControl ---------------------------
(***************************************************************************)
(* Three threads, two slots: both an overdraft of the counter and the loss *)
(* of every slot happen.                                                   *)
(***************************************************************************)
EXTENDS FlushControl

CONSTANTS c1, c2, c3

MCCallers == {c1, c2, c3}

=============================================================================
