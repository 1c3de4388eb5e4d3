--------------------------- MODULE MCRecoveryScan ---------------------------
(* RecoveryScan for one bounty with two claims. *)
EXTENDS RecoveryScan
=============================================================================
