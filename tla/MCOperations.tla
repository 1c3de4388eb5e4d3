---------------------------- MODULE MCOperations ----------------------------
(* Small instances of the parts of Operations. *)
EXTENDS Operations, TLC

MCRewardOf == 1 :> 1 @@ 2 :> 2

=============================================================================
