--------------------------- MODULE MCBountyEscrow ---------------------------
(***************************************************************************)
(* A small instance of BountyEscrow.  Bounty 1 has a reward that can be    *)
(* split and a reservation that can run up to its settlement deadline;     *)
(* bounty 2 overlaps it and settles later; the policy of bounty 3 lets the *)
(* settlement deadline fall inside a reservation and must be refused.      *)
(***************************************************************************)
EXTENDS BountyEscrow, TLC

MCPolicyOf == <<
  [reward |-> 3, submissionDeadline |-> 3, settlementDeadline |-> 5, duration |-> 2],
  [reward |-> 1, submissionDeadline |-> 4, settlementDeadline |-> 5, duration |-> 1],
  [reward |-> 1, submissionDeadline |-> 2, settlementDeadline |-> 2, duration |-> 2] >>

MCSymmetry ==
  Permutations(Claim) \cup Permutations(Claimant) \cup Permutations(Nonce)
    \cup Permutations(Nullifier)
=============================================================================
