-------------------------- MODULE MCClaimSettlement --------------------------
EXTENDS ClaimSettlement, TLC

MCSymmetry == Permutations(Claim)
=============================================================================
