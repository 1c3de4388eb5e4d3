CONSTANTS
  NumBounties = 3
  PolicyOf <- MCPolicyOf
  Claim = {c1, c2, c3}
  Claimant = {alice, bob}
  Nonce = {n1, n2, n3, n4}
  Nullifier = {k1, k2}
  MinReservation = 1
  MaxReservation = 2
  MaxTime = 6
  MaxDonation = 1
  NoReservation = NoReservation
SYMMETRY MCSymmetry
SPECIFICATION Spec
INVARIANTS
  TypeOK
  LiabilityIsOutstanding
  BalanceCoversLiability
  RewardConserved
  PayoutNeverBlocked
  ReservationWindow
PROPERTIES
  SpentClaimNeverReturns
  CreditIsFinal
  ImplementsRewardLedger
CHECK_DEADLOCK FALSE
