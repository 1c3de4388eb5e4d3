------------------------- MODULE BountyEscrowProofs -------------------------
(***************************************************************************)
(* Proofs about BountyEscrow, for every number of bounties, every table of *)
(* policies and every set of claims, claimants, nonces and nullifiers.     *)
(***************************************************************************)
EXTENDS BountyEscrow, RunningTotalsProofs

-----------------------------------------------------------------------------
(***************************************************************************)
(* The inductive invariant.                                                *)
(***************************************************************************)
Owed == [b \in Bounty |-> Outstanding(b)]

LiabilityTotals == \E sum : Totals(NumBounties, sum, Owed, totalLiability)

\* Which bounties hold a reservation, and what createAndFund checked of those
\* that exist.
Slots ==
  \A b \in Bounty :
    /\ state[b] \in {"RESERVED", "QUALIFIED", "PAID"} =>
         reservation[b] \in Reservations /\ reservation[b].claimId \in usedClaimIds
    /\ state[b] \in {"NONE", "FUNDED", "REFUNDED"} => reservation[b] = NoReservation
    /\ state[b] # "NONE" =>
         /\ PolicyOf[b].reward > 0
         /\ PolicyOf[b].settlementDeadline
              >= PolicyOf[b].submissionDeadline + PolicyOf[b].duration

IInv ==
  /\ TypeOK
  /\ Slots
  /\ LiabilityTotals
  /\ BalanceCoversLiability
  /\ RewardConserved
  /\ ReservationWindow

\* What a step of one bounty does to the money: the outstanding amount of b
\* becomes v, and liability and balance move by the difference.
MoneyStep(b, v) ==
  /\ v \in Nat
  /\ Owed' = [Owed EXCEPT ![b] = v]
  /\ totalLiability' = totalLiability - Owed[b] + v
  /\ escrowBalance' - totalLiability' = escrowBalance - totalLiability
  /\ donated' = donated

LEMMA PolicyType ==
  ASSUME NEW b \in Bounty
  PROVE  /\ PolicyOf[b].reward \in Nat
         /\ PolicyOf[b].submissionDeadline \in Nat
         /\ PolicyOf[b].settlementDeadline \in Nat
         /\ PolicyOf[b].duration \in Nat
BY EscrowAssumption DEF Policies

LEMMA OwedType == TypeOK => Owed \in [Bounty -> Nat]
BY DEF TypeOK, Owed, Outstanding

LEMMA OwedUpdate ==
  ASSUME NEW b \in Bounty, NEW v, Outstanding(b)' = v,
         \A x \in Bounty \ {b} : Outstanding(x)' = Outstanding(x)
  PROVE  Owed' = [Owed EXCEPT ![b] = v]
BY DEF Owed

\* Money steps keep the totals and the cover.
LEMMA MoneyStepKeepsTotals ==
  ASSUME TypeOK, LiabilityTotals, BalanceCoversLiability,
         NEW b \in Bounty, NEW v, MoneyStep(b, v)
  PROVE  LiabilityTotals' /\ totalLiability' \in Nat
<1>1. Owed \in [Bounty -> Nat] /\ totalLiability \in Nat /\ v \in Nat
  BY OwedType DEF TypeOK, MoneyStep
<1>2. PICK sum : Totals(NumBounties, sum, Owed, totalLiability)
  BY DEF LiabilityTotals
<1>3. /\ totalLiability - Owed[b] + v \in Nat
      /\ \E s : Totals(NumBounties, s, [Owed EXCEPT ![b] = v], totalLiability - Owed[b] + v)
  BY <1>1, <1>2, TotalsUpdate, EscrowAssumption DEF Bounty
<1>4. PICK s : Totals(NumBounties, s, Owed', totalLiability')
  BY <1>3 DEF MoneyStep
<1>5. LiabilityTotals'
  BY <1>4 DEF LiabilityTotals, Totals
<1>6. QED BY <1>3, <1>5 DEF MoneyStep

LEMMA MoneyStepKeepsBalance ==
  ASSUME TypeOK, BalanceCoversLiability, totalLiability' \in Nat,
         NEW b \in Bounty, NEW v, MoneyStep(b, v), escrowBalance' \in Int
  PROVE  BalanceCoversLiability' /\ escrowBalance' \in Nat
BY DEF TypeOK, BalanceCoversLiability, MoneyStep

\* Each call is a money step, whatever else it does.
LEMMA CreateAndFundMoney ==
  ASSUME IInv, NEW b \in Bounty, NEW received, CreateAndFund(b, received)
  PROVE  MoneyStep(b, PolicyOf[b].reward) /\ escrowBalance' \in Int
<1>1. /\ unallocatedReward[b] = 0 /\ claimantCredit[b] = 0
      /\ received = PolicyOf[b].reward /\ received \in Nat
  BY PolicyType DEF IInv, RewardConserved, CreateAndFund, FundingMatches
<1>2. /\ Outstanding(b)' = PolicyOf[b].reward /\ Owed[b] = 0
      /\ \A x \in Bounty \ {b} : Outstanding(x)' = Outstanding(x)
  BY <1>1 DEF IInv, TypeOK, Owed, Outstanding, CreateAndFund
<1>3. Owed' = [Owed EXCEPT ![b] = PolicyOf[b].reward]
  BY <1>2, OwedUpdate
<1>4. QED
  BY <1>1, <1>2, <1>3 DEF IInv, TypeOK, MoneyStep, CreateAndFund

LEMMA QualifyMoney ==
  ASSUME IInv, NEW b \in Bounty, NEW a \in Assessments(b), Qualify(b, a)
  PROVE  MoneyStep(b, a.reward) /\ escrowBalance' \in Int
<1>1. /\ state[b] = "RESERVED" /\ unallocatedReward[b] \in Nat /\ claimantCredit[b] = 0
      /\ a.reward \in Nat
  BY PolicyType
  DEF IInv, TypeOK, RewardConserved, Qualify, AssessmentMatches, Assessments
<1>2. /\ Outstanding(b)' = a.reward /\ Owed[b] = unallocatedReward[b]
      /\ \A x \in Bounty \ {b} : Outstanding(x)' = Outstanding(x)
  BY <1>1 DEF IInv, TypeOK, Owed, Outstanding, Qualify
<1>3. Owed' = [Owed EXCEPT ![b] = a.reward]
  BY <1>2, OwedUpdate
<1>4. QED
  BY <1>1, <1>2, <1>3 DEF IInv, TypeOK, MoneyStep, Qualify, PayFromEscrow, Leftover

LEMMA CollectMoney ==
  ASSUME IInv, NEW b \in Bounty, CollectPayment(b)
  PROVE  MoneyStep(b, 0) /\ escrowBalance' \in Int
<1>1. state[b] = "QUALIFIED" /\ unallocatedReward[b] = 0 /\ claimantCredit[b] \in Nat
  BY DEF IInv, TypeOK, RewardConserved, CollectPayment
<1>2. /\ Outstanding(b)' = 0 /\ Owed[b] = claimantCredit[b]
      /\ \A x \in Bounty \ {b} : Outstanding(x)' = Outstanding(x)
  BY <1>1 DEF IInv, TypeOK, Owed, Outstanding, CollectPayment
<1>3. Owed' = [Owed EXCEPT ![b] = 0]
  BY <1>2, OwedUpdate
<1>4. QED
  BY <1>1, <1>2, <1>3 DEF IInv, TypeOK, MoneyStep, CollectPayment, PayFromEscrow

LEMMA RefundMoney ==
  ASSUME IInv, NEW b \in Bounty, RefundExpired(b)
  PROVE  MoneyStep(b, 0) /\ escrowBalance' \in Int
<1>1. state[b] \in {"FUNDED", "RESERVED"}
  BY DEF RefundExpired
<1>2. claimantCredit[b] = 0 /\ unallocatedReward[b] \in Nat
  BY <1>1, PolicyType DEF IInv, TypeOK, RewardConserved
<1>3. /\ Outstanding(b)' = 0 /\ Owed[b] = unallocatedReward[b]
      /\ \A x \in Bounty \ {b} : Outstanding(x)' = Outstanding(x)
  BY <1>2 DEF IInv, TypeOK, Owed, Outstanding, RefundExpired
<1>4. Owed' = [Owed EXCEPT ![b] = 0]
  BY <1>3, OwedUpdate
<1>5. QED
  BY <1>2, <1>3, <1>4 DEF IInv, TypeOK, MoneyStep, RefundExpired, PayFromEscrow

-----------------------------------------------------------------------------
(***************************************************************************)
(* Each action keeps the invariant.                                        *)
(***************************************************************************)
\* What a step of one bounty must show of the invariant once its money step is
\* known: its own entries, since it leaves those of the others alone.
LEMMA MoneyKept ==
  ASSUME IInv, NEW b \in Bounty, NEW v, MoneyStep(b, v), escrowBalance' \in Int
  PROVE  /\ LiabilityTotals' /\ totalLiability' \in Nat
         /\ BalanceCoversLiability' /\ escrowBalance' \in Nat
BY MoneyStepKeepsTotals, MoneyStepKeepsBalance DEF IInv

\* A step that leaves the amounts alone.
LEMMA MoneyUntouched ==
  ASSUME IInv,
         UNCHANGED <<unallocatedReward, claimantCredit, totalLiability, escrowBalance, donated>>
  PROVE  LiabilityTotals' /\ BalanceCoversLiability'
<1>1. Owed' = Owed
  BY DEF Owed, Outstanding
<1>2. PICK sum : Totals(NumBounties, sum, Owed, totalLiability)
  BY DEF IInv, LiabilityTotals
<1>3. Totals(NumBounties, sum, Owed', totalLiability')
  BY <1>1, <1>2
<1>4. LiabilityTotals'
  BY <1>3 DEF LiabilityTotals, Totals
<1>5. QED BY <1>4 DEF IInv, BalanceCoversLiability

LEMMA CreateAndFundKeepsIInv ==
  ASSUME IInv, NEW b \in Bounty, NEW received, CreateAndFund(b, received)
  PROVE  IInv'
<1>1. /\ LiabilityTotals' /\ totalLiability' \in Nat
      /\ BalanceCoversLiability' /\ escrowBalance' \in Nat
  BY CreateAndFundMoney, MoneyKept
<1>2. TypeOK'
  BY <1>1, PolicyType DEF IInv, TypeOK, State, CreateAndFund, replayVars
<1>3. Slots'
  BY PolicyType DEF IInv, TypeOK, Slots, CreateAndFund, ValidPolicy, replayVars
<1>4. RewardConserved'
  BY PolicyType DEF IInv, TypeOK, RewardConserved, CreateAndFund
<1>5. ReservationWindow'
  BY DEF IInv, TypeOK, ReservationWindow, CreateAndFund
<1>6. QED BY <1>1, <1>2, <1>3, <1>4, <1>5 DEF IInv

LEMMA ReserveClaimKeepsIInv ==
  ASSUME IInv, NEW b \in Bounty, NEW admission \in Admissions, ReserveClaim(b, admission)
  PROVE  IInv'
<1>1. LiabilityTotals' /\ BalanceCoversLiability'
  BY MoneyUntouched DEF ReserveClaim, moneyVars
<1>2. /\ admission.claimId \in Claim /\ admission.claimant \in Claimant
      /\ admission.nonce \in Nonce
  BY DEF Admissions
<1>3. now \in Nat /\ now < PolicyOf[b].submissionDeadline
  BY EscrowAssumption DEF IInv, TypeOK, Time, ReserveClaim
<1>4. PolicyOf[b].settlementDeadline >= PolicyOf[b].submissionDeadline + PolicyOf[b].duration
  BY DEF IInv, Slots, ReserveClaim
<1>5. /\ ReservationFor(b, admission) \in Reservations
      /\ ReservationFor(b, admission).claimId = admission.claimId
      /\ ReservationFor(b, admission).reservedAt = now
      /\ ReservationFor(b, admission).expiresAt = now + PolicyOf[b].duration
  BY <1>2, <1>3, <1>4, PolicyType DEF ReservationFor, Reservations, Lesser
<1>6. TypeOK'
  BY <1>2, <1>5 DEF IInv, TypeOK, State, ReserveClaim, moneyVars
<1>7. Slots'
  BY <1>5 DEF IInv, TypeOK, Slots, ReserveClaim, moneyVars
<1>8. RewardConserved'
  BY DEF IInv, TypeOK, RewardConserved, ReserveClaim, moneyVars
<1>9. ReservationWindow'
  BY <1>3, <1>4, <1>5, PolicyType DEF IInv, TypeOK, ReservationWindow, ReserveClaim
<1>10. QED BY <1>1, <1>6, <1>7, <1>8, <1>9 DEF IInv

LEMMA QualifyKeepsIInv ==
  ASSUME IInv, NEW b \in Bounty, NEW a \in Assessments(b), Qualify(b, a)
  PROVE  IInv'
<1>1. /\ LiabilityTotals' /\ totalLiability' \in Nat
      /\ BalanceCoversLiability' /\ escrowBalance' \in Nat
  BY QualifyMoney, MoneyKept
<1>2. a.reward \in Nat /\ a.nullifier \in Nullifier
  BY PolicyType DEF Assessments
<1>3. state[b] = "RESERVED" /\ a.reward > 0 /\ a.reward <= unallocatedReward[b]
  BY <1>2 DEF Qualify, AssessmentMatches
<1>4. /\ unallocatedReward[b] = PolicyOf[b].reward /\ claimantCredit[b] = 0
      /\ paidOut[b] = 0 /\ returned[b] = 0
  BY <1>3 DEF IInv, RewardConserved
<1>5. Leftover(b, a) \in Nat /\ Leftover(b, a) = PolicyOf[b].reward - a.reward
  BY <1>2, <1>3, <1>4, PolicyType DEF Leftover
<1>6. TypeOK'
  BY <1>1, <1>2, <1>4, <1>5 DEF IInv, TypeOK, State, Qualify
<1>7. Slots'
  BY <1>3 DEF IInv, TypeOK, Slots, Qualify
<1>8. RewardConserved'
  BY <1>2, <1>3, <1>4, <1>5, PolicyType DEF IInv, TypeOK, RewardConserved, Qualify
<1>9. ReservationWindow'
  BY DEF IInv, TypeOK, ReservationWindow, Qualify
<1>10. QED BY <1>1, <1>6, <1>7, <1>8, <1>9 DEF IInv

\* Reject and ExpireReservation free the slot and touch nothing else.
FreeSlot(b) ==
  /\ state[b] = "RESERVED"
  /\ state' = [state EXCEPT ![b] = "FUNDED"]
  /\ reservation' = [reservation EXCEPT ![b] = NoReservation]
  /\ UNCHANGED <<now, unallocatedReward, claimantCredit, replayVars, moneyVars>>

LEMMA FreeSlotKeepsIInv ==
  ASSUME IInv, NEW b \in Bounty, FreeSlot(b)
  PROVE  IInv'
<1>1. LiabilityTotals' /\ BalanceCoversLiability'
  BY MoneyUntouched DEF FreeSlot, moneyVars
<1>2. TypeOK'
  BY DEF IInv, TypeOK, State, FreeSlot, replayVars, moneyVars
<1>3. Slots'
  BY DEF IInv, TypeOK, Slots, FreeSlot, replayVars
<1>4. RewardConserved'
  BY DEF IInv, TypeOK, RewardConserved, FreeSlot, moneyVars
<1>5. ReservationWindow'
  BY DEF IInv, TypeOK, ReservationWindow, FreeSlot
<1>6. QED BY <1>1, <1>2, <1>3, <1>4, <1>5 DEF IInv

LEMMA CollectPaymentKeepsIInv ==
  ASSUME IInv, NEW b \in Bounty, CollectPayment(b)
  PROVE  IInv'
<1>1. /\ LiabilityTotals' /\ totalLiability' \in Nat
      /\ BalanceCoversLiability' /\ escrowBalance' \in Nat
  BY CollectMoney, MoneyKept
<1>2. TypeOK'
  BY <1>1 DEF IInv, TypeOK, State, CollectPayment, replayVars
<1>3. Slots'
  BY DEF IInv, TypeOK, Slots, CollectPayment, replayVars
<1>4. RewardConserved'
  BY PolicyType DEF IInv, TypeOK, RewardConserved, CollectPayment
<1>5. ReservationWindow'
  BY DEF IInv, TypeOK, ReservationWindow, CollectPayment
<1>6. QED BY <1>1, <1>2, <1>3, <1>4, <1>5 DEF IInv

LEMMA RefundExpiredKeepsIInv ==
  ASSUME IInv, NEW b \in Bounty, RefundExpired(b)
  PROVE  IInv'
<1>1. /\ LiabilityTotals' /\ totalLiability' \in Nat
      /\ BalanceCoversLiability' /\ escrowBalance' \in Nat
  BY RefundMoney, MoneyKept
<1>2. /\ state[b] \in {"FUNDED", "RESERVED"}
      /\ state' = [state EXCEPT ![b] = "REFUNDED"]
      /\ reservation' = [reservation EXCEPT ![b] = NoReservation]
  <2>1. CASE state[b] = "FUNDED" /\ UNCHANGED reservation
    BY <2>1 DEF IInv, TypeOK, Slots, RefundExpired
  <2>2. CASE state[b] = "RESERVED"
    BY <2>2 DEF RefundExpired
  <2>3. QED BY <2>1, <2>2 DEF RefundExpired
<1>3. /\ unallocatedReward[b] = PolicyOf[b].reward /\ claimantCredit[b] = 0
      /\ paidOut[b] = 0 /\ returned[b] = 0
  BY <1>2 DEF IInv, RewardConserved
<1>4. TypeOK'
  BY <1>1, <1>2, <1>3, PolicyType DEF IInv, TypeOK, State, RefundExpired, replayVars
<1>5. Slots'
  BY <1>2 DEF IInv, TypeOK, Slots, RefundExpired, replayVars
<1>6. RewardConserved'
  BY <1>2, <1>3, PolicyType DEF IInv, TypeOK, RewardConserved, RefundExpired
<1>7. ReservationWindow'
  BY <1>2 DEF IInv, TypeOK, ReservationWindow, RefundExpired
<1>8. QED BY <1>1, <1>4, <1>5, <1>6, <1>7 DEF IInv

LEMMA TimeAndDonationsKeepIInv == IInv /\ (Donate \/ Tick \/ UNCHANGED vars) => IInv'
<1> SUFFICES ASSUME IInv, Donate \/ Tick \/ UNCHANGED vars
             PROVE  IInv'
  OBVIOUS
<1>1. LiabilityTotals' /\ BalanceCoversLiability'
  <2>1. Owed' = Owed /\ totalLiability' = totalLiability
    BY DEF Donate, Tick, vars, bountyVars, moneyVars, Owed, Outstanding
  <2>2. PICK sum : Totals(NumBounties, sum, Owed, totalLiability)
    BY DEF IInv, LiabilityTotals
  <2>3. Totals(NumBounties, sum, Owed', totalLiability')
    BY <2>1, <2>2
  <2>4. LiabilityTotals'
    BY <2>3 DEF LiabilityTotals, Totals
  <2>5. BalanceCoversLiability'
    BY DEF IInv, TypeOK, BalanceCoversLiability, Donate, Tick, vars, moneyVars
  <2>6. QED BY <2>4, <2>5
<1>2. UNCHANGED <<bountyVars, replayVars, paidOut, returned>>
  BY DEF Donate, Tick, vars, moneyVars
<1>3. TypeOK'
  <2>1. now' \in Time
    BY EscrowAssumption DEF IInv, TypeOK, Time, Donate, Tick, vars
  <2>2. /\ totalLiability' \in Nat /\ escrowBalance' \in Nat /\ donated' \in Nat
    BY DEF IInv, TypeOK, Donate, Tick, vars, moneyVars
  <2>3. QED BY <1>2, <2>1, <2>2 DEF IInv, TypeOK, bountyVars, replayVars
<1>4. Slots'
  BY <1>2 DEF IInv, Slots, bountyVars, replayVars
<1>5. RewardConserved'
  BY <1>2 DEF IInv, RewardConserved, bountyVars
<1>6. ReservationWindow'
  <2>1. now' >= now /\ now' \in Int /\ now \in Int
    BY EscrowAssumption DEF IInv, TypeOK, Time, Donate, Tick, vars
  <2>2. ASSUME NEW b \in Bounty, state[b] = "RESERVED"
        PROVE  reservation[b].reservedAt \in Int
    BY <2>2 DEF IInv, Slots, Reservations
  <2>3. QED BY <1>2, <2>1, <2>2 DEF IInv, ReservationWindow, bountyVars
<1>7. QED BY <1>1, <1>3, <1>4, <1>5, <1>6 DEF IInv

LEMMA InitIInv == Init => IInv
<1> SUFFICES ASSUME Init PROVE IInv
  OBVIOUS
<1>1. TypeOK
  BY EscrowAssumption DEF Init, TypeOK, State, Time
<1>2. LiabilityTotals
  <2>1. Owed = [b \in 1 .. NumBounties |-> 0] /\ totalLiability = 0
    BY DEF Init, Owed, Outstanding, Bounty
  <2>2. QED BY <2>1, ZeroTotals, EscrowAssumption DEF LiabilityTotals
<1>3. Slots /\ RewardConserved /\ ReservationWindow /\ BalanceCoversLiability
  BY DEF Init, Slots, RewardConserved, ReservationWindow, BalanceCoversLiability
<1>4. QED BY <1>1, <1>2, <1>3 DEF IInv

LEMMA BountyStepKeepsIInv ==
  ASSUME IInv, NEW b \in Bounty, BountyStep(b)
  PROVE  IInv'
<1>1. ASSUME NEW received, CreateAndFund(b, received) PROVE IInv'
  BY <1>1, CreateAndFundKeepsIInv
<1>2. ASSUME NEW admission \in Admissions, ReserveClaim(b, admission) PROVE IInv'
  BY <1>2, ReserveClaimKeepsIInv
<1>3. ASSUME NEW a \in Assessments(b), Qualify(b, a) PROVE IInv'
  BY <1>3, QualifyKeepsIInv
<1>4. ASSUME NEW a \in Assessments(b), Reject(b, a) PROVE IInv'
  BY <1>4, FreeSlotKeepsIInv DEF Reject, AssessmentMatches, FreeSlot
<1>5. ASSUME ExpireReservation(b) PROVE IInv'
  BY <1>5, FreeSlotKeepsIInv DEF ExpireReservation, FreeSlot
<1>6. ASSUME CollectPayment(b) PROVE IInv'
  BY <1>6, CollectPaymentKeepsIInv
<1>7. ASSUME RefundExpired(b) PROVE IInv'
  BY <1>7, RefundExpiredKeepsIInv
<1>8. QED
  BY <1>1, <1>2, <1>3, <1>4, <1>5, <1>6, <1>7 DEF BountyStep, SubmitAssessment

LEMMA NextKeepsIInv == IInv /\ [Next]_vars => IInv'
BY BountyStepKeepsIInv, TimeAndDonationsKeepIInv DEF Next

LEMMA Invariance == Spec => []IInv
BY InitIInv, NextKeepsIInv, PTL DEF Spec

-----------------------------------------------------------------------------
(***************************************************************************)
(* The theorems.                                                           *)
(***************************************************************************)
\* Every variable of the contract keeps its type; in particular no checked
\* subtraction of BountyEscrow.sol ever takes an amount below zero.
THEOREM TypeCorrect == Spec => []TypeOK
<1>1. IInv => TypeOK
  BY DEF IInv
<1>2. QED BY <1>1, Invariance, PTL

\* totalLiability is always the exact sum of what the bounties still owe.
THEOREM LiabilityExact == Spec => []LiabilityIsOutstanding
<1>1. IInv => LiabilityIsOutstanding
  <2> SUFFICES ASSUME IInv PROVE LiabilityIsOutstanding
    OBVIOUS
  <2>1. PICK sum : Totals(NumBounties, sum, Owed, totalLiability)
    BY DEF IInv, LiabilityTotals
  <2>2. QED BY <2>1, TotalsAddUp DEF LiabilityIsOutstanding, Owed
<1>2. QED BY <1>1, Invariance, PTL

\* The asset held is the liability plus what was given to the escrow.
THEOREM BalanceExact == Spec => []BalanceCoversLiability
<1>1. IInv => BalanceCoversLiability
  BY DEF IInv
<1>2. QED BY <1>1, Invariance, PTL

\* Each reward is split at most once, and no part of it is lost or paid twice.
THEOREM Conservation == Spec => []RewardConserved
<1>1. IInv => RewardConserved
  BY DEF IInv
<1>2. QED BY <1>1, Invariance, PTL

\* No payment, refund or capped remainder the state machine permits can revert
\* for want of cover, whatever happened to the other bounties.
THEOREM PayoutCovered == Spec => []PayoutNeverBlocked
<1>1. IInv => PayoutNeverBlocked
  <2> SUFFICES ASSUME IInv, NEW b \in Bounty
               PROVE  Outstanding(b) <= totalLiability /\ Outstanding(b) <= escrowBalance
    BY DEF PayoutNeverBlocked
  <2>1. PICK sum : Totals(NumBounties, sum, Owed, totalLiability)
    BY DEF IInv, LiabilityTotals
  <2>2. /\ Owed \in [Bounty -> Nat] /\ totalLiability \in Nat /\ donated \in Nat
        /\ escrowBalance = totalLiability + donated
    BY OwedType DEF IInv, TypeOK, BalanceCoversLiability
  <2>3. Owed[b] <= totalLiability
    BY <2>1, <2>2, TotalsUpdate, EscrowAssumption DEF Bounty
  <2>4. Owed[b] = Outstanding(b) /\ Owed[b] \in Nat
    BY <2>2 DEF Owed
  <2>5. QED BY <2>2, <2>3, <2>4
<1>2. QED BY <1>1, Invariance, PTL

\* A claimant always gets the reservation the policy names, inside the
\* settlement deadline.
THEOREM FullWindow == Spec => []ReservationWindow
<1>1. IInv => ReservationWindow
  BY DEF IInv
<1>2. QED BY <1>1, Invariance, PTL

-----------------------------------------------------------------------------
(***************************************************************************)
(* Action properties and refinement.                                       *)
(***************************************************************************)
\* What one step can do to one bounty, with the amounts it had before.
Created(b) ==
  /\ state[b] = "NONE" /\ state'[b] = "FUNDED"
  /\ unallocatedReward' = [unallocatedReward EXCEPT ![b] = PolicyOf[b].reward]
  /\ UNCHANGED <<reservation, claimantCredit, usedClaimIds, paidOut, returned>>

Reserved(b) ==
  /\ state[b] = "FUNDED" /\ state'[b] = "RESERVED"
  /\ \E c \in Claim : /\ c \notin usedClaimIds
                      /\ usedClaimIds' = usedClaimIds \cup {c}
                      /\ reservation'[b] \in Reservations /\ reservation'[b].claimId = c
  /\ UNCHANGED <<unallocatedReward, claimantCredit, paidOut, returned>>

Freed(b) ==
  /\ state[b] = "RESERVED" /\ state'[b] = "FUNDED"
  /\ reservation'[b] = NoReservation
  /\ UNCHANGED <<unallocatedReward, claimantCredit, usedClaimIds, paidOut, returned>>

Credited(b) ==
  /\ state[b] = "RESERVED" /\ state'[b] = "QUALIFIED"
  /\ \E amount \in 1 .. unallocatedReward[b] :
       /\ unallocatedReward' = [unallocatedReward EXCEPT ![b] = 0]
       /\ claimantCredit' = [claimantCredit EXCEPT ![b] = amount]
       /\ returned' = [returned EXCEPT ![b] = unallocatedReward[b] - amount]
  /\ UNCHANGED <<reservation, usedClaimIds, paidOut>>

Collected(b) ==
  /\ state[b] = "QUALIFIED" /\ state'[b] = "PAID"
  /\ claimantCredit[b] > 0
  /\ claimantCredit' = [claimantCredit EXCEPT ![b] = 0]
  /\ paidOut' = [paidOut EXCEPT ![b] = claimantCredit[b]]
  /\ UNCHANGED <<reservation, unallocatedReward, usedClaimIds, returned>>

Refunded(b) ==
  /\ state[b] \in {"FUNDED", "RESERVED"} /\ state'[b] = "REFUNDED"
  /\ unallocatedReward[b] > 0
  /\ reservation'[b] = NoReservation
  /\ unallocatedReward' = [unallocatedReward EXCEPT ![b] = 0]
  /\ returned' = [returned EXCEPT ![b] = unallocatedReward[b]]
  /\ UNCHANGED <<claimantCredit, usedClaimIds, paidOut>>

OthersAlone(b) ==
  \A x \in Bounty \ {b} : state'[x] = state[x] /\ reservation'[x] = reservation[x]

\* Every call is one of these steps and leaves the other bounties alone.
LEMMA StepShape ==
  ASSUME IInv, NEW b \in Bounty, BountyStep(b)
  PROVE  /\ OthersAlone(b)
         /\ Created(b) \/ Reserved(b) \/ Freed(b) \/ Credited(b) \/ Collected(b) \/ Refunded(b)
<1>1. ASSUME NEW received, CreateAndFund(b, received)
      PROVE  OthersAlone(b) /\ Created(b)
  BY <1>1 DEF IInv, TypeOK, CreateAndFund, OthersAlone, Created, replayVars
<1>2. ASSUME NEW admission \in Admissions, ReserveClaim(b, admission)
      PROVE  OthersAlone(b) /\ Reserved(b)
  <2>1. admission.claimId \in Claim /\ admission.claimId \notin usedClaimIds
    BY <1>2 DEF Admissions, ReserveClaim, NotReplayed
  <2>2. /\ reservation'[b] = ReservationFor(b, admission)
        /\ reservation'[b].claimId = admission.claimId
    BY <1>2 DEF IInv, TypeOK, ReserveClaim, ReservationFor
  <2>3. reservation'[b] \in Reservations
    <3>1. IInv' /\ state'[b] = "RESERVED"
      BY <1>2, ReserveClaimKeepsIInv DEF IInv, TypeOK, ReserveClaim
    <3>2. QED BY <3>1 DEF IInv, Slots
  <2>4. QED
    BY <1>2, <2>1, <2>2, <2>3 DEF IInv, TypeOK, ReserveClaim, OthersAlone, Reserved, moneyVars
<1>3. ASSUME NEW a \in Assessments(b), Qualify(b, a)
      PROVE  OthersAlone(b) /\ Credited(b)
  <2>1. /\ a.reward \in 1 .. unallocatedReward[b] /\ state[b] = "RESERVED"
        /\ returned[b] = 0 /\ unallocatedReward[b] \in Nat
    BY <1>3, PolicyType
    DEF IInv, TypeOK, RewardConserved, Assessments, Qualify, AssessmentMatches
  <2>2. returned' = [returned EXCEPT ![b] = unallocatedReward[b] - a.reward]
    <3>1. returned[b] + (unallocatedReward[b] - a.reward) = unallocatedReward[b] - a.reward
      BY <2>1
    <3>2. returned' = [returned EXCEPT ![b] = returned[b] + (unallocatedReward[b] - a.reward)]
      BY <1>3 DEF Qualify, Leftover
    <3>3. QED BY <3>1, <3>2
  <2>3. QED
    BY <1>3, <2>1, <2>2 DEF IInv, TypeOK, Qualify, OthersAlone, Credited
<1>4. ASSUME NEW a \in Assessments(b), Reject(b, a)
      PROVE  OthersAlone(b) /\ Freed(b)
  BY <1>4
  DEF IInv, TypeOK, Reject, AssessmentMatches, OthersAlone, Freed, replayVars, moneyVars
<1>5. ASSUME ExpireReservation(b)
      PROVE  OthersAlone(b) /\ Freed(b)
  BY <1>5 DEF IInv, TypeOK, ExpireReservation, OthersAlone, Freed, replayVars, moneyVars
<1>6. ASSUME CollectPayment(b)
      PROVE  OthersAlone(b) /\ Collected(b)
  <2>1. state[b] = "QUALIFIED" /\ paidOut[b] = 0 /\ claimantCredit[b] > 0
        /\ claimantCredit[b] \in Nat
    BY <1>6 DEF IInv, TypeOK, RewardConserved, CollectPayment
  <2>2. paidOut' = [paidOut EXCEPT ![b] = claimantCredit[b]]
    <3>1. paidOut[b] + claimantCredit[b] = claimantCredit[b]
      BY <2>1
    <3>2. paidOut' = [paidOut EXCEPT ![b] = paidOut[b] + claimantCredit[b]]
      BY <1>6 DEF CollectPayment
    <3>3. QED BY <3>1, <3>2
  <2>3. QED
    BY <1>6, <2>1, <2>2 DEF IInv, TypeOK, CollectPayment, OthersAlone, Collected, replayVars
<1>7. ASSUME RefundExpired(b)
      PROVE  OthersAlone(b) /\ Refunded(b)
  <2>1. state[b] \in {"FUNDED", "RESERVED"}
    BY <1>7 DEF RefundExpired
  <2>2. /\ unallocatedReward[b] > 0 /\ unallocatedReward[b] \in Nat /\ returned[b] = 0
    BY <2>1, PolicyType DEF IInv, TypeOK, RewardConserved, Slots
  <2>3. returned' = [returned EXCEPT ![b] = unallocatedReward[b]]
    <3>1. returned[b] + unallocatedReward[b] = unallocatedReward[b]
      BY <2>2
    <3>2. returned' = [returned EXCEPT ![b] = returned[b] + unallocatedReward[b]]
      BY <1>7 DEF RefundExpired
    <3>3. QED BY <3>1, <3>2
  <2>4. reservation'[b] = NoReservation /\ OthersAlone(b)
    BY <1>7 DEF IInv, TypeOK, Slots, RefundExpired, OthersAlone
  <2>5. QED
    BY <1>7, <2>1, <2>2, <2>3, <2>4 DEF IInv, TypeOK, RefundExpired, Refunded, replayVars
<1>8. QED
  BY <1>1, <1>2, <1>3, <1>4, <1>5, <1>6, <1>7 DEF BountyStep, SubmitAssessment

\* A step that is no call of a bounty.
LEMMA OtherSteps ==
  Donate \/ Tick \/ UNCHANGED vars =>
    UNCHANGED <<state, reservation, unallocatedReward, claimantCredit, usedClaimIds,
                paidOut, returned>>
BY DEF Donate, Tick, vars, bountyVars, replayVars, moneyVars

\* A claim identifier gets one reservation in its life, on one bounty.
THEOREM ClaimsAreSpent == Spec => SpentClaimNeverReturns
<1>1. ASSUME IInv, [Next]_vars, NEW b \in Bounty, NEW c \in Claim,
             c \in usedClaimIds, ~ HeldBy(b, c)
      PROVE  ~ HeldBy(b, c)'
  <2>1. ASSUME NEW x \in Bounty, BountyStep(x) PROVE ~ HeldBy(b, c)'
    <3>1. CASE x # b
      BY <3>1, <2>1, <1>1, StepShape DEF OthersAlone, HeldBy
    <3>2. CASE x = b
      <4>1. CASE Reserved(b)
        BY <4>1, <1>1 DEF Reserved, HeldBy
      <4>2. CASE Created(b) \/ Freed(b) \/ Credited(b) \/ Collected(b) \/ Refunded(b)
        BY <4>2, <1>1 DEF Created, Freed, Credited, Collected, Refunded, HeldBy
      <4>3. QED BY <3>2, <4>1, <4>2, <2>1, <1>1, StepShape
    <3>3. QED BY <3>1, <3>2
  <2>2. ASSUME Donate \/ Tick \/ UNCHANGED vars PROVE ~ HeldBy(b, c)'
    BY <2>2, <1>1, OtherSteps DEF HeldBy
  <2>3. QED BY <1>1, <2>1, <2>2 DEF Next
<1>2. IInv /\ [Next]_vars =>
        [\A b \in Bounty, c \in Claim :
           c \in usedClaimIds /\ ~ HeldBy(b, c) => ~ HeldBy(b, c)']_vars
  BY <1>1
<1>3. QED BY <1>2, Invariance, PTL DEF Spec, SpentClaimNeverReturns

\* A credit is final: claimant and amount never change after a claim
\* qualifies, and nothing changes after payment or refund.
THEOREM CreditsAreFinal == Spec => CreditIsFinal
<1> DEFINE Final(b) ==
      /\ state[b] = "QUALIFIED" =>
           /\ reservation'[b] = reservation[b]
           /\ state'[b] \in {"QUALIFIED", "PAID"}
           /\ claimantCredit'[b] + paidOut'[b] = claimantCredit[b] + paidOut[b]
      /\ state[b] \in {"PAID", "REFUNDED"} =>
           /\ state'[b] = state[b] /\ reservation'[b] = reservation[b]
           /\ paidOut'[b] = paidOut[b] /\ returned'[b] = returned[b]
<1>1. ASSUME IInv, [Next]_vars, NEW b \in Bounty
      PROVE  Final(b)
  <2>1. ASSUME NEW x \in Bounty, BountyStep(x) PROVE Final(b)
    <3>1. CASE x # b
      <4>1. /\ reservation'[b] = reservation[b] /\ state'[b] = state[b]
            /\ claimantCredit'[b] = claimantCredit[b]
            /\ paidOut'[b] = paidOut[b] /\ returned'[b] = returned[b]
        BY <3>1, <2>1, <1>1, StepShape
        DEF IInv, TypeOK, OthersAlone, Created, Reserved, Freed, Credited, Collected, Refunded
      <4>2. QED BY <4>1
    <3>2. CASE x = b
      <4>1. CASE Collected(b)
        <5>1. /\ paidOut[b] = 0 /\ claimantCredit[b] \in Nat
              /\ claimantCredit'[b] = 0 /\ paidOut'[b] = claimantCredit[b]
          BY <4>1, <1>1 DEF IInv, TypeOK, RewardConserved, Collected
        <5>2. QED BY <4>1, <5>1 DEF Collected
      <4>2. CASE Created(b) \/ Reserved(b) \/ Freed(b) \/ Credited(b) \/ Refunded(b)
        BY <4>2 DEF Created, Reserved, Freed, Credited, Refunded
      <4>3. QED BY <3>2, <4>1, <4>2, <2>1, <1>1, StepShape
    <3>3. QED BY <3>1, <3>2
  <2>2. ASSUME Donate \/ Tick \/ UNCHANGED vars PROVE Final(b)
    BY <2>2, OtherSteps
  <2>3. QED BY <1>1, <2>1, <2>2 DEF Next
<1>2. IInv /\ [Next]_vars => [\A b \in Bounty : Final(b)]_vars
  BY <1>1
<1>3. QED BY <1>2, Invariance, PTL DEF Spec, CreditIsFinal

\* The contract implements RewardLedger: a call that moves money is one ledger
\* step, every other step leaves the ledger alone.
THEOREM Refinement == Spec => ImplementsRewardLedger
<1> DEFINE amounts == <<unallocatedReward, claimantCredit, paidOut, returned>>
<1>1. Init => Ledger!LedgerInit
  BY DEF Init, Ledger!LedgerInit
<1>2. ASSUME IInv, NEW b \in Bounty, BountyStep(b)
      PROVE  Ledger!LedgerNext \/ UNCHANGED amounts
  <2>1. CASE Created(b)
    <3>1. Ledger!Untouched(b)
      BY <2>1, <1>2 DEF Created, IInv, RewardConserved, Ledger!Untouched
    <3>2. Ledger!Deposit(b)
      BY <2>1, <3>1 DEF Created, Ledger!Deposit
    <3>3. QED BY <3>2 DEF Ledger!LedgerNext
  <2>2. CASE Credited(b)
    <3>1. Ledger!Promise(b)
      BY <2>2 DEF Credited, Ledger!Promise
    <3>2. QED BY <3>1 DEF Ledger!LedgerNext
  <2>3. CASE Collected(b)
    <3>1. Ledger!Pay(b)
      BY <2>3 DEF Collected, Ledger!Pay
    <3>2. QED BY <3>1 DEF Ledger!LedgerNext
  <2>4. CASE Refunded(b)
    <3>1. Ledger!Return(b)
      BY <2>4 DEF Refunded, Ledger!Return
    <3>2. QED BY <3>1 DEF Ledger!LedgerNext
  <2>5. CASE Reserved(b) \/ Freed(b)
    BY <2>5 DEF Reserved, Freed
  <2>6. QED BY <1>2, <2>1, <2>2, <2>3, <2>4, <2>5, StepShape
<1>3. IInv /\ [Next]_vars => [Ledger!LedgerNext]_(Ledger!ledgerVars)
  BY <1>2, OtherSteps DEF Next, Ledger!ledgerVars
<1>4. QED
  BY <1>1, <1>3, Invariance, PTL DEF Spec, ImplementsRewardLedger, Ledger!LedgerSpec

-----------------------------------------------------------------------------
(* The slot of one bounty.                                                 *)

Holder(b) == {c \in Claim : HeldBy(b, c)}
ExpiresAt(b) == IF reservation[b] = NoReservation THEN 0 ELSE reservation[b].expiresAt
Granted(b) == claimantCredit[b] + paidOut[b]

SlotAlone(b) ==
  /\ state'[b] = state[b] /\ reservation'[b] = reservation[b]
  /\ claimantCredit'[b] = claimantCredit[b] /\ paidOut'[b] = paidOut[b]

\* Every call leaves the clock alone and only adds to the spent claims.
LEMMA CallsSpend ==
  ASSUME NEW b \in Bounty, BountyStep(b)
  PROVE  now' = now /\ usedClaimIds \subseteq usedClaimIds'
BY DEF BountyStep, CreateAndFund, ReserveClaim, SubmitAssessment, Qualify, Reject,
       ExpireReservation, CollectPayment, RefundExpired, replayVars

\* A step that leaves the slot alone spends claims elsewhere or lets time pass.
LEMMA SlotUntouched ==
  ASSUME NEW b \in Bounty, SlotAlone(b), now' \in Nat, now' >= now,
         usedClaimIds \subseteq usedClaimIds'
  PROVE  Slot(b)!Elsewhere
BY DEF SlotAlone, Slot!Elsewhere, Slot!slot, HeldBy

\* A slot that is freed has no holder.
LEMMA SlotVacated ==
  ASSUME NEW b \in Bounty, reservation'[b] = NoReservation, now' = now,
         UNCHANGED usedClaimIds, Granted(b)' = Granted(b)
  PROVE  Slot(b)!Vacate
BY DEF Slot!Vacate, HeldBy, Granted

\* Every call of a bounty is a step of its slot.
LEMMA SlotSteps ==
  ASSUME IInv, NEW b \in Bounty, BountyStep(b)
  PROVE  Slot(b)!SlotNext
<1>0. /\ now \in Nat /\ now' = now
      /\ PolicyOf[b] \in Policies
      /\ paidOut[b] \in Nat /\ claimantCredit[b] \in Nat
  BY CallsSpend, PolicyType, EscrowAssumption DEF IInv, TypeOK, Time
<1>1. ASSUME NEW received, CreateAndFund(b, received)
      PROVE  Slot(b)!Fund
  BY <1>1 DEF IInv, TypeOK, CreateAndFund, replayVars, Slot!Fund, HeldBy
<1>2. ASSUME NEW admission \in Admissions, ReserveClaim(b, admission)
      PROVE  \E c \in Claim : Slot(b)!Reserve(c)
  <2>1. /\ admission.claimId \in Claim /\ admission.claimId \notin usedClaimIds
        /\ reservation'[b] = ReservationFor(b, admission)
        /\ reservation'[b].claimId = admission.claimId
        /\ reservation'[b].expiresAt
             = Lesser(now + PolicyOf[b].duration, PolicyOf[b].settlementDeadline)
    BY <1>2 DEF IInv, TypeOK, Admissions, ReserveClaim, NotReplayed, ReservationFor
  <2>2. reservation'[b] # NoReservation
    <3>1. IInv' /\ state'[b] = "RESERVED"
      BY <1>2, ReserveClaimKeepsIInv DEF IInv, TypeOK, ReserveClaim
    <3> QED BY <3>1, EscrowAssumption DEF IInv, Slots
  <2>3. Holder(b)' = {admission.claimId}
    BY <2>1, <2>2 DEF Holder, HeldBy
  <2>4. Slot(b)!Reserve(admission.claimId)
    BY <1>0, <1>2, <2>1, <2>2, <2>3
    DEF IInv, TypeOK, ReserveClaim, Lesser, moneyVars, Holder, Slot!Reserve
  <2> QED BY <2>1, <2>4
<1>3. ASSUME NEW a \in Assessments(b), Qualify(b, a)
      PROVE  Slot(b)!Grant
  <2>1. /\ state[b] = "RESERVED" /\ reservation[b] \in Reservations
        /\ now <= reservation[b].expiresAt
        /\ paidOut[b] = 0 /\ unallocatedReward[b] = PolicyOf[b].reward
        /\ a.reward \in 1 .. PolicyOf[b].reward
    BY <1>3, PolicyType
    DEF IInv, TypeOK, Slots, RewardConserved, Assessments, Qualify, AssessmentMatches
  <2>2. reservation[b] # NoReservation
    BY <2>1, EscrowAssumption
  <2>3. claimantCredit'[b] + paidOut'[b] \in 1 .. PolicyOf[b].reward
    <3>1. claimantCredit'[b] = a.reward /\ paidOut'[b] = 0
      BY <1>3, <2>1 DEF IInv, TypeOK, Qualify
    <3> QED BY <2>1, <3>1
  <2> QED BY <1>3, <2>1, <2>2, <2>3 DEF IInv, TypeOK, Qualify, HeldBy, Slot!Grant
<1>4. ASSUME NEW a \in Assessments(b), Reject(b, a)
      PROVE  Slot(b)!Deny
  <2>1. /\ state[b] = "RESERVED" /\ now <= reservation[b].expiresAt
        /\ reservation[b] # NoReservation
    BY <1>4, EscrowAssumption DEF IInv, Slots, Reject, AssessmentMatches
  <2>2. Slot(b)!Vacate
    BY <1>4, SlotVacated DEF IInv, TypeOK, Reject, replayVars, moneyVars, Granted
  <2> QED BY <1>4, <2>1, <2>2 DEF IInv, TypeOK, Reject, Slot!Deny
<1>5. ASSUME ExpireReservation(b)
      PROVE  Slot(b)!Expire
  <2>1. /\ state[b] = "RESERVED" /\ now > reservation[b].expiresAt
        /\ reservation[b] # NoReservation
    BY <1>5, EscrowAssumption DEF IInv, Slots, ExpireReservation
  <2>2. Slot(b)!Vacate
    BY <1>5, SlotVacated DEF IInv, TypeOK, ExpireReservation, replayVars, moneyVars, Granted
  <2> QED BY <1>5, <2>1, <2>2 DEF IInv, TypeOK, ExpireReservation, Slot!Expire
<1>6. ASSUME CollectPayment(b)
      PROVE  Slot(b)!Collect
  <2>1. claimantCredit'[b] + paidOut'[b] = claimantCredit[b] + paidOut[b]
    <3>1. claimantCredit'[b] = 0 /\ paidOut'[b] = paidOut[b] + claimantCredit[b]
      BY <1>6 DEF IInv, TypeOK, CollectPayment
    <3> QED BY <1>0, <3>1
  <2> QED BY <1>6, <2>1
          DEF IInv, TypeOK, CollectPayment, replayVars, HeldBy, Slot!Collect
<1>7. ASSUME RefundExpired(b)
      PROVE  Slot(b)!Refund
  <2>1. /\ reservation'[b] = NoReservation
        /\ state[b] \in {"FUNDED", "RESERVED"}
        /\ state[b] = "RESERVED" =>
             now > reservation[b].expiresAt /\ reservation[b] # NoReservation
    BY <1>7, EscrowAssumption DEF IInv, TypeOK, Slots, RefundExpired
  <2>2. Slot(b)!Vacate
    BY <1>0, <1>7, <2>1, SlotVacated DEF RefundExpired, replayVars, Granted
  <2> QED BY <1>7, <2>1, <2>2 DEF IInv, TypeOK, RefundExpired, Slot!Refund
<1> QED
  BY <1>1, <1>2, <1>3, <1>4, <1>5, <1>6, <1>7 DEF BountyStep, SubmitAssessment, Slot!SlotNext

\* The contract implements BountySlot for each of its bounties: a call of the
\* bounty is a step of its slot, every other step leaves the slot alone.
THEOREM SlotRefinement == Spec => ImplementsBountySlot
<1>1. ASSUME NEW b \in Bounty PROVE Init => Slot(b)!SlotInit
  BY DEF Init, HeldBy, Slot!SlotInit
<1>2. ASSUME NEW b \in Bounty, IInv, [Next]_vars
      PROVE  [Slot(b)!SlotNext]_(Slot(b)!slotVars)
  <2>0. now \in Nat
    BY <1>2, EscrowAssumption DEF IInv, TypeOK, Time
  <2>1. ASSUME NEW x \in Bounty, BountyStep(x) PROVE Slot(b)!SlotNext
    <3>1. CASE x = b
      BY <1>2, <2>1, <3>1, SlotSteps
    <3>2. CASE x # b
      <4>1. SlotAlone(b)
        BY <3>2, <2>1, <1>2, StepShape
        DEF IInv, TypeOK, OthersAlone, Created, Reserved, Freed, Credited, Collected, Refunded,
            SlotAlone
      <4>2. Slot(b)!Elsewhere
        BY <2>0, <2>1, <4>1, CallsSpend, SlotUntouched
      <4> QED BY <4>2 DEF Slot!SlotNext
    <3> QED BY <3>1, <3>2
  <2>2. ASSUME Donate \/ Tick PROVE Slot(b)!SlotNext
    <3>1. now' \in Nat /\ now' >= now
      BY <2>0, <2>2 DEF Donate, Tick
    <3>2. SlotAlone(b) /\ usedClaimIds' = usedClaimIds
      BY <2>2, OtherSteps DEF SlotAlone
    <3> QED BY <3>1, <3>2, SlotUntouched DEF Slot!SlotNext
  <2>3. CASE UNCHANGED vars
    BY <2>3 DEF vars, bountyVars, replayVars, moneyVars, HeldBy, Slot!slotVars, Slot!slot
  <2> QED BY <1>2, <2>1, <2>2, <2>3 DEF Next
<1>3. ASSUME NEW b \in Bounty PROVE Spec => Slot(b)!SlotSpec
  <2>1. IInv /\ [Next]_vars => [Slot(b)!SlotNext]_(Slot(b)!slotVars)
    BY <1>2
  <2> QED BY <1>1, <2>1, Invariance, PTL DEF Spec, Slot!SlotSpec
<1> QED BY <1>3 DEF ImplementsBountySlot
=============================================================================
