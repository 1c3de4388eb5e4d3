---------------------------- MODULE BountyEscrow ----------------------------
(***************************************************************************)
(* contracts/src/BountyEscrow.sol: one escrow contract holding the rewards *)
(* of many bounties in one ERC-20 asset.  Each call is one atomic step, as *)
(* a transaction is; a call that reverts changes nothing and is no step.   *)
(*                                                                         *)
(* A bounty's identifier is the hash of its policy, so the policy of an    *)
(* identifier never changes: PolicyOf gives it, for policies that pass the *)
(* checks of createAndFund and for policies that do not.  Admissions and   *)
(* assessments are whatever the two trusted signers may ever have signed:  *)
(* any record, presented at any time, any number of times, by anybody.     *)
(***************************************************************************)
EXTENDS RunningTotals

CONSTANTS
  NumBounties,      \* bounties are numbered 1 .. NumBounties
  PolicyOf,         \* the policy each bounty identifier is the hash of
  Claim, Claimant, Nonce, Nullifier,
  MinReservation,   \* 60 seconds in the code
  MaxReservation,   \* 1800 seconds in the code
  MaxTime,          \* bound on block.timestamp
  MaxDonation,      \* bound on asset transferred to the escrow outside createAndFund
  NoReservation     \* a deleted Reservation

Bounty == 1 .. NumBounties
Time   == 0 .. MaxTime

Policies == [reward : Nat, submissionDeadline : Nat, settlementDeadline : Nat,
             duration : Nat]

State == {"NONE", "FUNDED", "RESERVED", "QUALIFIED", "PAID", "REFUNDED"}

Reservations == [claimId : Claim, claimant : Claimant, reservedAt : Nat, expiresAt : Nat]

Admissions == [claimId : Claim, claimant : Claimant, nonce : Nonce, validUntil : Time]

\* Outcome 1 is QUALIFIES, outcome 2 is REJECTED.
Assessments(b) ==
  [claimId : Claim, claimant : Claimant, nullifier : Nullifier, outcome : {1, 2},
   reward : 0 .. PolicyOf[b].reward + 1, assessedAt : Time, validUntil : Time]

ASSUME EscrowAssumption ==
  /\ NumBounties \in Nat
  /\ PolicyOf \in [Bounty -> Policies]
  /\ MinReservation \in Nat /\ MaxReservation \in Nat
  /\ MaxTime \in Nat /\ MaxDonation \in Nat
  /\ NoReservation \notin Reservations

VARIABLES
  now,                   \* block.timestamp
  state,                 \* Bounty.state
  reservation,           \* Bounty.reservation
  unallocatedReward,     \* Bounty.unallocatedReward
  claimantCredit,        \* Bounty.claimantCredit
  usedAdmissionNonces,
  usedClaimIds,
  usedCaseNullifiers,    \* per bounty
  totalLiability,
  escrowBalance,         \* asset.balanceOf(address(this))
  paidOut,               \* history: what Paid(b) transferred to the claimant
  returned,              \* history: what RewardCapped and BountyRefunded transferred back
  donated                \* history: asset received outside createAndFund

bountyVars == <<state, reservation, unallocatedReward, claimantCredit>>
replayVars == <<usedAdmissionNonces, usedClaimIds, usedCaseNullifiers>>
moneyVars  == <<totalLiability, escrowBalance, paidOut, returned, donated>>
vars == <<now, bountyVars, replayVars, moneyVars>>

Init ==
  /\ now = 0
  /\ state = [b \in Bounty |-> "NONE"]
  /\ reservation = [b \in Bounty |-> NoReservation]
  /\ unallocatedReward = [b \in Bounty |-> 0]
  /\ claimantCredit = [b \in Bounty |-> 0]
  /\ usedAdmissionNonces = {}
  /\ usedClaimIds = {}
  /\ usedCaseNullifiers = [b \in Bounty |-> {}]
  /\ totalLiability = 0
  /\ escrowBalance = 0
  /\ paidOut = [b \in Bounty |-> 0]
  /\ returned = [b \in Bounty |-> 0]
  /\ donated = 0

-----------------------------------------------------------------------------
\* A faulty variant: the settlement deadline may fall inside a reservation.
PolicyWithoutSettlementCheck(p) ==
  /\ p.reward # 0
  /\ p.submissionDeadline > now
  /\ p.duration >= MinReservation
  /\ p.duration <= MaxReservation

\* The checks createAndFund makes on numbers.  Its checks that identifiers,
\* addresses and hashes are non-zero hold of every policy here.
ValidPolicy(p) ==
  /\ p.reward # 0
  /\ p.submissionDeadline > now
  /\ p.duration >= MinReservation
  /\ p.duration <= MaxReservation
  /\ p.settlementDeadline >= p.submissionDeadline + p.duration

\* A faulty variant: the transfer leaves the liability as it was.
PayKeepingLiability(amount) ==
  /\ totalLiability >= amount
  /\ escrowBalance >= amount
  /\ escrowBalance' = escrowBalance - amount
  /\ UNCHANGED totalLiability

\* safeTransfer out of the escrow, with the checked subtraction of the
\* liability: both revert the call when the amount is not covered.
PayFromEscrow(amount) ==
  /\ totalLiability >= amount
  /\ escrowBalance >= amount
  /\ totalLiability' = totalLiability - amount
  /\ escrowBalance' = escrowBalance - amount

\* A faulty variant: whatever arrived is accepted.
AnyFunding(b, received) == received <= PolicyOf[b].reward

FundingMatches(b, received) == received = PolicyOf[b].reward

\* received is what safeTransferFrom really added to the balance.
CreateAndFund(b, received) ==
  /\ ValidPolicy(PolicyOf[b])
  /\ state[b] = "NONE"
  /\ FundingMatches(b, received)
  /\ state' = [state EXCEPT ![b] = "FUNDED"]
  /\ unallocatedReward' = [unallocatedReward EXCEPT ![b] = PolicyOf[b].reward]
  /\ totalLiability' = totalLiability + PolicyOf[b].reward
  /\ escrowBalance' = escrowBalance + received
  /\ UNCHANGED <<now, reservation, claimantCredit, replayVars, paidOut, returned, donated>>

Lesser(m, n) == IF m <= n THEN m ELSE n

ReservationFor(b, admission) ==
  [claimId    |-> admission.claimId,
   claimant   |-> admission.claimant,
   reservedAt |-> now,
   expiresAt  |-> Lesser(now + PolicyOf[b].duration, PolicyOf[b].settlementDeadline)]

\* A faulty variant: only the nonce protects an admission from replay.
NonceNotReplayed(admission) == admission.nonce \notin usedAdmissionNonces

NotReplayed(admission) ==
  /\ admission.nonce \notin usedAdmissionNonces
  /\ admission.claimId \notin usedClaimIds

ReserveClaim(b, admission) ==
  /\ state[b] = "FUNDED"
  /\ now < PolicyOf[b].submissionDeadline
  /\ now <= admission.validUntil
  /\ NotReplayed(admission)
  /\ usedAdmissionNonces' = usedAdmissionNonces \cup {admission.nonce}
  /\ usedClaimIds' = usedClaimIds \cup {admission.claimId}
  /\ reservation' = [reservation EXCEPT ![b] = ReservationFor(b, admission)]
  /\ state' = [state EXCEPT ![b] = "RESERVED"]
  /\ UNCHANGED <<now, unallocatedReward, claimantCredit, usedCaseNullifiers, moneyVars>>

\* The checks submitAssessment makes before it looks at the outcome.
AssessmentMatches(b, a) ==
  /\ state[b] = "RESERVED"
  /\ now <= reservation[b].expiresAt
  /\ now <= a.validUntil
  /\ a.claimId = reservation[b].claimId
  /\ a.claimant = reservation[b].claimant
  /\ a.assessedAt <= now
  /\ a.assessedAt >= reservation[b].reservedAt
  /\ a.validUntil <= reservation[b].expiresAt
  /\ a.validUntil >= a.assessedAt

\* A faulty variant: the subtraction the other way round.
ReversedLeftover(b, a) == a.reward - unallocatedReward[b]

Leftover(b, a) == unallocatedReward[b] - a.reward

\* Outcome 1: the part of the reward the assessment grants is credited to the
\* claimant and the rest leaves for the refund recipient at once.
Qualify(b, a) ==
  LET leftover == Leftover(b, a) IN
  /\ AssessmentMatches(b, a)
  /\ a.outcome = 1
  /\ a.reward # 0
  /\ a.reward <= unallocatedReward[b]
  /\ a.nullifier \notin usedCaseNullifiers[b]
  /\ usedCaseNullifiers' = [usedCaseNullifiers EXCEPT ![b] = @ \cup {a.nullifier}]
  /\ claimantCredit' = [claimantCredit EXCEPT ![b] = a.reward]
  /\ unallocatedReward' = [unallocatedReward EXCEPT ![b] = 0]
  /\ state' = [state EXCEPT ![b] = "QUALIFIED"]
  /\ PayFromEscrow(leftover)
  /\ returned' = [returned EXCEPT ![b] = @ + leftover]
  /\ UNCHANGED <<now, reservation, usedAdmissionNonces, usedClaimIds, paidOut, donated>>

\* Outcome 2: the slot is free again, the claim identifier stays spent.
Reject(b, a) ==
  /\ AssessmentMatches(b, a)
  /\ a.outcome = 2
  /\ a.reward = 0
  /\ state' = [state EXCEPT ![b] = "FUNDED"]
  /\ reservation' = [reservation EXCEPT ![b] = NoReservation]
  /\ UNCHANGED <<now, unallocatedReward, claimantCredit, replayVars, moneyVars>>

SubmitAssessment(b, a) == Qualify(b, a) \/ Reject(b, a)

\* A faulty variant: a slot that already holds a credit expires too.
ExpireAnyReservation(b) ==
  /\ state[b] \in {"RESERVED", "QUALIFIED"}
  /\ now > reservation[b].expiresAt
  /\ reservation' = [reservation EXCEPT ![b] = NoReservation]
  /\ state' = [state EXCEPT ![b] = "FUNDED"]
  /\ UNCHANGED <<now, unallocatedReward, claimantCredit, replayVars, moneyVars>>

ExpireReservation(b) ==
  /\ state[b] = "RESERVED"
  /\ now > reservation[b].expiresAt
  /\ reservation' = [reservation EXCEPT ![b] = NoReservation]
  /\ state' = [state EXCEPT ![b] = "FUNDED"]
  /\ UNCHANGED <<now, unallocatedReward, claimantCredit, replayVars, moneyVars>>

\* A faulty variant: the credit survives its payment.
CollectKeepingCredit(b) ==
  /\ state[b] = "QUALIFIED"
  /\ state' = [state EXCEPT ![b] = "PAID"]
  /\ PayFromEscrow(claimantCredit[b])
  /\ paidOut' = [paidOut EXCEPT ![b] = @ + claimantCredit[b]]
  /\ UNCHANGED <<now, reservation, unallocatedReward, claimantCredit, replayVars, returned, donated>>

CollectPayment(b) ==
  /\ state[b] = "QUALIFIED"
  /\ claimantCredit' = [claimantCredit EXCEPT ![b] = 0]
  /\ state' = [state EXCEPT ![b] = "PAID"]
  /\ PayFromEscrow(claimantCredit[b])
  /\ paidOut' = [paidOut EXCEPT ![b] = @ + claimantCredit[b]]
  /\ UNCHANGED <<now, reservation, unallocatedReward, replayVars, returned, donated>>

\* A reservation that is still held is expired first, inside the same call,
\* which reverts if that reservation has not expired.
RefundExpired(b) ==
  /\ now > PolicyOf[b].settlementDeadline
  /\ \/ state[b] = "FUNDED" /\ UNCHANGED reservation
     \/ /\ state[b] = "RESERVED"
        /\ now > reservation[b].expiresAt
        /\ reservation' = [reservation EXCEPT ![b] = NoReservation]
  /\ unallocatedReward' = [unallocatedReward EXCEPT ![b] = 0]
  /\ state' = [state EXCEPT ![b] = "REFUNDED"]
  /\ PayFromEscrow(unallocatedReward[b])
  /\ returned' = [returned EXCEPT ![b] = @ + unallocatedReward[b]]
  /\ UNCHANGED <<now, claimantCredit, replayVars, paidOut, donated>>

\* Anybody may transfer the asset to the escrow's address directly.
Donate ==
  /\ donated < MaxDonation
  /\ donated' = donated + 1
  /\ escrowBalance' = escrowBalance + 1
  /\ UNCHANGED <<now, bountyVars, replayVars, totalLiability, paidOut, returned>>

Tick ==
  /\ now < MaxTime
  /\ now' = now + 1
  /\ UNCHANGED <<bountyVars, replayVars, moneyVars>>

BountyStep(b) ==
  \/ \E received \in 0 .. PolicyOf[b].reward : CreateAndFund(b, received)
  \/ \E admission \in Admissions : ReserveClaim(b, admission)
  \/ state[b] = "RESERVED" /\ \E a \in Assessments(b) : SubmitAssessment(b, a)
  \/ ExpireReservation(b)
  \/ CollectPayment(b)
  \/ RefundExpired(b)

Next == (\E b \in Bounty : BountyStep(b)) \/ Donate \/ Tick

Spec == Init /\ [][Next]_vars

-----------------------------------------------------------------------------
\* Every variable of the contract keeps its type; amounts never go below zero.
TypeOK ==
  /\ now \in Time
  /\ state \in [Bounty -> State]
  /\ reservation \in [Bounty -> Reservations \cup {NoReservation}]
  /\ unallocatedReward \in [Bounty -> Nat]
  /\ claimantCredit \in [Bounty -> Nat]
  /\ usedAdmissionNonces \subseteq Nonce
  /\ usedClaimIds \subseteq Claim
  /\ usedCaseNullifiers \in [Bounty -> SUBSET Nullifier]
  /\ totalLiability \in Nat
  /\ escrowBalance \in Nat
  /\ paidOut \in [Bounty -> Nat]
  /\ returned \in [Bounty -> Nat]
  /\ donated \in Nat

Outstanding(b) == unallocatedReward[b] + claimantCredit[b]

\* totalLiability, a counter three calls subtract from, is exactly the sum over
\* all bounties of what they still owe.
LiabilityIsOutstanding ==
  AddsUp(NumBounties, [b \in Bounty |-> Outstanding(b)], totalLiability)

\* The asset the escrow holds is its liability and what was given to it; no
\* bounty is ever paid with another bounty's reward (the FundingMismatch check
\* of createAndFund, against tokens that deliver less than they were asked to).
BalanceCoversLiability == escrowBalance = totalLiability + donated

\* Where each bounty's reward is, by state: a reward is split between claimant
\* and refund recipient at most once, and no part of it is lost or paid twice.
RewardConserved ==
  \A b \in Bounty :
    LET reward == PolicyOf[b].reward
        where == <<unallocatedReward[b], claimantCredit[b], paidOut[b], returned[b]>>
    IN  /\ state[b] = "NONE" => where = <<0, 0, 0, 0>>
        /\ state[b] \in {"FUNDED", "RESERVED"} => where = <<reward, 0, 0, 0>>
        /\ state[b] = "QUALIFIED" =>
             /\ unallocatedReward[b] = 0 /\ paidOut[b] = 0
             /\ claimantCredit[b] > 0 /\ claimantCredit[b] + returned[b] = reward
        /\ state[b] = "PAID" =>
             /\ unallocatedReward[b] = 0 /\ claimantCredit[b] = 0
             /\ paidOut[b] > 0 /\ paidOut[b] + returned[b] = reward
        /\ state[b] = "REFUNDED" => where = <<0, 0, 0, reward>>

\* No call the state machine permits can revert for want of cover: whatever
\* the order of deposits, credits and refunds of the other bounties, the
\* checked subtraction and the transfer of collectPayment, refundExpired and a
\* capped submitAssessment always go through.
PayoutNeverBlocked ==
  \A b \in Bounty :
    /\ Outstanding(b) <= totalLiability
    /\ Outstanding(b) <= escrowBalance

\* A claimant always gets the full reservation the policy names: the cap at the
\* settlement deadline never shortens it, because createAndFund refused the
\* policies it could shorten.  A refund due after the settlement deadline is
\* therefore never held up by a reservation that is still running.
ReservationWindow ==
  \A b \in Bounty :
    state[b] = "RESERVED" =>
      /\ reservation[b].expiresAt = reservation[b].reservedAt + PolicyOf[b].duration
      /\ reservation[b].expiresAt <= PolicyOf[b].settlementDeadline
      /\ reservation[b].reservedAt <= now

HeldBy(b, c) == reservation[b] # NoReservation /\ reservation[b].claimId = c

\* A claim identifier gets one reservation in its life, on one bounty: not after
\* a rejection, an expiry or a payment, and not with a fresh nonce, a fresh
\* signature or a later deadline.
SpentClaimNeverReturns ==
  [][\A b \in Bounty, c \in Claim :
       c \in usedClaimIds /\ ~ HeldBy(b, c) => ~ HeldBy(b, c)']_vars

\* A credit is final.  From the moment a claim qualifies, its claimant and
\* amount never change, and the only thing that can still happen to the bounty
\* is that this claimant is paid this amount.
CreditIsFinal ==
  [][\A b \in Bounty :
       /\ state[b] = "QUALIFIED" =>
            /\ reservation'[b] = reservation[b]
            /\ state'[b] \in {"QUALIFIED", "PAID"}
            /\ claimantCredit'[b] + paidOut'[b] = claimantCredit[b] + paidOut[b]
       /\ state[b] \in {"PAID", "REFUNDED"} =>
            /\ state'[b] = state[b] /\ reservation'[b] = reservation[b]
            /\ paidOut'[b] = paidOut[b] /\ returned'[b] = returned[b]]_vars

Ledger == INSTANCE RewardLedger WITH
            RewardOf <- [b \in Bounty |-> PolicyOf[b].reward],
            held     <- unallocatedReward,
            promised <- claimantCredit,
            paid     <- paidOut

\* Signatures, reservations and deadlines only decide when: towards the money
\* of a bounty the contract does what RewardLedger promises and nothing else.
ImplementsRewardLedger == Ledger!LedgerSpec

Slot(b) == INSTANCE BountySlot WITH
             Reward <- PolicyOf[b].reward, Duration <- PolicyOf[b].duration,
             SubmissionDeadline <- PolicyOf[b].submissionDeadline,
             SettlementDeadline <- PolicyOf[b].settlementDeadline,
             phase     <- state[b],
             holder    <- {c \in Claim : HeldBy(b, c)},
             expiresAt <- IF reservation[b] = NoReservation THEN 0 ELSE reservation[b].expiresAt,
             spent     <- usedClaimIds,
             granted   <- claimantCredit[b] + paidOut[b]

\* Signatures, money and the other bounties only decide who calls what when: to
\* whoever follows one bounty, the contract does what BountySlot promises.
ImplementsBountySlot == \A b \in Bounty : Slot(b)!SlotSpec
=============================================================================
