----------------------- MODULE FundingBudgetController -----------------------
(***************************************************************************)
(* contracts/src/FundingBudgetController.sol: an organization's budget.    *)
(* Its owner approves policies, sets limits, switches it on and off and    *)
(* withdraws; its operator funds approved policies in the escrow.          *)
(*                                                                         *)
(* The escrow is the abstract RewardLedger, which BountyEscrow implements: *)
(* here any bounty may be funded by anybody, and the escrow may settle or  *)
(* refund it at any time.  A bounty is named by the hash of its policy.    *)
(***************************************************************************)
EXTENDS RewardLedger, RunningTotals

CONSTANTS
  NumBounties,      \* Bounty is 1 .. NumBounties
  Ours,             \* policies of this organization, asset, escrow and chain
  RefundsHere,      \* policies whose refundRecipient is this controller
  LimitChoices,     \* limits the owner may try to set
  ApprovalChoices,  \* rewards and expiries the owner may try to approve
  MinInterval,      \* 60 seconds in the code
  DaySeconds,       \* 86400 in the code
  MaxTime,          \* bound on block.timestamp
  MaxTopUp          \* bound up to which asset is transferred to the controller

Time == 1 .. MaxTime
DayBucket(t) == t \div DaySeconds
Day == {DayBucket(t) : t \in Time}

Limits == [perAction : Nat, daily : Nat, interval : Nat]

Approvals == [reward : Nat, expiresAt : Nat, consumed : BOOLEAN]

ASSUME ControllerAssumption ==
  /\ NumBounties \in Nat
  /\ Bounty = 1 .. NumBounties
  /\ RewardOf \in [Bounty -> Nat]
  /\ Ours \subseteq Bounty /\ RefundsHere \subseteq Bounty
  /\ LimitChoices \subseteq Limits
  /\ ApprovalChoices \subseteq [reward : Nat, expiresAt : Nat]
  /\ MinInterval \in Nat /\ DaySeconds \in Nat \ {0}
  /\ MaxTime \in Nat \ {0} /\ MaxTopUp \in Nat

VARIABLES
  now,                 \* block.timestamp
  enabled,
  limits,              \* perActionLimit, dailyLimit, minimumInterval
  lastAllocation,      \* 0 before the first one
  spentPerDay,
  approvals,           \* reward, expiresAt, consumed of each policy
  budget,              \* asset.balanceOf(address(this))
  contributed,         \* history: what was put in (top-ups, and refunds of bounties
                       \* that others funded), less what the owner withdrew
  allocatedAt,         \* history: when BudgetAllocated was emitted, 0 if never
  largestDaily         \* history: the largest dailyLimit there has been

settingVars == <<enabled, limits, largestDaily>>
spendVars   == <<lastAllocation, spentPerDay, approvals, allocatedAt>>
assetVars   == <<budget, contributed>>
vars == <<now, settingVars, spendVars, assetVars, ledgerVars>>

NoApproval == [reward |-> 0, expiresAt |-> 0, consumed |-> FALSE]

Init ==
  /\ now = 1
  /\ enabled = FALSE
  /\ limits = [perAction |-> 0, daily |-> 0, interval |-> 0]
  /\ lastAllocation = 0
  /\ spentPerDay = [d \in Day |-> 0]
  /\ approvals = [b \in Bounty |-> NoApproval]
  /\ budget = 0 /\ contributed = 0
  /\ allocatedAt = [b \in Bounty |-> 0]
  /\ largestDaily = 0
  /\ LedgerInit

Allocated(b) == allocatedAt[b] # 0

-----------------------------------------------------------------------------
(* The owner.                                                              *)

\* A faulty variant: a policy can be approved again after it was funded.
ApproveAgain(b, a) == a.reward # 0 /\ a.expiresAt > now

MayApprove(b, a) == a.reward # 0 /\ a.expiresAt > now /\ ~ approvals[b].consumed

\* The owner may name any reward; only the policy's own can be funded.
ApprovePolicy(b, a) ==
  /\ MayApprove(b, a)
  /\ approvals' = [approvals EXCEPT ![b] =
                     [reward |-> a.reward, expiresAt |-> a.expiresAt, consumed |-> FALSE]]
  /\ UNCHANGED <<now, settingVars, lastAllocation, spentPerDay, allocatedAt,
                 assetVars, ledgerVars>>

\* A faulty variant: any interval is accepted.
AnyInterval(l) == l.perAction # 0 /\ l.daily >= l.perAction

ValidLimits(l) == l.perAction # 0 /\ l.daily >= l.perAction /\ l.interval >= MinInterval

SetLimits(l) ==
  /\ ValidLimits(l)
  /\ limits' = l
  /\ largestDaily' = IF l.daily > largestDaily THEN l.daily ELSE largestDaily
  /\ UNCHANGED <<now, enabled, spendVars, assetVars, ledgerVars>>

SetEnabled(value) ==
  /\ value => limits.perAction # 0
  /\ enabled' = value
  /\ UNCHANGED <<now, limits, largestDaily, spendVars, assetVars, ledgerVars>>

\* A faulty variant: the transfer is not checked against the balance.
Unchecked(amount) == amount <= MaxTopUp

Covered(amount) == amount <= budget

WithdrawUnallocated(amount) ==
  /\ Covered(amount)
  /\ budget' = budget - amount
  /\ contributed' = contributed - amount
  /\ UNCHANGED <<now, settingVars, spendVars, ledgerVars>>

-----------------------------------------------------------------------------
(* The operator.                                                           *)

\* A faulty variant: the refund recipient of the policy is not checked.
ApprovedWhereverRefunded(b) ==
  /\ b \in Ours
  /\ approvals[b].reward # 0 /\ ~ approvals[b].consumed
  /\ approvals[b].expiresAt > now
  /\ RewardOf[b] = approvals[b].reward

PolicyApproved(b) ==
  /\ b \in Ours /\ b \in RefundsHere
  /\ approvals[b].reward # 0 /\ ~ approvals[b].consumed
  /\ approvals[b].expiresAt > now
  /\ RewardOf[b] = approvals[b].reward

\* A faulty variant: the day's budget only has to be left before the action.
WithinLimitsBefore(b) ==
  /\ RewardOf[b] <= limits.perAction
  /\ spentPerDay[DayBucket(now)] < limits.daily
  /\ lastAllocation # 0 => now >= lastAllocation + limits.interval

WithinLimits(b) ==
  /\ RewardOf[b] <= limits.perAction
  /\ spentPerDay[DayBucket(now)] + RewardOf[b] <= limits.daily
  /\ lastAllocation # 0 => now >= lastAllocation + limits.interval

\* createAndFund, called from here, takes the reward from this contract.
FundApprovedPolicy(b) ==
  /\ enabled
  /\ PolicyApproved(b)
  /\ WithinLimits(b)
  /\ Covered(RewardOf[b])
  /\ Deposit(b)
  /\ approvals' = [approvals EXCEPT ![b].consumed = TRUE]
  /\ spentPerDay' = [spentPerDay EXCEPT ![DayBucket(now)] = @ + RewardOf[b]]
  /\ lastAllocation' = now
  /\ allocatedAt' = [allocatedAt EXCEPT ![b] = now]
  /\ budget' = budget - RewardOf[b]
  /\ UNCHANGED <<now, settingVars, contributed>>

-----------------------------------------------------------------------------
(* Everybody else.                                                         *)

\* Anybody may fund any policy in the escrow directly, this controller's too.
FundByOther(b) ==
  /\ Deposit(b)
  /\ UNCHANGED <<now, settingVars, spendVars, assetVars>>

\* What the escrow sends back reaches the policy's refund recipient.
Settle(b) ==
  LET amount == IF b \in RefundsHere THEN returned'[b] - returned[b] ELSE 0 IN
  /\ Promise(b) \/ Pay(b) \/ Return(b)
  /\ budget' = budget + amount
  /\ contributed' = contributed + (IF Allocated(b) THEN 0 ELSE amount)
  /\ UNCHANGED <<now, settingVars, spendVars>>

TopUp ==
  /\ contributed < MaxTopUp
  /\ contributed' = contributed + 1
  /\ budget' = budget + 1
  /\ UNCHANGED <<now, settingVars, spendVars, ledgerVars>>

Tick ==
  /\ now < MaxTime
  /\ now' = now + 1
  /\ UNCHANGED <<settingVars, spendVars, assetVars, ledgerVars>>

Next ==
  \/ \E b \in Bounty :
       \/ \E a \in ApprovalChoices : ApprovePolicy(b, a)
       \/ FundApprovedPolicy(b)
       \/ FundByOther(b)
       \/ Settle(b)
  \/ \E l \in LimitChoices : SetLimits(l)
  \/ \E value \in BOOLEAN : SetEnabled(value)
  \/ \E amount \in 1 .. MaxTopUp : WithdrawUnallocated(amount)
  \/ TopUp
  \/ Tick

Spec == Init /\ [][Next]_vars

-----------------------------------------------------------------------------
\* Every variable keeps its type; the balance never goes below zero.
TypeOK ==
  /\ now \in Time
  /\ enabled \in BOOLEAN
  /\ limits \in Limits
  /\ lastAllocation \in {0} \cup Time
  /\ spentPerDay \in [Day -> Nat]
  /\ approvals \in [Bounty -> Approvals]
  /\ budget \in Nat /\ contributed \in Nat
  /\ allocatedAt \in [Bounty -> {0} \cup Time]
  /\ largestDaily \in Nat
  /\ held \in [Bounty -> Nat] /\ promised \in [Bounty -> Nat]
  /\ paid \in [Bounty -> Nat] /\ returned \in [Bounty -> Nat]

\* The part of the budget that is in the escrow for b, or reached a claimant.
Invested(b) == IF Allocated(b) THEN held[b] + promised[b] + paid[b] ELSE 0

\* Whatever was put in and not withdrawn is still here, is in the escrow for a
\* bounty this controller funded, or has been paid to that bounty's claimant:
\* every leftover and every refund finds its way back (the refundRecipient
\* check of fundApprovedPolicy).
BudgetConserved ==
  AddsUp(NumBounties, [b \in Bounty |-> Invested(b)], contributed - budget)

SpentOn(d) ==
  [b \in Bounty |-> IF Allocated(b) /\ DayBucket(allocatedAt[b]) = d THEN RewardOf[b] ELSE 0]

\* A day's counter is the sum of the rewards allocated on that day, in whatever
\* order allocations and changes of the limits came, and the day never exceeds
\* the largest daily limit the owner ever set.
DaysAddUp ==
  \A d \in Day :
    /\ AddsUp(NumBounties, SpentOn(d), spentPerDay[d])
    /\ spentPerDay[d] <= largestDaily

\* Two allocations are never closer than the 60 seconds below which no owner can
\* set the interval: not across midnight, not after switching the controller
\* off and on, and not after new limits.
AllocationsAreSpaced ==
  \A b, c \in Bounty :
    b # c /\ Allocated(b) /\ Allocated(c) =>
      \/ allocatedAt[b] >= allocatedAt[c] + MinInterval
      \/ allocatedAt[c] >= allocatedAt[b] + MinInterval

\* The approval of a policy this controller funded is for ever the evidence of
\* it: it names the reward that was spent, had not expired then, and can
\* neither be replaced nor used again; a policy somebody else funded leaves
\* the budget and its approval alone.
ApprovalIsEvidence ==
  \A b \in Bounty :
    /\ approvals[b].consumed <=> Allocated(b)
    /\ Allocated(b) =>
         /\ approvals[b].reward = RewardOf[b]
         /\ allocatedAt[b] < approvals[b].expiresAt
         /\ held[b] + promised[b] + paid[b] + returned[b] = RewardOf[b]
=============================================================================
