-------------------- MODULE FundingBudgetControllerProofs --------------------
(***************************************************************************)
(* Proofs about FundingBudgetController, for every set of policies, every  *)
(* choice of limits and approvals and any length of day.                   *)
(***************************************************************************)
EXTENDS FundingBudgetController, RunningTotalsProofs

Investment == [b \in Bounty |-> Invested(b)]

\* A controller that is switched on has limits, and they are lawful.
LimitsInForce ==
  /\ enabled => limits.perAction # 0
  /\ limits.perAction # 0 => limits.interval >= MinInterval
  /\ limits.daily <= largestDaily

LastIsLatest ==
  /\ lastAllocation <= now
  /\ \A b \in Bounty : allocatedAt[b] <= lastAllocation

\* A reward is in one place, or split by one promise.
LedgerShape ==
  \A b \in Bounty :
    /\ held[b] > 0 => promised[b] = 0 /\ paid[b] = 0 /\ returned[b] = 0
    /\ promised[b] > 0 => held[b] = 0 /\ paid[b] = 0

\* What fundApprovedPolicy checked of a policy it funded.
Checked ==
  \A b \in Bounty : Allocated(b) => b \in RefundsHere /\ RewardOf[b] > 0

BudgetTotals == \E sum : Totals(NumBounties, sum, Investment, contributed - budget)

DayTotals ==
  \A d \in Day :
    /\ \E sum : Totals(NumBounties, sum, SpentOn(d), spentPerDay[d])
    /\ spentPerDay[d] <= largestDaily

IInv ==
  /\ TypeOK
  /\ LimitsInForce
  /\ LastIsLatest
  /\ LedgerShape
  /\ Checked
  /\ ApprovalIsEvidence
  /\ AllocationsAreSpaced
  /\ budget <= contributed
  /\ BudgetTotals
  /\ DayTotals

-----------------------------------------------------------------------------
(***************************************************************************)
(* Sums.                                                                   *)
(***************************************************************************)
LEMMA BountyNumbers ==
  /\ NumBounties \in Nat /\ Bounty = 1 .. NumBounties
  /\ \A b \in Bounty : RewardOf[b] \in Nat
BY ControllerAssumption

LEMMA InvestmentType == TypeOK => Investment \in [Bounty -> Nat]
BY DEF TypeOK, Investment, Invested

LEMMA SpentType == \A d : SpentOn(d) \in [Bounty -> Nat]
BY BountyNumbers DEF SpentOn

LEMMA InvestmentUpdate ==
  ASSUME NEW b \in Bounty, NEW v, Invested(b)' = v,
         \A x \in Bounty \ {b} : Invested(x)' = Invested(x)
  PROVE  Investment' = [Investment EXCEPT ![b] = v]
BY DEF Investment

\* A step that changes what is invested in one bounty, and what was put into the
\* controller or is left in it by as much, keeps the totals.
LEMMA BudgetStep ==
  ASSUME TypeOK, BudgetTotals, budget <= contributed,
         NEW b \in Bounty, NEW v \in Nat,
         Investment' = [Investment EXCEPT ![b] = v],
         budget' \in Nat, contributed' \in Nat,
         contributed' - budget' = contributed - budget - Invested(b) + v
  PROVE  BudgetTotals' /\ budget' <= contributed'
<1>1. /\ Investment \in [Bounty -> Nat] /\ budget \in Nat /\ contributed \in Nat
      /\ Investment[b] = Invested(b) /\ Investment[b] \in Nat
  BY InvestmentType DEF TypeOK, Investment
<1>2. contributed - budget \in Nat
  BY <1>1
<1>3. PICK sum : Totals(NumBounties, sum, Investment, contributed - budget)
  BY DEF BudgetTotals
<1>4. /\ contributed - budget - Investment[b] + v \in Nat
      /\ \E s : Totals(NumBounties, s, [Investment EXCEPT ![b] = v],
                       contributed - budget - Investment[b] + v)
  BY <1>1, <1>2, <1>3, TotalsUpdate, BountyNumbers
<1>5. /\ contributed' - budget' \in Nat
      /\ \E s : Totals(NumBounties, s, Investment', contributed' - budget')
  BY <1>1, <1>4
<1>6. budget' <= contributed'
  <2>1. ASSUME NEW x \in Nat, NEW y \in Nat, x - y \in Nat PROVE y <= x
    BY <2>1
  <2>2. QED BY <1>5, <2>1
<1>7. QED BY <1>5, <1>6 DEF BudgetTotals, Totals

\* What settings, withdrawals, top-ups and the clock have in common.
LEMMA AllocationsUntouched ==
  ASSUME IInv, UNCHANGED <<lastAllocation, spentPerDay, allocatedAt>>,
         now' \in Time, now <= now', largestDaily' \in Nat, largestDaily <= largestDaily'
  PROVE  LastIsLatest' /\ AllocationsAreSpaced' /\ DayTotals'
<1>1. LastIsLatest'
  BY DEF IInv, LastIsLatest, TypeOK, Time
<1>2. AllocationsAreSpaced'
  BY DEF IInv, AllocationsAreSpaced, Allocated
<1>3. ASSUME NEW d \in Day PROVE /\ \E sum : Totals(NumBounties, sum, SpentOn(d)', spentPerDay'[d])
                                 /\ spentPerDay'[d] <= largestDaily'
  <2>1. SpentOn(d)' = SpentOn(d)
    BY DEF SpentOn, Allocated
  <2>2. PICK sum : Totals(NumBounties, sum, SpentOn(d), spentPerDay[d])
    BY <1>3 DEF IInv, DayTotals
  <2>3. spentPerDay[d] \in Nat /\ spentPerDay[d] <= largestDaily /\ largestDaily \in Nat
    BY <1>3 DEF IInv, TypeOK, DayTotals
  <2>4. QED BY <2>1, <2>2, <2>3
<1>4. DayTotals'
  BY <1>3 DEF DayTotals, Totals
<1>5. QED BY <1>1, <1>2, <1>4

\* Steps of the owner that leave money and allocations alone.
LEMMA MoneyUntouched ==
  ASSUME IInv, UNCHANGED <<allocatedAt, budget, contributed, ledgerVars>>
  PROVE  BudgetTotals' /\ budget' <= contributed' /\ LedgerShape' /\ Checked'
<1>1. Investment' = Investment
  BY DEF Investment, Invested, Allocated, ledgerVars
<1>2. BudgetTotals'
  BY <1>1 DEF IInv, BudgetTotals, Totals
<1>3. LedgerShape' /\ Checked' /\ budget' <= contributed'
  BY DEF IInv, LedgerShape, Checked, Allocated, ledgerVars
<1>4. QED BY <1>2, <1>3

-----------------------------------------------------------------------------
(***************************************************************************)
(* The owner's steps, top-ups and the clock.                               *)
(***************************************************************************)
LEMMA ApprovePolicyKeepsIInv ==
  ASSUME IInv, NEW b \in Bounty, NEW a \in ApprovalChoices, ApprovePolicy(b, a)
  PROVE  IInv'
<1> USE DEF ApprovePolicy, MayApprove, settingVars, assetVars
<1>1. a.reward \in Nat /\ a.expiresAt \in Nat
  BY ControllerAssumption
<1>2. TypeOK'
  BY <1>1 DEF IInv, TypeOK, Approvals, ledgerVars
<1>3. LimitsInForce'
  BY DEF IInv, LimitsInForce
<1>4. LastIsLatest' /\ AllocationsAreSpaced' /\ DayTotals'
  <2>1. now' \in Time /\ now <= now' /\ largestDaily' \in Nat /\ largestDaily <= largestDaily'
    BY DEF IInv, TypeOK, Time
  <2>2. QED BY <2>1, AllocationsUntouched
<1>5. BudgetTotals' /\ budget' <= contributed' /\ LedgerShape' /\ Checked'
  BY MoneyUntouched
<1>6. ApprovalIsEvidence'
  BY DEF IInv, TypeOK, Approvals, ApprovalIsEvidence, Allocated, ledgerVars
<1>7. QED BY <1>2, <1>3, <1>4, <1>5, <1>6 DEF IInv

\* Every step that touches no approval, allocation or bounty.
LEMMA EvidenceUntouched ==
  ASSUME IInv, UNCHANGED <<approvals, allocatedAt, ledgerVars>>
  PROVE  ApprovalIsEvidence'
BY DEF IInv, ApprovalIsEvidence, Allocated, ledgerVars

LEMMA SettingsKeepIInv ==
  ASSUME IInv,
         \/ \E l \in LimitChoices : SetLimits(l)
         \/ \E value \in BOOLEAN : SetEnabled(value)
  PROVE  IInv'
<1> USE DEF spendVars, assetVars
<1>1. ASSUME NEW l \in LimitChoices, SetLimits(l)
      PROVE  TypeOK' /\ LimitsInForce' /\ largestDaily' \in Nat /\ largestDaily <= largestDaily'
  <2>1. l \in Limits /\ l.perAction \in Nat /\ l.daily \in Nat /\ l.interval \in Nat
    BY ControllerAssumption DEF Limits
  <2>2. largestDaily \in Nat /\ MinInterval \in Nat
    BY ControllerAssumption DEF IInv, TypeOK
  <2>3. largestDaily' \in Nat /\ largestDaily <= largestDaily' /\ l.daily <= largestDaily'
    BY <1>1, <2>1, <2>2 DEF SetLimits
  <2>4. TypeOK'
    BY <1>1, <2>1, <2>3 DEF SetLimits, IInv, TypeOK, ledgerVars
  <2>5. LimitsInForce'
    BY <1>1, <2>1, <2>3 DEF SetLimits, ValidLimits, LimitsInForce
  <2>6. QED BY <2>3, <2>4, <2>5
<1>2. ASSUME NEW value \in BOOLEAN, SetEnabled(value)
      PROVE  TypeOK' /\ LimitsInForce' /\ largestDaily' \in Nat /\ largestDaily <= largestDaily'
  <2>1. TypeOK'
    BY <1>2 DEF SetEnabled, IInv, TypeOK, ledgerVars
  <2>2. LimitsInForce'
    BY <1>2 DEF SetEnabled, IInv, LimitsInForce
  <2>3. QED BY <1>2, <2>1, <2>2 DEF SetEnabled, IInv, TypeOK
<1>3. TypeOK' /\ LimitsInForce' /\ largestDaily' \in Nat /\ largestDaily <= largestDaily'
  BY <1>1, <1>2
<1>4. UNCHANGED <<now, spendVars, assetVars, ledgerVars>>
  BY DEF SetLimits, SetEnabled
<1>5. now' \in Time /\ now <= now'
  BY <1>4 DEF IInv, TypeOK, Time
<1>6. LastIsLatest' /\ AllocationsAreSpaced' /\ DayTotals'
  BY <1>3, <1>4, <1>5, AllocationsUntouched
<1>7. BudgetTotals' /\ budget' <= contributed' /\ LedgerShape' /\ Checked'
  BY <1>4, MoneyUntouched
<1>8. ApprovalIsEvidence'
  BY <1>4, EvidenceUntouched
<1>9. QED BY <1>3, <1>6, <1>7, <1>8 DEF IInv

LEMMA TransfersKeepIInv ==
  ASSUME IInv,
         TopUp \/ \E amount \in 1 .. MaxTopUp : WithdrawUnallocated(amount)
  PROVE  IInv'
<1> USE DEF spendVars, settingVars
<1>1. budget \in Nat /\ contributed \in Nat /\ budget <= contributed
  BY DEF IInv, TypeOK
<1>2. /\ budget' \in Nat /\ contributed' \in Nat
      /\ contributed' - budget' = contributed - budget /\ budget' <= contributed'
  BY <1>1, ControllerAssumption DEF TopUp, WithdrawUnallocated, Covered
<1>3. UNCHANGED <<now, settingVars, spendVars, ledgerVars>>
  BY DEF TopUp, WithdrawUnallocated
<1>4. TypeOK'
  BY <1>2, <1>3 DEF IInv, TypeOK, ledgerVars
<1>5. LimitsInForce' /\ LedgerShape' /\ Checked'
  BY <1>3 DEF IInv, LimitsInForce, LedgerShape, Checked, Allocated, ledgerVars
<1>6. BudgetTotals'
  <2>1. Investment' = Investment
    BY <1>3 DEF Investment, Invested, Allocated, ledgerVars
  <2>2. QED BY <2>1, <1>2 DEF IInv, BudgetTotals, Totals
<1>7. LastIsLatest' /\ AllocationsAreSpaced' /\ DayTotals'
  <2>1. now' \in Time /\ now <= now' /\ largestDaily' \in Nat /\ largestDaily <= largestDaily'
    BY <1>3 DEF IInv, TypeOK, Time
  <2>2. QED BY <2>1, <1>3, AllocationsUntouched
<1>8. ApprovalIsEvidence'
  BY <1>3, EvidenceUntouched
<1>9. QED BY <1>2, <1>4, <1>5, <1>6, <1>7, <1>8 DEF IInv

LEMMA ClockKeepsIInv ==
  ASSUME IInv, Tick \/ UNCHANGED vars
  PROVE  IInv'
<1> USE DEF spendVars, settingVars, assetVars, vars
<1>1. now \in Time /\ now' \in Time /\ now <= now'
  BY ControllerAssumption DEF Tick, IInv, TypeOK, Time
<1>2. UNCHANGED <<settingVars, spendVars, assetVars, ledgerVars>>
  BY DEF Tick
<1>3. TypeOK'
  BY <1>1, <1>2 DEF IInv, TypeOK, ledgerVars
<1>4. LimitsInForce'
  BY <1>2 DEF IInv, LimitsInForce
<1>5. LastIsLatest' /\ AllocationsAreSpaced' /\ DayTotals'
  <2>1. largestDaily' \in Nat /\ largestDaily <= largestDaily'
    BY <1>2 DEF IInv, TypeOK
  <2>2. QED BY <2>1, <1>1, <1>2, AllocationsUntouched
<1>6. BudgetTotals' /\ budget' <= contributed' /\ LedgerShape' /\ Checked'
  BY <1>2, MoneyUntouched
<1>7. ApprovalIsEvidence'
  BY <1>2, EvidenceUntouched
<1>8. QED BY <1>3, <1>4, <1>5, <1>6, <1>7 DEF IInv
-----------------------------------------------------------------------------
(***************************************************************************)
(* Steps of the escrow.                                                    *)
(***************************************************************************)
OthersAlone(b) ==
  \A x \in Bounty \ {b} : /\ held'[x] = held[x] /\ promised'[x] = promised[x]
                           /\ paid'[x] = paid[x] /\ returned'[x] = returned[x]

LedgerType ==
  /\ held \in [Bounty -> Nat] /\ promised \in [Bounty -> Nat]
  /\ paid \in [Bounty -> Nat] /\ returned \in [Bounty -> Nat]

LEMMA DepositShape ==
  ASSUME LedgerType, LedgerShape, NEW b \in Bounty, Deposit(b)
  PROVE  /\ LedgerType' /\ LedgerShape' /\ OthersAlone(b)
         /\ held[b] + promised[b] + paid[b] + returned[b] = 0
         /\ held'[b] + promised'[b] + paid'[b] = RewardOf[b]
         /\ returned'[b] = 0
<1> USE DEF Deposit, Untouched, LedgerType
<1>1. RewardOf[b] \in Nat
  BY BountyNumbers
<1>2. /\ held' = [held EXCEPT ![b] = RewardOf[b]]
      /\ UNCHANGED <<promised, paid, returned>>
      /\ held[b] = 0 /\ promised[b] = 0 /\ paid[b] = 0 /\ returned[b] = 0
  OBVIOUS
<1>3. LedgerType' /\ OthersAlone(b) /\ held'[b] = RewardOf[b]
  BY <1>1, <1>2 DEF OthersAlone
<1>4. LedgerShape'
  BY <1>2, <1>3 DEF LedgerShape, OthersAlone
<1>5. QED BY <1>1, <1>2, <1>3, <1>4

\* What the escrow settles, it moves; it neither makes nor loses any of it.
LEMMA SettleShape ==
  ASSUME LedgerType, LedgerShape, NEW b \in Bounty, Promise(b) \/ Pay(b) \/ Return(b)
  PROVE  /\ LedgerType' /\ LedgerShape' /\ OthersAlone(b)
         /\ held'[b] + promised'[b] + paid'[b] + returned'[b]
              = held[b] + promised[b] + paid[b] + returned[b]
         /\ returned'[b] >= returned[b]
<1>1. /\ held[b] \in Nat /\ promised[b] \in Nat /\ paid[b] \in Nat /\ returned[b] \in Nat
      /\ held[b] > 0 => promised[b] = 0 /\ paid[b] = 0 /\ returned[b] = 0
      /\ promised[b] > 0 => held[b] = 0 /\ paid[b] = 0
  BY DEF LedgerType, LedgerShape
<1>2. CASE Promise(b)
  <2>1. PICK amount \in 1 .. held[b] :
          /\ held'     = [held EXCEPT ![b] = 0]
          /\ promised' = [promised EXCEPT ![b] = amount]
          /\ returned' = [returned EXCEPT ![b] = held[b] - amount]
          /\ UNCHANGED paid
    BY <1>2 DEF Promise
  <2>2. /\ held'[b] = 0 /\ promised'[b] = amount /\ returned'[b] = held[b] - amount
        /\ paid'[b] = paid[b] /\ amount \in Nat /\ held[b] - amount \in Nat /\ held[b] > 0
    BY <1>1, <2>1 DEF LedgerType
  <2>3. LedgerType' /\ OthersAlone(b)
    BY <2>1, <2>2 DEF LedgerType, OthersAlone
  <2>4. LedgerShape'
    BY <1>1, <2>2, <2>3 DEF LedgerShape, OthersAlone
  <2>5. QED BY <1>1, <2>2, <2>3, <2>4
<1>3. CASE Pay(b)
  <2>1. /\ held'[b] = held[b] /\ promised'[b] = 0 /\ paid'[b] = promised[b]
        /\ returned'[b] = returned[b] /\ promised[b] > 0
    BY <1>3 DEF Pay, LedgerType
  <2>2. LedgerType' /\ OthersAlone(b)
    BY <1>1, <1>3 DEF Pay, LedgerType, OthersAlone
  <2>3. LedgerShape'
    BY <1>1, <2>1, <2>2 DEF LedgerShape, OthersAlone
  <2>4. QED BY <1>1, <2>1, <2>2, <2>3
<1>4. CASE Return(b)
  <2>1. /\ held'[b] = 0 /\ promised'[b] = promised[b] /\ paid'[b] = paid[b]
        /\ returned'[b] = held[b] /\ held[b] > 0
    BY <1>4 DEF Return, LedgerType
  <2>2. LedgerType' /\ OthersAlone(b)
    BY <1>1, <1>4 DEF Return, LedgerType, OthersAlone
  <2>3. LedgerShape'
    BY <1>1, <2>1, <2>2 DEF LedgerShape, OthersAlone
  <2>4. QED BY <1>1, <2>1, <2>2, <2>3
<1>5. QED BY <1>2, <1>3, <1>4

LEMMA SettleKeepsIInv ==
  ASSUME IInv, NEW b \in Bounty, Settle(b)
  PROVE  IInv'
<1> DEFINE amount == IF b \in RefundsHere THEN returned'[b] - returned[b] ELSE 0
           v == IF Allocated(b) THEN held'[b] + promised'[b] + paid'[b] ELSE 0
<1>1. LedgerType /\ LedgerShape /\ (Promise(b) \/ Pay(b) \/ Return(b))
  BY DEF IInv, TypeOK, LedgerType, Settle
<1>2. /\ LedgerType' /\ LedgerShape' /\ OthersAlone(b)
      /\ held'[b] + promised'[b] + paid'[b] + returned'[b]
           = held[b] + promised[b] + paid[b] + returned[b]
      /\ returned'[b] >= returned[b]
  BY <1>1, SettleShape
<1>3. /\ held[b] \in Nat /\ promised[b] \in Nat /\ paid[b] \in Nat /\ returned[b] \in Nat
      /\ held'[b] \in Nat /\ promised'[b] \in Nat /\ paid'[b] \in Nat /\ returned'[b] \in Nat
  BY <1>1, <1>2 DEF LedgerType
<1>4. /\ UNCHANGED <<now, settingVars, spendVars>>
      /\ budget' = budget + amount
      /\ contributed' = contributed + (IF Allocated(b) THEN 0 ELSE amount)
  BY DEF Settle
<1>5. amount \in Nat /\ v \in Nat
  BY <1>2, <1>3
<1>6. /\ budget \in Nat /\ contributed \in Nat /\ budget' \in Nat /\ contributed' \in Nat
  BY <1>4, <1>5 DEF IInv, TypeOK
<1>7. TypeOK'
  BY <1>2, <1>4, <1>6 DEF IInv, TypeOK, LedgerType, settingVars, spendVars
<1>8. LimitsInForce' /\ Checked'
  BY <1>4 DEF IInv, LimitsInForce, Checked, Allocated, settingVars, spendVars
<1>9. LastIsLatest' /\ AllocationsAreSpaced' /\ DayTotals'
  <2>1. now' \in Time /\ now <= now' /\ largestDaily' \in Nat /\ largestDaily <= largestDaily'
    BY <1>4 DEF IInv, TypeOK, Time, settingVars
  <2>2. QED BY <2>1, <1>4, AllocationsUntouched DEF spendVars
<1>10. BudgetTotals' /\ budget' <= contributed'
  <2>1. Invested(b)' = v /\ \A x \in Bounty \ {b} : Invested(x)' = Invested(x)
    BY <1>2, <1>4 DEF Invested, Allocated, OthersAlone, spendVars
  <2>2. Investment' = [Investment EXCEPT ![b] = v]
    BY <2>1, InvestmentUpdate
  <2>3. contributed' - budget' = contributed - budget - Invested(b) + v
    <3>1. CASE Allocated(b)
      <4>1. b \in RefundsHere /\ Invested(b) = held[b] + promised[b] + paid[b]
        BY <3>1 DEF IInv, Checked, Invested
      <4>2. QED BY <3>1, <4>1, <1>2, <1>3, <1>4, <1>6
    <3>2. CASE ~ Allocated(b)
      <4>1. Invested(b) = 0 /\ v = 0
        BY <3>2 DEF Invested
      <4>2. QED BY <3>2, <4>1, <1>4, <1>5, <1>6
    <3>3. QED BY <3>1, <3>2
  <2>4. TypeOK /\ BudgetTotals /\ budget <= contributed
    BY DEF IInv
  <2>5. QED BY <2>2, <2>3, <2>4, <1>5, <1>6, BudgetStep
<1>11. ApprovalIsEvidence'
  BY <1>2, <1>4 DEF IInv, ApprovalIsEvidence, Allocated, OthersAlone, spendVars
<1>12. QED BY <1>2, <1>7, <1>8, <1>9, <1>10, <1>11 DEF IInv

\* Somebody else's deposit is never for a policy funded from here: that policy
\* is in the escrow already.
LEMMA FundByOtherKeepsIInv ==
  ASSUME IInv, NEW b \in Bounty, FundByOther(b)
  PROVE  IInv'
<1>1. LedgerType /\ LedgerShape /\ Deposit(b)
  BY DEF IInv, TypeOK, LedgerType, FundByOther
<1>2. /\ LedgerType' /\ LedgerShape' /\ OthersAlone(b)
      /\ held[b] + promised[b] + paid[b] + returned[b] = 0
  BY <1>1, DepositShape
<1>3. UNCHANGED <<now, settingVars, spendVars, assetVars>>
  BY DEF FundByOther
<1>4. ~ Allocated(b)
  BY <1>2 DEF IInv, ApprovalIsEvidence, Checked
<1>5. TypeOK'
  BY <1>2, <1>3 DEF IInv, TypeOK, LedgerType, settingVars, spendVars, assetVars
<1>6. LimitsInForce' /\ Checked'
  BY <1>3 DEF IInv, LimitsInForce, Checked, Allocated, settingVars, spendVars
<1>7. LastIsLatest' /\ AllocationsAreSpaced' /\ DayTotals'
  <2>1. now' \in Time /\ now <= now' /\ largestDaily' \in Nat /\ largestDaily <= largestDaily'
    BY <1>3 DEF IInv, TypeOK, Time, settingVars
  <2>2. QED BY <2>1, <1>3, AllocationsUntouched DEF spendVars
<1>8. BudgetTotals' /\ budget' <= contributed'
  <2>1. Investment' = Investment
    BY <1>2, <1>3, <1>4 DEF Investment, Invested, Allocated, OthersAlone, spendVars
  <2>2. QED BY <2>1, <1>3 DEF IInv, BudgetTotals, Totals, assetVars
<1>9. ApprovalIsEvidence'
  BY <1>2, <1>3, <1>4 DEF IInv, ApprovalIsEvidence, Allocated, OthersAlone, spendVars
<1>10. QED BY <1>2, <1>5, <1>6, <1>7, <1>8, <1>9 DEF IInv
-----------------------------------------------------------------------------
(***************************************************************************)
(* An allocation.                                                          *)
(***************************************************************************)
LEMMA FundApprovedPolicyKeepsIInv ==
  ASSUME IInv, NEW b \in Bounty, FundApprovedPolicy(b)
  PROVE  IInv'
<1> DEFINE today == DayBucket(now)
<1>1. LedgerType /\ LedgerShape /\ Deposit(b)
  BY DEF IInv, TypeOK, LedgerType, FundApprovedPolicy
<1>2. /\ LedgerType' /\ LedgerShape' /\ OthersAlone(b)
      /\ held'[b] + promised'[b] + paid'[b] = RewardOf[b] /\ returned'[b] = 0
  BY <1>1, DepositShape
<1>3. /\ enabled /\ PolicyApproved(b) /\ WithinLimits(b) /\ RewardOf[b] <= budget
      /\ approvals' = [approvals EXCEPT ![b].consumed = TRUE]
      /\ spentPerDay' = [spentPerDay EXCEPT ![today] = @ + RewardOf[b]]
      /\ lastAllocation' = now
      /\ allocatedAt' = [allocatedAt EXCEPT ![b] = now]
      /\ budget' = budget - RewardOf[b]
      /\ UNCHANGED <<now, settingVars, contributed>>
  BY DEF FundApprovedPolicy, Covered
<1>4. /\ RewardOf[b] \in Nat /\ RewardOf[b] > 0 /\ b \in RefundsHere
      /\ approvals[b] \in Approvals /\ approvals[b].reward = RewardOf[b]
      /\ now < approvals[b].expiresAt /\ ~ approvals[b].consumed
  BY <1>3, BountyNumbers DEF PolicyApproved, IInv, TypeOK, Approvals
<1>5. now \in Time /\ now \in Nat /\ now > 0 /\ today \in Day
  BY DEF IInv, TypeOK, Time, Day
<1>6. ~ Allocated(b)
  BY <1>4 DEF IInv, ApprovalIsEvidence
<1>7. /\ budget \in Nat /\ contributed \in Nat /\ budget' \in Nat /\ contributed' \in Nat
  BY <1>3, <1>4 DEF IInv, TypeOK
<1>8. TypeOK'
  <2>1. spentPerDay' \in [Day -> Nat]
    BY <1>3, <1>4, <1>5 DEF IInv, TypeOK
  <2>2. approvals' \in [Bounty -> Approvals]
    BY <1>3, <1>4 DEF IInv, TypeOK, Approvals
  <2>3. allocatedAt' \in [Bounty -> {0} \cup Time]
    BY <1>3, <1>5 DEF IInv, TypeOK
  <2>4. QED BY <2>1, <2>2, <2>3, <1>2, <1>3, <1>5, <1>7 DEF IInv, TypeOK, LedgerType, settingVars
<1>9. LimitsInForce'
  BY <1>3 DEF IInv, LimitsInForce, settingVars
<1>10. /\ allocatedAt'[b] = now /\ Allocated(b)'
       /\ \A x \in Bounty \ {b} : allocatedAt'[x] = allocatedAt[x] /\ (Allocated(x)' <=> Allocated(x))
  BY <1>3, <1>5 DEF IInv, TypeOK, Allocated
<1>11. \A x \in Bounty : allocatedAt[x] \in Nat /\ allocatedAt[x] <= lastAllocation
  BY DEF IInv, TypeOK, Time, LastIsLatest
<1>12. lastAllocation \in Nat /\ lastAllocation <= now
  BY DEF IInv, TypeOK, Time, LastIsLatest
<1>13. LastIsLatest'
  <2>1. \A x \in Bounty : allocatedAt'[x] <= now
    BY <1>5, <1>10, <1>11, <1>12
  <2>2. QED BY <2>1, <1>3, <1>5 DEF LastIsLatest
<1>14. Checked'
  BY <1>4, <1>10 DEF IInv, Checked
<1>15. ApprovalIsEvidence'
  <2> SUFFICES ASSUME NEW x \in Bounty
               PROVE  /\ approvals'[x].consumed <=> Allocated(x)'
                      /\ Allocated(x)' =>
                           /\ approvals'[x].reward = RewardOf[x]
                           /\ allocatedAt'[x] < approvals'[x].expiresAt
                           /\ held'[x] + promised'[x] + paid'[x] + returned'[x] = RewardOf[x]
    BY DEF ApprovalIsEvidence
  <2>1. CASE x = b
    <3>1. /\ approvals'[b].consumed /\ approvals'[b].reward = RewardOf[b]
          /\ approvals'[b].expiresAt = approvals[b].expiresAt
      BY <1>3, <1>4 DEF IInv, TypeOK, Approvals
    <3>2. held'[b] + promised'[b] + paid'[b] + returned'[b] = RewardOf[b]
      BY <1>2, <1>4 DEF LedgerType
    <3>3. QED BY <2>1, <3>1, <3>2, <1>4, <1>10
  <2>2. CASE x # b
    <3>1. approvals'[x] = approvals[x]
      BY <2>2, <1>3 DEF IInv, TypeOK
    <3>2. QED BY <2>2, <3>1, <1>2, <1>10 DEF IInv, ApprovalIsEvidence, OthersAlone
  <2>3. QED BY <2>1, <2>2
<1>16. AllocationsAreSpaced'
  <2>1. ASSUME NEW c \in Bounty, c # b, Allocated(c) PROVE now >= allocatedAt[c] + MinInterval
    <3>1. allocatedAt[c] # 0
      BY <2>1 DEF Allocated
    <3>2. lastAllocation # 0
      BY <3>1, <1>11, <1>12
    <3>3. now >= lastAllocation + limits.interval
      BY <3>2, <1>3 DEF WithinLimits
    <3>4. limits.interval \in Nat /\ MinInterval \in Nat /\ limits.interval >= MinInterval
      BY <1>3, ControllerAssumption DEF IInv, LimitsInForce, TypeOK, Limits
    <3>5. QED BY <3>3, <3>4, <1>5, <1>11, <1>12
  <2>2. QED BY <2>1, <1>10 DEF IInv, AllocationsAreSpaced
<1>17. BudgetTotals' /\ budget' <= contributed'
  <2>1. Invested(b)' = RewardOf[b] /\ \A x \in Bounty \ {b} : Invested(x)' = Invested(x)
    BY <1>2, <1>10 DEF Invested, OthersAlone
  <2>2. Investment' = [Investment EXCEPT ![b] = RewardOf[b]]
    BY <2>1, InvestmentUpdate
  <2>3. Invested(b) = 0
    BY <1>6 DEF Invested
  <2>4. contributed' - budget' = contributed - budget - Invested(b) + RewardOf[b]
    BY <2>3, <1>3, <1>4, <1>7
  <2>5. TypeOK /\ BudgetTotals /\ budget <= contributed
    BY DEF IInv
  <2>6. QED BY <2>2, <2>4, <2>5, <1>4, <1>7, BudgetStep
<1>18. DayTotals'
  <2> SUFFICES ASSUME NEW d \in Day
               PROVE  /\ \E sum : Totals(NumBounties, sum, SpentOn(d)', spentPerDay'[d])
                      /\ spentPerDay'[d] <= largestDaily'
    BY DEF DayTotals, Totals
  <2>1. PICK sum : Totals(NumBounties, sum, SpentOn(d), spentPerDay[d])
    BY DEF IInv, DayTotals
  <2>2. spentPerDay[d] \in Nat /\ spentPerDay[d] <= largestDaily /\ largestDaily \in Nat
    BY DEF IInv, TypeOK, DayTotals
  <2>3. CASE d # today
    <3>1. SpentOn(d)' = SpentOn(d)
      BY <2>3, <1>6, <1>10 DEF SpentOn
    <3>2. spentPerDay'[d] = spentPerDay[d]
      BY <2>3, <1>3 DEF IInv, TypeOK
    <3>3. QED BY <3>1, <3>2, <2>1, <2>2, <1>3 DEF settingVars
  <2>4. CASE d = today
    <3>1. SpentOn(d)' = [SpentOn(d) EXCEPT ![b] = RewardOf[b]] /\ SpentOn(d)[b] = 0
      BY <2>4, <1>6, <1>10 DEF SpentOn
    <3>2. spentPerDay'[d] = spentPerDay[d] + RewardOf[b]
      BY <2>4, <1>3, <1>5 DEF IInv, TypeOK
    <3>3. \E s : Totals(NumBounties, s, [SpentOn(d) EXCEPT ![b] = RewardOf[b]],
                        spentPerDay[d] - SpentOn(d)[b] + RewardOf[b])
      BY <2>1, <2>2, <1>4, TotalsUpdate, BountyNumbers, SpentType
    <3>4. spentPerDay[d] - SpentOn(d)[b] + RewardOf[b] = spentPerDay'[d]
      BY <3>1, <3>2, <2>2, <1>4
    <3>5. \E s : Totals(NumBounties, s, SpentOn(d)', spentPerDay'[d])
      BY <3>1, <3>3, <3>4
    <3>6. spentPerDay'[d] <= limits.daily
      BY <3>2, <2>4, <1>3 DEF WithinLimits
    <3>7. limits.daily \in Nat /\ limits.daily <= largestDaily /\ spentPerDay'[d] \in Nat
      BY <3>2, <2>2, <1>4 DEF IInv, LimitsInForce, TypeOK, Limits
    <3>8. spentPerDay'[d] <= largestDaily'
      BY <3>6, <3>7, <2>2, <1>3 DEF settingVars
    <3>9. QED BY <3>5, <3>8
  <2>5. QED BY <2>3, <2>4
<1>19. QED BY <1>2, <1>8, <1>9, <1>13, <1>14, <1>15, <1>16, <1>17, <1>18 DEF IInv

-----------------------------------------------------------------------------
(***************************************************************************)
(* The invariant and the theorems.                                         *)
(***************************************************************************)
LEMMA InitIInv == Init => IInv
<1> SUFFICES ASSUME Init PROVE IInv
  OBVIOUS
<1> USE DEF Init, LedgerInit
<1>1. TypeOK
  <2>1. now \in Time
    BY ControllerAssumption DEF Time
  <2>2. NoApproval \in Approvals /\ limits \in Limits
    BY DEF NoApproval, Approvals, Limits
  <2>3. /\ approvals \in [Bounty -> Approvals]
        /\ allocatedAt \in [Bounty -> {0} \cup Time]
        /\ spentPerDay \in [Day -> Nat]
    BY <2>2
  <2>4. QED BY <2>1, <2>2, <2>3 DEF TypeOK
<1>2. LimitsInForce /\ LedgerShape /\ Checked /\ AllocationsAreSpaced /\ budget <= contributed
  BY DEF LimitsInForce, LedgerShape, Checked, AllocationsAreSpaced, Allocated
<1>3. LastIsLatest
  BY DEF LastIsLatest
<1>4. ApprovalIsEvidence
  BY DEF ApprovalIsEvidence, Allocated, NoApproval
<1>5. BudgetTotals
  <2>1. Investment = [i \in 1 .. NumBounties |-> 0] /\ contributed - budget = 0
    BY BountyNumbers DEF Investment, Invested, Allocated
  <2>2. QED BY <2>1, ZeroTotals, BountyNumbers DEF BudgetTotals
<1>6. DayTotals
  <2> SUFFICES ASSUME NEW d \in Day
               PROVE  /\ \E sum : Totals(NumBounties, sum, SpentOn(d), spentPerDay[d])
                      /\ spentPerDay[d] <= largestDaily
    BY DEF DayTotals
  <2>1. SpentOn(d) = [i \in 1 .. NumBounties |-> 0] /\ spentPerDay[d] = 0
    BY BountyNumbers DEF SpentOn, Allocated
  <2>2. QED BY <2>1, ZeroTotals, BountyNumbers
<1>7. QED BY <1>1, <1>2, <1>3, <1>4, <1>5, <1>6 DEF IInv

LEMMA NextKeepsIInv == IInv /\ [Next]_vars => IInv'
<1> SUFFICES ASSUME IInv, [Next]_vars PROVE IInv'
  OBVIOUS
<1>1. ASSUME NEW b \in Bounty, NEW a \in ApprovalChoices, ApprovePolicy(b, a) PROVE IInv'
  BY <1>1, ApprovePolicyKeepsIInv
<1>2. ASSUME NEW b \in Bounty, FundApprovedPolicy(b) PROVE IInv'
  BY <1>2, FundApprovedPolicyKeepsIInv
<1>3. ASSUME NEW b \in Bounty, FundByOther(b) PROVE IInv'
  BY <1>3, FundByOtherKeepsIInv
<1>4. ASSUME NEW b \in Bounty, Settle(b) PROVE IInv'
  BY <1>4, SettleKeepsIInv
<1>5. CASE \/ \E l \in LimitChoices : SetLimits(l)
           \/ \E value \in BOOLEAN : SetEnabled(value)
  BY <1>5, SettingsKeepIInv
<1>6. CASE TopUp \/ \E amount \in 1 .. MaxTopUp : WithdrawUnallocated(amount)
  BY <1>6, TransfersKeepIInv
<1>7. CASE Tick \/ UNCHANGED vars
  BY <1>7, ClockKeepsIInv
<1>8. QED BY <1>1, <1>2, <1>3, <1>4, <1>5, <1>6, <1>7 DEF Next

LEMMA Invariance == Spec => []IInv
BY InitIInv, NextKeepsIInv, PTL DEF Spec

\* Every variable keeps its type: the controller's balance never goes below zero.
THEOREM ControllerTypes == Spec => []TypeOK
<1>1. IInv => TypeOK
  BY DEF IInv
<1>2. QED BY <1>1, Invariance, PTL

\* What was put into the controller is there, in the escrow, or with claimants.
THEOREM BudgetIsConserved == Spec => []BudgetConserved
<1>1. IInv => BudgetConserved
  BY TotalsAddUp DEF IInv, BudgetTotals, BudgetConserved, Investment
<1>2. QED BY <1>1, Invariance, PTL

\* A day's counter is the sum of that day's allocations and stays under the
\* largest daily limit there has been.
THEOREM DaysAreExact == Spec => []DaysAddUp
<1>1. IInv => DaysAddUp
  BY TotalsAddUp DEF IInv, DayTotals, DaysAddUp
<1>2. QED BY <1>1, Invariance, PTL

\* Allocations are at least the smallest lawful interval apart.
THEOREM AllocationsSpaced == Spec => []AllocationsAreSpaced
<1>1. IInv => AllocationsAreSpaced
  BY DEF IInv
<1>2. QED BY <1>1, Invariance, PTL

\* Every allocation has its approval, used once and kept.
THEOREM ApprovalsAreEvidence == Spec => []ApprovalIsEvidence
<1>1. IInv => ApprovalIsEvidence
  BY DEF IInv
<1>2. QED BY <1>1, Invariance, PTL
=============================================================================
