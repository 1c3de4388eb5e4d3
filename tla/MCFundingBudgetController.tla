---------------------- MODULE MCFundingBudgetController ----------------------
(***************************************************************************)
(* A small instance of FundingBudgetController: policies 1 and 2 may be    *)
(* funded from the budget, policy 3 refunds somebody else.  A day has two  *)
(* ticks, so an allocation may fall on either side of midnight.            *)
(***************************************************************************)
EXTENDS FundingBudgetController

MCRewardOf == <<2, 1, 1>>

MCLimitChoices == {[perAction |-> 2, daily |-> 3, interval |-> 0],
                   [perAction |-> 2, daily |-> 3, interval |-> 1],
                   [perAction |-> 2, daily |-> 2, interval |-> 1]}

MCApprovalChoices == {[reward |-> 2, expiresAt |-> 4],
                      [reward |-> 1, expiresAt |-> 4],
                      [reward |-> 1, expiresAt |-> 2]}
=============================================================================
