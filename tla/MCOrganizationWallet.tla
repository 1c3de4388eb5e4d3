------------------------ MODULE MCOrganizationWallet ------------------------
EXTENDS OrganizationWallet, TLC

CONSTANTS d1, d2

\* Two drafts with different rewards, so that the allowance of one is not
\* enough for, or is more than, what the other needs.
MCRewardOf == d1 :> 1 @@ d2 :> 2
=============================================================================
