----------------------------- MODULE BountySlot -----------------------------
(***************************************************************************)
(* What the escrow promises about the one slot of a bounty, to whoever     *)
(* follows that bounty on the chain: who may hold it and how often, until  *)
(* when, what a holder is granted, and which steps are final.  There are   *)
(* no signatures, balances, callers or other bounties here.  The contract  *)
(* is shown to implement this for each of its bounties, and so is the      *)
(* chain that the claims of one bounty meet in ClaimSettlement.            *)
(***************************************************************************)
EXTENDS Integers

CONSTANTS
  Claim,
  Reward,              \* policy.reward
  SubmissionDeadline, SettlementDeadline, Duration   \* of the policy

VARIABLES
  now,         \* block.timestamp
  phase,       \* Bounty.state
  holder,      \* Bounty.reservation.claimId: one claim or, when deleted, none
  expiresAt,   \* Bounty.reservation.expiresAt
  spent,       \* usedClaimIds: the claims that had a reservation, here or elsewhere
  granted      \* what was credited to the holder, collected or not

slot == <<phase, holder, expiresAt, granted>>
slotVars == <<now, slot, spent>>

SlotInit ==
  /\ phase \in {"NONE", "FUNDED"}
  /\ holder = {}
  /\ expiresAt = 0
  /\ spent = {}
  /\ granted = 0

Fund ==
  /\ phase = "NONE"
  /\ phase' = "FUNDED"
  /\ UNCHANGED <<now, holder, expiresAt, spent, granted>>

\* A claim holds the slot once in its life, from before the submission
\* deadline and never past the settlement deadline.
Reserve(c) ==
  /\ phase = "FUNDED"
  /\ now < SubmissionDeadline
  /\ c \notin spent
  /\ phase' = "RESERVED"
  /\ holder' = {c}
  /\ expiresAt' = IF now + Duration <= SettlementDeadline THEN now + Duration
                  ELSE SettlementDeadline
  /\ spent' = spent \cup {c}
  /\ UNCHANGED <<now, granted>>

\* Only the holder can be granted anything, in time and once.
Grant ==
  /\ phase = "RESERVED"
  /\ now <= expiresAt
  /\ phase' = "QUALIFIED"
  /\ granted' \in 1 .. Reward
  /\ UNCHANGED <<now, holder, expiresAt, spent>>

Vacate ==
  /\ holder' = {}
  /\ expiresAt' = 0
  /\ UNCHANGED <<now, spent, granted>>

Deny ==
  /\ phase = "RESERVED"
  /\ now <= expiresAt
  /\ phase' = "FUNDED"
  /\ Vacate

Expire ==
  /\ phase = "RESERVED"
  /\ now > expiresAt
  /\ phase' = "FUNDED"
  /\ Vacate

\* Whoever calls it, the payment is the holder's.
Collect ==
  /\ phase = "QUALIFIED"
  /\ phase' = "PAID"
  /\ UNCHANGED <<now, holder, expiresAt, spent, granted>>

Refund ==
  /\ phase \in {"FUNDED", "RESERVED"}
  /\ phase = "RESERVED" => now > expiresAt
  /\ now > SettlementDeadline
  /\ phase' = "REFUNDED"
  /\ Vacate

\* Claims are spent on other bounties, and time passes.
Elsewhere ==
  /\ now' \in Nat /\ now' >= now
  /\ spent \subseteq spent'
  /\ UNCHANGED slot

SlotNext ==
  \/ Fund \/ (\E c \in Claim : Reserve(c)) \/ Grant \/ Deny \/ Expire
  \/ Collect \/ Refund \/ Elsewhere

SlotSpec == SlotInit /\ [][SlotNext]_slotVars
=============================================================================
