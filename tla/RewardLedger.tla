---------------------------- MODULE RewardLedger ----------------------------
(***************************************************************************)
(* What the escrow promises about money, with no signatures, reservations, *)
(* deadlines or callers: a bounty's reward is deposited once, may be       *)
(* promised once to one claimant (any part not promised going back at      *)
(* once), and every unit then leaves exactly once, to the claimant or to   *)
(* the refund recipient.  BountyEscrow is shown to implement this.         *)
(***************************************************************************)
EXTENDS Integers

CONSTANTS
  Bounty,     \* bounty identifiers
  RewardOf    \* RewardOf[b] is the reward fixed by the policy of b

VARIABLES
  held,       \* held[b]: deposited, not promised to anybody
  promised,   \* promised[b]: credited to a claimant, not collected yet
  paid,       \* paid[b]: collected by the claimant
  returned    \* returned[b]: sent back to the refund recipient

ledgerVars == <<held, promised, paid, returned>>

LedgerInit ==
  /\ held     = [b \in Bounty |-> 0]
  /\ promised = [b \in Bounty |-> 0]
  /\ paid     = [b \in Bounty |-> 0]
  /\ returned = [b \in Bounty |-> 0]

Untouched(b) ==
  held[b] = 0 /\ promised[b] = 0 /\ paid[b] = 0 /\ returned[b] = 0

Deposit(b) ==
  /\ Untouched(b)
  /\ held' = [held EXCEPT ![b] = RewardOf[b]]
  /\ UNCHANGED <<promised, paid, returned>>

\* The whole reward is settled at once: what is not promised goes back.
Promise(b) ==
  \E amount \in 1 .. held[b] :
    /\ held'     = [held EXCEPT ![b] = 0]
    /\ promised' = [promised EXCEPT ![b] = amount]
    /\ returned' = [returned EXCEPT ![b] = held[b] - amount]
    /\ UNCHANGED paid

Pay(b) ==
  /\ promised[b] > 0
  /\ paid'     = [paid EXCEPT ![b] = promised[b]]
  /\ promised' = [promised EXCEPT ![b] = 0]
  /\ UNCHANGED <<held, returned>>

Return(b) ==
  /\ held[b] > 0
  /\ returned' = [returned EXCEPT ![b] = held[b]]
  /\ held'     = [held EXCEPT ![b] = 0]
  /\ UNCHANGED <<promised, paid>>

LedgerNext == \E b \in Bounty : Deposit(b) \/ Promise(b) \/ Pay(b) \/ Return(b)

LedgerSpec == LedgerInit /\ [][LedgerNext]_ledgerVars
=============================================================================
