# Verification of ProofOfHack

ProofOfHack pays security researchers for vulnerabilities found in smart
contracts. A protocol team locks a reward in an escrow contract; a researcher
uploads encrypted evidence; a verifier judges it and signs; a worker carries the
claim through three transactions; the report is opened for the team once the
payment is final. This directory holds TLA+ models of that system, the TLC
configurations that check them on small instances, and TLAPS proofs for all
instances. `PROJECT.json` maps every definition to the source lines it stands
for and lists the runs, the hazards, the findings and the theorems.

## Inventory

| Component | State it keeps | Operations |
|---|---|---|
| `BountyEscrow.sol` | per bounty: state, reservation, unallocated reward, credit; replay sets; `totalLiability`; token balance | createAndFund, reserveClaim, submitAssessment, expireReservation, collectPayment, refundExpired |
| `FundingBudgetController.sol` | enabled flag, limits, last allocation, spending per day, approved policies; token balance | approvePolicy, setLimits, setEnabled, fundApprovedPolicy, withdrawUnallocated |
| Claim worker (`worker/claim-process.ts`, `claim-jobs.ts`) | claims.job_state, transaction_intents, chain_events, bounties row, payout_approvals; an advisory lock per bounty | processClaim: read, admit, assess, collect, record, release |
| Verifiers (`verifier/process.ts`, `finding-process.ts`) | admissions, assessments, reports; an advisory lock per claim | admit, assess |
| Recovery (`worker/recovery-process.ts`, `recovery-receipt.ts`) | bounty_recovery checkpoint, attempts and status; recovery intents; the rows above | scan pages of blocks, request expiry and refund, reconcileRecovery, retry |
| Organization wallet: treasury funding (`treasury/fund.ts`) and owner commands (`budget/owner-process.ts`, `api/owner-routes.ts`) | funding_requests, owner_requests, signed intents, confirmations; at the provider the wallet's policy; on chain its nonce, balance and allowance | request, confirm, cancel, fundBounty, processOwnerCommand |
| Wallet setup (`treasury/provision.ts`) | wallet_setups, outbox; policies and wallets at the provider | request, dispatch, provisionTreasury |
| Budget allocation (`coverage/`, `budget/allocate.ts`) | recommendations, agent_actions, outbox, intents, projection of the controller | refresh, enqueue, dispatch, allocateBudget |
| Report release (`report-release/`) | reports.state, paid_event_ref, delete_after, report keys | releaseReport, download |
| Retention (`retention/process.ts`) and ciphertext store | uploads, reports, files on disk, a lock shared with the writers | put, read, sweep, orphan clean-up |
| Payout approvals (`api/payout-approval-routes.ts`) | payout_approvals and their signatures | sign |
| API transactions (`api/context.ts`, `app.ts`) | idempotency_records, memberships and their versions | mutate, createOrganization, add and change a member |
| Bounty drafting (`api/bounty-routes.ts`, `web/BountyWorkspace.tsx`) | report keys, manifests, drafts, approvals; the form's key and deadline | the form's calls, approve |
| User transfers (`api/wallet-routes.ts`, `rpc-routes.ts`, `web/Wallet.tsx`) | user_transfers with a fixed nonce; the page's saved transfer | prepare, sign, send, confirm |
| Receipt exports (`receipts/`) | exports with their snapshot and attempts | request, compare, download |
| Assistant runs (`assistant/`) | runs with the snapshot of the coverage records | request under limits, dispatch, run |
| Sign-in, reads, web display | derived data only | |

**Interaction.** The services share one PostgreSQL database and never call each
other's functions: the worker calls verifiers and the release service over HTTP
with a 20 second limit, and a request goes on after its caller gave up. Work is
queued through an outbox table and pg-boss, which runs a job again when it throws
or its process dies. Exclusion is by advisory locks (per bounty, per claim, per
request key), by `for update` rows and by one unique index
(`one_projected_reservation`). All services read the chain at its finalized
block. Anybody may call the escrow's expiry, payment and refund, and anybody who has seen a
signed admission or assessment may present it.

**What is hard here.** (1) Money: one liability counter and one token balance
serve every bounty. (2) A claim's job may die or be overtaken between any two of
its commits, chain reads and provider calls. (3) The same facts are recorded by
three writers (the claim's job, recovery, another claim's job) in any order.
(4) Requests outlive their callers. (5) Others act on the chain first: a signed
message presented, a payment collected, a reservation expired, a bounty refunded. (6) Deadlines race with late
answers. `PROJECT.json` lists each of these at the line where it bites, with the
properties that cover it.

**What makes each component correct.** Escrow: every unit of reward is in
exactly one place, credits are final, a spent claim never returns. Claim
settlement: the database converges to the chain, a report opens only after a
final payment and, for a payment of the whole reward on the worker's own assessment, always
then (findings 2 and 4 are the rest), a hold is always resolved, payouts above the
threshold wait for signatures. Controller: the budget spent per day is what was
allocated that day, allocations are approved once and spaced. Recovery: every
expiry and refund is recorded across restarts before the bounty is called
complete, and no request is sent twice. Retention: no file is deleted while a row
promises it, and no reader gets a report that is not his. Wallet: one transaction
outstanding, sent again with the same bytes until it is final; a widened policy is
always narrowed again; a request that is over says what happened. Allocation: one
transaction per action, whatever answers are lost. API: one execution per key, and
an organization keeps an owner. Drafting: what an owner approved the escrow
accepts. Setup, exports and assistant: what is called ready, checked or complete
was so when it was written.

## Modules

| Module | Models | State and actions |
|---|---|---|
| `RewardLedger` | what the escrow promises about money | held, promised, paid, returned per bounty |
| `BountySlot` | what the escrow promises about the slot of one bounty | who holds it, until when, what was granted, which claims are spent |
| `BountyEscrow` | `contracts/src/BountyEscrow.sol` | the contract's storage, the token balance and three history variables; one action per external call, plus `Tick` (block.timestamp) and `Donate` (a direct transfer) |
| `RunningTotals` | | sums stated without recursion |
| `FundingBudgetController` | `contracts/src/FundingBudgetController.sol` over `RewardLedger` | the contract's storage, its token balance and three history variables; one action per external call, plus deposits by others, settlements of the escrow, top-ups and the clock |
| `ClaimSettlement` | worker, verifiers, relayer, recovery's reconciliation, release, and the escrow as one bounty's claims meet it | the claims' rows, jobs and verifier requests |
| `OrganizationWallet` | treasury funding and owner commands on one wallet | requests, intents, the provider's policy, nonces, balances and allowance |
| `RecoveryScan` | the recovery of one bounty | checkpoint, requests, status, the relayer's transactions, nodes that lag |
| `BudgetAllocation` | coverage, recommendation, outbox, queue and the allocation job | the rows of one vault's allocations and what the chain and the provider know of them |
| `ReportLifecycle` | evidence and report files, release, download, sweep | rows, files and the lock between them |
| `UserTransfers` | a member's transfers from two tabs | transfers with their nonces, the pages, the network |
| `ApiTransactions` | `mutate` and the member routes | memberships, calls under way, idempotency records |
| `BountyDrafting` | the form, the drafting routes and policySchema | the form's page, what the API saved, drafts |
| `WalletSetup` | the creation of a wallet | the setup, its outbox and job, the provider's objects and memory |
| `ReceiptExport` | one export of receipts | the export, its job, the requester's role |
| `AssistantRuns` | questions about coverage | the runs, their jobs, the records they are about |
| `Operations` | | the eight parts from `BudgetAllocation` on (without `RecoveryScan`), side by side |
| `BountyEscrowProofs`, `FundingBudgetControllerProofs`, `RunningTotalsProofs`, `ClaimSettlementProofs`, `OrganizationWalletProofs`, `RecoveryScanProofs`, `ApiTransactionsProofs`, `OperationsProofs` | | theorems about the modules they are named after |
| `MCBountyEscrow`, `MCFundingBudgetController`, `MCClaimSettlement`, `MCOrganizationWallet`, `MCRecoveryScan`, `MCOperations` | | instances for TLC |

**Composition.** `BountyEscrow` implements `RewardLedger`, and the controller is
composed with that ledger. `ClaimSettlement` contains the escrow as the claims of one
bounty meet it, restated for that purpose; `BountySlot` is what ties it to the contract.
`BountyEscrow` implements `BountySlot` for each of its bounties (`ImplementsBountySlot`),
and so does the chain of `ClaimSettlement`: it lets no claim hold the slot twice, late or
beside another, and grants nothing that the contract could not. (This direction is
what can be stated as a refinement: it does not show that each behaviour
of the contract occurs in `ClaimSettlement`.) The worker, the verifiers, the relayer, recovery and the
release service are composed in `ClaimSettlement` because they share rows and
locks; funding and owner commands are composed in `OrganizationWallet` because they
share a wallet. `Operations` holds eight parts that share nothing, so one
behaviour is one part, chosen at the beginning by `active`.

### BountyEscrow

A bounty's identifier is the hash of its policy, so `PolicyOf` is a constant: a
function from identifiers to policies, valid or not. Signatures are modelled by
what they establish: an admission or assessment is any record the two trusted
signers could ever have signed, presented at any time, repeatedly, by anybody.
`CreateAndFund(b, received)` takes what the token really delivered, because the
code measures it. A revert is the absence of a step. Amounts are natural
numbers: rewards are bounded by token supply, so additions cannot overflow, and
the checked subtractions are guards (`PayFromEscrow`).

### FundingBudgetController

The controller calls one function of the escrow, `createAndFund`, and later
receives leftovers and refunds. Because `BountyEscrow` implements `RewardLedger`
(proved), the controller is composed with the ledger: `FundApprovedPolicy`
includes the ledger's `Deposit`, `Settle` is any later movement of the escrow, and
`FundByOther` is a deposit somebody else made for any policy, this controller's
included. Signatures, reservations and deadlines of the escrow only remove
behaviours. A policy is named by its hash; `Ours` and `RefundsHere` say which
policies pass the comparisons of `fundApprovedPolicy`. `contributed` is history: what
was put in, less what the owner withdrew.

### ClaimSettlement

One action is one database transaction, one chain read or one provider call;
between two of them anything else may happen. `at[c]` is the position of claim
c's job in `processClaim`: `lock`, `read`, then for each of the three methods
`begin`, `verify`, `send`, `hash`, `receipt`, then `quorum`, `release`. `row[c]` is
the `job_state` the job read *before* it took the lock, as the code does. `Crash`
is a dead process or a timeout at any position. `Throw` is a step that throws
(the chain is not final yet, the transaction reverted, the receipt does not prove
the step, an index refuses). The queue starts a job again whatever its state,
because a redelivered job may always run.

A verifier request has its own life: `requested` (sent), `serving` (holding its
lock, with the chain as it `seen` it) and its commit (`Admit`, `Assess`, the
answers from records `AdmitAgain`, `AssessAgain`, or `Refuse`). The worker that
waits gets the answer if it still waits. `Reconcile(i)` is `reconcileRecovery` for
event i of the chain, at any time and repeatedly.

`Execute` runs a transaction of the relayer. `PresentedByOther` is the same call sent
by somebody else: the escrow checks the verifier's signature and never the caller, so once
the relayer has broadcast a reservation or an assessment its message may reach the
escrow first in another transaction, or after the relayer's has reverted. The relayer's
own then reverts, and the job throws at its receipt on every run.

Rows of the database are the variables of `dbVars`. `report` compresses
`reports`: `HELD` (sealed, retention_hold), `SEALED` (sealed, no hold), `RESOLVED`
(an expiry event resolved it), `AVAILABLE`. The chain is the finalized one:
an included transaction which is not final is, to every reader here, pending.

### OrganizationWallet

A wallet has requests of two kinds: fundings, each with two transactions (a token
approval, then `createAndFund`), and owner commands, each with one. `state`, `draft`,
`kind`, `lapsed` and `marked` are the columns of their rows; `intent` and `nonce` those of
the signed transactions. `rule` is the provider's policy: the treasury's, or
widened for one command. `job` is the run that holds the wallet's advisory lock,
with what it remembers. Each position of `fundBounty` and `processOwnerCommand`
between two commits, chain reads or provider calls is an action (`StartFunding`,
`StartOwner`, then `JobStep`); `Crash` ends a run anywhere, `Drop` loses a broadcast
transaction, `Lapse` is the ten minutes of a confirmation, and `Member` is what a
member asks, confirms or cancels meanwhile. The wallet's balance changes by its own transactions only.

### RecoveryScan

`chain` is a list of final blocks, each with the bounty's state after it and the
event in it. A pass (`Start`, `Pass`) reads it through a node up to `Lag` blocks behind,
page by page; a page's events and the checkpoint are one transaction (`ScanPage`).
A request for an expiry or a refund is prepared, sent, found again by the
relayer's key when its answer was lost, confirmed from its receipt, reconciled
with what others did, cancelled before it was sent, or given up after the attempts
are spent. `RetryRecovery` is the operator's and `RecordReceipt` the API's.

### BudgetAllocation

`RefreshCoverage` compares what is funded with what is required and recommends
the cheapest approved policy that closes the gap; `EnqueueAllocation` makes an action, an
outbox row and a job; the job checks the action again before each send, has the
operator's wallet call the controller, and records the final allocation, reads a
reverted receipt, or finds that another transaction of the operator did it. The
projection of the controller is refreshed separately and may be stale.

### ReportLifecycle, ReceiptExport, AssistantRuns, WalletSetup

Files are separate from rows: a writer takes the ciphertext lock shared, writes a
file and commits; the sweep takes it exclusively on a connection it can lose, marks
a row, removes files, and cleans up orphans older than a day. A download checks
access before and after decryption. The three other modules are jobs with a
snapshot taken by a request: what they compare against may change while they run,
and each has the retries its queue gives it.

### ApiTransactions, BountyDrafting, UserTransfers

`ApiTransactions` is `mutate`: the advisory lock of actor, route and key, the
authorization under the organization's row lock, the lookup, the commit; a
connection may be lost anywhere before it. `BountyDrafting` uses `mutate` as one
atomic step that executes, replays or refuses, with policySchema and the contract's own
checks as guards. In `UserTransfers` the nonce is fixed when the transfer is prepared, the
RPC route saves a hash before it forwards the transaction, and a tab may be closed
or lose an answer at any point.

## Runs

| Run | Question | Result |
|---|---|---|
| `escrow` | Do the money, the reservations and the replay protection hold with three overlapping bounties, and does the contract implement `RewardLedger`? | holds, 9 properties |
| `controller` | Does the budget add up: over days, over refunds, over changes of limits, and is every allocation approved once and spaced? | holds, 5 properties |
| `claim` | One claim, a crash, messages presented by others, a payout that needs two signatures: does the database follow the chain, do intents tell the truth, are holds resolved, is the payout gated, and is the report of a paid claim opened in the end? | holds, 7 properties |
| `rivals` | Two claims compete for the bounty with one crash: do projected slots follow the chain? | holds, 1 property |
| `wallet` | Two fundings and a command on one wallet, with one crash or dropped transaction: is the widened policy tracked, is a signed transaction ever stranded, is the allowance kept, are outcomes true? | holds, 6 properties |
| `owner_permission` | Is a widened policy narrowed again in the end, with two commands and two crashes? | holds |
| `recovery` | Does the scan record everything before it says COMPLETE, do requests tell the truth, and does it come to rest? | holds, 6 properties |
| `operations` | Eight independent parts: are allocations true and never lost, files and readers safe, repeated requests executed once, finished jobs true? | holds, 5 properties |
| `finding_hold` | Is every hold resolved with the finding verifier? | violated |
| `finding_reward` | Is a claim paid a partial reward released? | violated |
| `finding_outsider` | Is every paid claim's report opened, whoever presented its assessment? | violated |
| `large_payout` | Does a payout above the threshold wait for the quorum? | violated |

The properties of `operations` are conjunctions: each names the properties of the parts
it stands for, which are stated and explained in their modules
(`AllocationsTellTheTruth`, `QueuedIsDispatched`; `FilesAreKept`, `ReadersArePermitted`;
`ExecutedOnce`, `OwnerRemains`, `NothingIsOverwritten`, `PaidOnce`, `OutcomeIsFinal`,
`ApprovedIsFundable`, `OneDraftPerForm`; `MadeOnce`, `ReadyIsControlled`, `ReadyIsChecked`,
`FailedIsFinal`, `CompleteIsCurrent`, `LimitsHold`).

**Bounds and why they are enough.** `escrow`: three bounties (a reward of 3 that
can be split, a bounty that overlaps it, and a policy that must be refused),
three claims, four nonces, time to 6: every pair of deadlines is crossed and a
bounty can be reserved, rejected, reserved again and refunded. The proofs remove
these bounds. `controller`: two policies that may be funded and one that refunds
somebody else, three attempted limits (one with an unlawful interval), a budget of
three, and a clock that puts an allocation before midnight and two after it; the
proofs remove these bounds too. `claim`: one claim passes each deadline (submission 3, settlement
4, clock to 5) with an admission window and a reservation of one tick each, so
every wait can be outlived; one crash leaves behind a request that overlaps the retry's, a
transaction nobody waits for or a receipt nobody recorded. `rivals`: the clock stops at 2, which is enough for one
claim's reservation to expire and the next one's to be made; larger bounds grow
past five minutes. Of one claim, `SlotFollowsChain` was also checked with the bounds of `claim`
and with admission windows that reach the submission deadline. Amounts are 1 and 2 with the threshold at 2 or 3: enough to
tell full from partial and large from small; except for liveness the proofs remove these
bounds. `wallet`: two drafts with rewards 1 and 2 and
a wallet of 3, so that two fundings and a deposit compete for the last unit; five
transactions with their nonces, one fault anywhere; the proofs remove
these bounds. `owner_permission`: two commands of two kinds beside a funding and two
faults, so that the run which repairs a crash may crash as well. `recovery`: two
claims one after the other, five blocks in pages of two, one page to a pass, a node one
block behind, two attempts, one lost answer or crash and one retry: an event can
be on either side of every page and of a node's head; except for liveness the proofs
remove these bounds. `operations`: one claim with
two bounties for the sweep, two users, two connections and two tabs, one form and its
times on either side of each limit of policySchema, four runs of the setup and two
receipts; two faults for most parts. One behaviour runs one part, so the states add
up instead of multiplying; nothing is lost by it, because the parts share no state. The
proofs remove these bounds.

**Fairness.** `ClaimSettlement.FairSpec` assumes, for each claim: the queue keeps running an
unfinished job (weak fairness of its steps), the verifier answers, a transaction
the relayer sent is executed, and `BeginStep` is strongly fair, which is the same
statement for a step that a crash or a retry keeps disabling. pg-boss polls every
second and retries, which justifies it, up to limits the model does not have:
eight retries, 23 hours to resend a request without a hash, 64000 blocks to find
a payment made by others. `PaidIsReleased` is therefore a statement about jobs
within these limits, and the limits are listed as hazards. Nothing is assumed of
people, of the recovery scan or of third parties: the payment may be collected by
anybody, and a message may be presented by anybody. `PaidIsReleased` says what the
code does then: it promises the report if the relayer's own assessment succeeded and a
large payout got its signatures. (The API queues the job again with the signature that
completes the quorum, `payout-approval-routes.ts:117-130`, so a job that had come to rest there
runs again.) Without the first of these conditions it is false, which `finding_outsider`
shows; without the second it is false as finding 3 says. `OrganizationWallet.FairSpec` assumes that a
job which runs goes on (weak fairness of `JobStep`; the faults are bounded) and that a
command's job is started again and again (strong fairness of `StartOwner`, since the
lock may be taken): the queue retries a job that throws, and a member's retry
route starts it when the queue has given up. `RecoveryScan.FairSpec` assumes that the
dispatch of every minute starts a pass for an unfinished bounty, that passes go
on, that time passes, and that the network mines and nodes catch up; it assumes
nothing of operators, which is why NEEDS_REVIEW is one of the two places to rest.

## Proofs

`BountyEscrowProofs` proves, for any number of bounties and any constants that
satisfy `EscrowAssumption`, the type invariant, the five safety invariants, both
action properties and the refinement that run `escrow` checks, and that each bounty
implements `BountySlot`.

The inductive invariant `IInv` conjoins the type invariant, `LiabilityTotals`,
`BalanceCoversLiability`, `RewardConserved`, `ReservationWindow` and `Slots`. `Slots`
is the strengthening the others need: a bounty that exists passed the policy
checks, and it holds a reservation in exactly the states that use one. The
liability is a sum over bounties; it is stated by running totals (`RunningTotals`:
a function whose value at b is what bounties 1..b owe together), so that no
recursion is needed and lemma `TotalsUpdate` does the arithmetic: replacing one summand moves
the total by the difference and the total covers each summand. Every call is
then a `MoneyStep` of one bounty, one lemma per call says which, and the proof of
each invariant is by cases over the calls. `StepShape` classifies what a step does
to a bounty for the two action properties and the refinements: a call of a bounty is a
step of its own slot (`SlotSteps`), and for the slots of all others, with donations and
the clock, it is `Elsewhere`, where claims are spent and time passes. The granted
amount is what was credited and, after the collection, what was paid.

`FundingBudgetControllerProofs` proves the five properties of run `controller` for
any policies, limits, approvals and length of day. Its `IInv` adds four facts:
`LimitsInForce` (an enabled controller has lawful limits, and the current daily
limit is at most the largest), `LastIsLatest` (no allocation is later than
`lastAllocation`), `LedgerShape` (a reward is in one place or split by one promise)
and `Checked` (an allocated policy refunds here). `BudgetTotals` and one `DayTotals`
per day are sums by running totals again, so each step's effect on money is one
use of `TotalsUpdate`; spacing follows because the new allocation is an interval
after `lastAllocation`, which is not before any other.

`ClaimSettlementProofs` proves the safety properties of the runs `claim` and `rivals` for any number of
claims, crashes and ticks: five with either verifier; `HoldResolved` and
`SlotFollowsChain` with the fixture verifier. With the other one both are false for the reason
`finding_hold` gives (the assessment nobody waited for overwrites EXPIRED). Messages presented
by others are steps of the proofs like any other. The inductive invariant has
four parts. `ChainInv`: the escrow names only claims that were reserved, whoever presented it, and whose
reservation did not expire (`ClaimIsReserved`, `ExpiredIsOver`); a credit follows the
assessment that grants it (`CreditIsAssessed`); the escrow's state is what its last
event says (`EscrowFollowsLog`). `BountyFollowsLog`: the row's state is that of the event
it followed, which is the last one if that is recorded. Only the two together give
`ViewConverges`, since recording goes on in any order. `JobInv`: what a job found at an
earlier step still holds when it acts on it (`JobRemembers`: the credit is recorded
at the quorum step, the gate was passed at every step of the payment, the payment
is final when the intent is closed, the admission over when it is expired), with
`PayoutIsGated` and `IntentsTellTheTruth`. `ReportInv`: an opened report has its payment,
a resolved one its expiry, and with the fixture verifier an expired claim is
neither held nor about to be. Two facts make what was found remain true: the log loses
nothing (`Grows`), and no step takes back a transaction that was sent or succeeded, an assessment, a
record or a signature (`Kept`). Each step is then one of few shapes: an event of the
chain, a step of one job (`JobStep`), a step of the records (`ReportStep`).

`SlotFollowsChain` (once all events are recorded, the claim in the bounty's projected slot is
the escrow's) has an invariant of its own, `SlotsInv`, one statement per claim: it relates the admission a
reservation used to the one the claim has now. `SigningInv` bounds an admission's end by the
clock the verifier read when it signed; `PreparingInv` says that a transaction comes after its
intent, the intent after its admission or assessment, and an assessment after a reservation; `EndingInv` that a reservation which was lost is over, and that its
admission ended within a window of its own; `SlotInv` draws the consequence: a claim whose admission is recorded as
over can never be reserved (`NoMoreReserved`: an admission is as long as the
window unless the submission deadline cuts it), and one whose reservation
has ended is not projected, or its job cannot go on. This is where the order of a policy's deadlines is needed
(`SubmissionDeadline <= SettlementDeadline`, as `_validatePolicy` requires, `BountyEscrow.sol:168`).
That the chain implements `BountySlot` needs one more fact, `GrantInv`: what the escrow
granted was assessed, and a qualifying assessment grants something.

`OrganizationWalletProofs` proves the six properties of run `wallet` for any number of
requests. `IInv` adds to the type invariant: `JobInv` (a job works for a pending request,
what it read still holds under the lock, and a widened policy is marked),
`ChainInv` (at most one transaction is prepared and not mined, and its nonce is the next
one; what is resolved is mined; the allowance covers what is prepared) and `RowInv`
(only confirmed requests are prepared, each has its draft, outcomes are true).
`NothingIsStranded` needs that one transaction at a time is outstanding, which
needs that no job prepares one while another's is unresolved; that is what the
job remembers between its check and its preparation.

`RecoveryScanProofs` proves the five safety properties of run `recovery` for any number of
claims, blocks, faults and attempts, any page size and any lag. `IInv` adds to the types
four facts. `TerminalIsLast`: after a payment or refund nothing more happens to
the bounty, and a refund is the last event of all. `RowFollows`: the row follows an event
that is recorded, and the refund once that is. `ScanIsComplete`: the scan begins right
behind a checkpoint that covers all before it, its head is a block of the chain, and
`terminal` means that the bounty was over in that very block; so a scan past its head
has everything (`Done`), and no later block adds to it. `RequestInv`: the pass is
where its request is, attempts of a call have no gaps (else the next number might be
a used one), and what was never submitted has no transaction. The actions fall into
two kinds: those of the chain add one block (`ChainStep`), which only adds to what
happened (`Grown`); those of the job leave the chain alone and record whole
blocks or nothing (`Records`). `ReconcileKeeps` shows that recording any blocks, in
any order with any others, leaves the row at the refund: an event replaces the row
only if it is newer, and nothing is newer than the refund.

`ApiTransactionsProofs` proves the three properties of the API in `RequestsAreSafe` for any number of
connections and users: two requests of a key are never under way together
(`KeysTakeTurns`), one holds the organization's row (`RowIsExclusive`), and what the lookup
found still holds at the commit (`Decided`). That an owner remains needs finitely
many users, for the cardinality `LAST_OWNER` counts. `RequestsAreAtomic` says that the
interleaved connections implement a server which takes one request at a time: every change of
memberships and records is one whole request, answered for the first time, of an actor who is
an active owner at that moment.

`OperationsProofs` proves the five properties of run `operations` for all eight parts and any
sizes that satisfy `OperationsAssumption`. Each part has an inductive invariant of its own, and the lemmas `...Keeps...`
take it through that part's actions one by one; while one part moves the
others stand still, so that the conjunction `OperationsInv` is inductive as well.
What each invariant adds to types and properties:

- Allocation: the recommendation of which an action is made is the only live one
  (`OneIsLive`); Circle accepts a transaction only for an intent that was marked before,
  and one that succeeded consumed the approval (`TransactionsAreMarked`); an action is over for
  the reason it says (`EndsAreTrue`); what the job found at an earlier
  step still holds, since only it moves an action that is under way (`JobRemembers`);
  and a new version of an action has a new key in the outbox (`KeysAreNew`).
- Reports: no report has the files of another (`NamesAreOwn`); a transaction that writes finds its rows as
  it read them (`WritesHold`), because the sweep marks rows only under the exclusive lock;
  what rows promise is on disk (`PromisesAreKept`); and what the sweep is about to remove is
  promised by no row *whether or not it still has its lock* (`SweepIsSafe`): that the lock
  can be lost between a mark and a removal is why rows are marked first.
- Transfers: the network knows only saved transactions and a mined one used its nonce
  (`NetworkFollows`, `NoncesDiffer`), a saved one is never replaced (`SavedFollows`), and each page
  works on one that is saved (`PagesFollow`), whatever the other tabs do.
- Requests: the invariant of `ApiTransactionsProofs`.
- Drafts: what a form asks for again is what it asked for first (`FormRemembers`), so
  one draft is saved per form (`DraftIsSaved`), and drafts are checked as a whole (`DraftsAreValid`).
- Setup: the provider remembers its answers for a day, and a run that would make something began
  within it (`OneIsMade`, `MadeIsKnown`, `RunIsInTime`).
- Exports: only a crash is not counted as an attempt (`AttemptsAreCounted`), and what the job compared is still
  so when it saves (`ChecksAreTrue`).
- Assistant: a run whose records changed has the older snapshot (`AnswersAreJudged`), and one
  request at a time has counted and not yet inserted (`RoomIsKept`).

The proofs assume what the models assume: transactions are atomic, the token
moves what it reports, the two signers are trusted for what they sign, locks
exclude, the chain is read at its finalized block, and the named assumptions on the constants.

Only model-checked is liveness (`PaidIsReleased`, `PermissionIsRestored`, `RecoveryFinishes`),
which is out of the prover's reach. Only proved is `ImplementsBountySlot` of both modules: TLC does
not take a quantified refinement as a property, and the refinement's content is in
the invariants the runs check already.

## Findings

1. *`finding_hold`.* Recovery waits for an in-flight assessment by taking the lock
   `verifier:<claim>`; `FindingVerifier` uses `finding-verifier:<claim>`. An
   assessment that outlives its worker's 20 seconds can commit a held report
   after the claim's expiry was recorded; nothing resolves that hold later.
2. *`finding_reward`.* The worker and the release service accept only payments of
   the policy's whole reward; findings may be paid less. Such a claim is paid
   on-chain and its report is never opened.
3. *`large_payout`.* The quorum pauses the worker, not the escrow:
   `collectPayment` is open to anybody. After it, the job waits for signatures
   that no longer decide anything, and the report waits with it.
4. *`finding_outsider`.* `reserveClaim` and `submitAssessment` check no caller, and their
   message is public once the relayer's transaction is broadcast. If another account's copy of
   the assessment is executed first, the relayer's transaction reverts, and
   `claim-process.ts:263-270` throws on every run: only `collectPayment` has a search for
   a transaction made by others (166-177). The claim is qualified, anybody collects its
   payment, and its report is never opened.

## Limits of the code the models show, without a property

Nothing in the repository promises otherwise, so these are no findings; the
first four are hazards without a property.

- A claim job that failed eight times is not dispatched again, an approval that
  lapsed unsigned after seven days is not renewed, and an intent without a hash
  is not sent again after 23 hours.
- A draft whose funding failed on chain keeps that request as its active one and
  cannot be funded again.
- A claim whose rejection was presented by another account stays ASSESSED, because its
  job never records the event: it keeps the bounty's projected slot, and the next claim's
  reservation cannot be recorded.
- An owner command whose confirmation lapses after its intent was prepared and
  before it was signed keeps an unfinished intent, so that later requests of the
  wallet wait.
- An allocation that FAILED is not queued again for the same policy.
- The findings form computes its deadline again when it is submitted again after
  a lost answer, and is then refused for a changed input.
- A stale BROADCAST may be written over CONFIRMED; the next run checks the
  receipt again and repairs it.
- An assistant run that crashed twice stays RUNNING; it counts towards the limit of
  runs under way for an hour.
- Idempotency records have an expiry that nothing consults, and are never deleted.

## Not modelled, and why

Validity of evidence, the measurement of findings, the AI answers and the cryptography are
nondeterministic verdicts and signed records: what they compute is data. Expiry of
approvals, provider windows, search limits and exhausted retries of claim jobs are
wall-clock bounds or counters as large as their limits (listed as hazards).
Reorganisations below finality do not occur, because all readers use the finalized
block. The integrity checks of saved policies and intents against their hashes
always succeed, since nothing in the models alters a saved row. Sign-in, sessions and read-only
routes change no state of the protocol; the contract ABIs are generated; the web
application is display except the two pages that carry protocol state; test contracts,
seeds, scripts and deployment keep none. Rate limits and request parsing end a
request before it does anything.

## Order of work

Done, in this order: `RewardLedger`, `BountyEscrow` and its proofs; `ClaimSettlement`;
`FundingBudgetController` and its proofs; `OrganizationWallet`, `RecoveryScan`,
`BudgetAllocation`, `ReportLifecycle`, `UserTransfers`, `ApiTransactions`, `BountyDrafting`,
`WalletSetup`, `ReceiptExport`, `AssistantRuns`; `BountySlot`; proofs about
`ApiTransactions`, `OrganizationWallet`, `ClaimSettlement`, `RecoveryScan` and the parts of
`Operations`.

Left, most important first: what the promise of `BountySlot` implies by itself (one grant per
bounty, to a claim that held the slot in time), so that both users inherit it; programs and tiers
of the API; a clock of days for approvals.
