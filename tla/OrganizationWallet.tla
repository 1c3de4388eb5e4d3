------------------------- MODULE OrganizationWallet -------------------------
(***************************************************************************)
(* The Privy wallet of an organization, and the two kinds of request that  *)
(* spend it: the funding of a bounty draft (services/treasury/src/fund.ts, *)
(* two transactions: a token approval and createAndFund) and a command to  *)
(* the organization's budget controller (services/budget/src/              *)
(* owner-process.ts, one transaction, for whose signature the provider's   *)
(* policy is widened for a moment).  Both are confirmed by a member with a *)
(* signature that lapses after ten minutes, both run as retried jobs under *)
(* the advisory lock treasury-wallet:<wallet>, and both share the wallet's *)
(* nonces, its balance and the allowance it gives the escrow.              *)
(*                                                                         *)
(* One action is one database transaction, one chain read with the write   *)
(* that depends on it, or one provider call.  A job may crash between any  *)
(* two; the requests, the members' confirmations and the clock go on while *)
(* it runs.  A reverted or unproven authorization, and the checks of the   *)
(* saved terms against the confirmation, end the job and change nothing.   *)
(***************************************************************************)
EXTENDS Integers, FiniteSets

CONSTANTS
  Funding,      \* ids of funding requests, numbers in the order of creation
  Command,      \* ids of owner requests, likewise
  Draft,        \* approved bounty drafts
  RewardOf,     \* the reward of each draft's policy
  Kind,         \* kinds of owner command that occur
  Amount,       \* of a deposit or a withdrawal
  MaxPerAction, \* the cap in the wallet's configuration
  Funds,        \* what the wallet holds at first
  MaxFaults,    \* bound on crashes and dropped transactions
  Nobody        \* no request

Request == Funding \cup Command

ASSUME WalletAssumption ==
  /\ Funding \subseteq Nat /\ Command \subseteq Nat
  /\ Nobody \notin Request /\ Funding \cap Command = {}
  /\ RewardOf \in [Draft -> Nat \ {0}]
  /\ Amount \in Nat \ {0} /\ MaxPerAction \in Nat /\ Funds \in Nat /\ MaxFaults \in Nat
  /\ Kind \subseteq {"SET_LIMITS", "SET_ENABLED", "APPROVE_POLICY", "DEPOSIT", "WITHDRAW"}

\* A transaction is named by its request and its step: the key under which the
\* provider signs it, `${fundingId}:${kind}` or owner:${requestId}.
StepOf(r) == IF r \in Funding THEN {"APPROVE", "FUND"} ELSE {"OWNER"}
Tx == {t \in Request \X {"APPROVE", "FUND", "OWNER"} : t[2] \in StepOf(t[1])}

FundingState == {"NONE", "AWAITING_AUTHORIZATION", "QUEUED", "APPROVING", "FUNDING",
                 "FUNDED", "CANCELLED", "EXPIRED", "FAILED"}
OwnerState == {"NONE", "AWAITING_AUTHORIZATION", "QUEUED", "SIGNING", "SIGNED",
               "CONFIRMING", "COMPLETE", "CANCELLED", "EXPIRED", "FAILED"}
IntentState == {"NONE", "AWAITING_SIGNATURE", "SIGNED", "SUBMITTED", "BROADCAST",
                "CONFIRMED", "FAILED"}

VARIABLES
  faults,       \* faults so far
  state,        \* funding_requests.state, owner_requests.state
  draft,        \* funding_requests.draft_id
  kind,         \* owner_requests.command_json
  lapsed,       \* authorization_expires_at, or the bounty's deadline, has passed
  marked,       \* owner_requests.permission_pending
  intent,       \* transaction_intents.state
  nonce,        \* transaction_intents.sender_nonce
  rule,         \* the provider's policy: the treasury's (Nobody) or widened
                \* for one command
  job,          \* the job that holds treasury-wallet:<wallet>
  mempool,      \* transactions the network has and has not mined
  mined,        \* the final outcome of each transaction
  next,         \* the wallet's next nonce on chain
  allowance,    \* what the escrow may take from the wallet
  pool, budget, \* the balances of the wallet and of the controller
  funded        \* drafts whose bounty exists on chain

dbVars    == <<state, draft, kind, marked, intent, nonce>>
chainVars == <<mempool, mined, next, allowance, pool, budget, funded>>
vars == <<faults, lapsed, rule, job, dbVars, chainVars>>

NoJob == [of |-> Nobody, at |-> "IDLE", step |-> "NONE"]
Job(r, at, step) == [of |-> r, at |-> at, step |-> step]

Init ==
  /\ faults = 0
  /\ state = [r \in Request |-> "NONE"]
  /\ draft = [f \in Funding |-> Nobody]
  /\ kind = [c \in Command |-> "NONE"]
  /\ lapsed = [r \in Request |-> FALSE]
  /\ marked = [c \in Command |-> FALSE]
  /\ intent = [t \in Tx |-> "NONE"]
  /\ nonce = [t \in Tx |-> 0]
  /\ rule = Nobody
  /\ job = NoJob
  /\ mempool = {} /\ mined = [t \in Tx |-> "NO"] /\ next = 0
  /\ allowance = 0 /\ pool = Funds /\ budget = 0 /\ funded = {}

-----------------------------------------------------------------------------
(* The calls, and what the provider's policy lets the wallet sign.         *)

\* What a command calls, and the event by which its receipt is recognized.
OwnerCall(k) ==
  CASE k = "SET_LIMITS"     -> <<"controller", "setLimits">>
    [] k = "SET_ENABLED"    -> <<"controller", "setEnabled">>
    [] k = "APPROVE_POLICY" -> <<"controller", "approvePolicy">>
    [] k = "DEPOSIT"        -> <<"asset", "transfer">>
    [] k = "WITHDRAW"       -> <<"controller", "withdrawUnallocated">>

CallOf(t) ==
  CASE t[2] = "APPROVE" -> <<"asset", "approve">>
    [] t[2] = "FUND"    -> <<"escrow", "createAndFund">>
    [] t[2] = "OWNER"   -> OwnerCall(kind[t[1]])

TreasuryRules == {<<"asset", "approve">>, <<"escrow", "createAndFund">>}

WithinCap(d) == RewardOf[d] <= MaxPerAction

\* A command must be within the cap as well, except that what is withdrawn
\* comes back to the wallet.
ValidOwnerCommand(k) == k \in {"DEPOSIT", "SET_LIMITS", "APPROVE_POLICY"} => Amount <= MaxPerAction

\* The widened policy allows the command's own call as well, until the
\* confirmation lapses.
OwnerPermissionRules(c) ==
  TreasuryRules \cup (IF lapsed[c] THEN {} ELSE {OwnerCall(kind[c])})

Permits(t) ==
  /\ CallOf(t) \in IF rule = Nobody THEN TreasuryRules ELSE OwnerPermissionRules(rule)
  /\ t[1] \in Funding => WithinCap(draft[t[1]])

\* The provider's policy is exactly the treasury's, as every new signature
\* requires.
Verified == rule = Nobody

-----------------------------------------------------------------------------
(* The chain.                                                              *)

Reward(f) == RewardOf[draft[f]]

CanExecute(t) ==
  CASE t[2] = "APPROVE" -> TRUE
    [] t[2] = "FUND" ->
         /\ draft[t[1]] \notin funded
         /\ allowance >= Reward(t[1]) /\ pool >= Reward(t[1])
    [] t[2] = "OWNER" ->
         /\ kind[t[1]] = "DEPOSIT" => pool >= Amount
         /\ kind[t[1]] = "WITHDRAW" => budget >= Amount

Execute(t) ==
  /\ allowance' = CASE t[2] = "APPROVE" -> Reward(t[1])
                    [] t[2] = "FUND"    -> allowance - Reward(t[1])
                    [] OTHER            -> allowance
  /\ funded' = IF t[2] = "FUND" THEN funded \cup {draft[t[1]]} ELSE funded
  /\ LET moved == CASE t[2] = "FUND" -> Reward(t[1])
                    [] t[2] = "OWNER" /\ kind[t[1]] = "DEPOSIT"  -> Amount
                    [] t[2] = "OWNER" /\ kind[t[1]] = "WITHDRAW" -> 0 - Amount
                    [] OTHER -> 0
     IN /\ pool' = pool - moved
        /\ budget' = IF t[2] = "OWNER" THEN budget + moved ELSE budget

\* A transaction whose turn it is becomes final.  It may revert for reasons of
\* its own: it ran out of gas, its bounty's deadline passed.
Mine(t) ==
  /\ t \in mempool /\ nonce[t] = next
  /\ mempool' = mempool \ {t}
  /\ next' = next + 1
  /\ \/ /\ CanExecute(t) /\ Execute(t)
        /\ mined' = [mined EXCEPT ![t] = "OK"]
     \/ /\ mined' = [mined EXCEPT ![t] = "REVERTED"]
        /\ UNCHANGED <<allowance, pool, budget, funded>>
  /\ UNCHANGED <<faults, lapsed, rule, job, dbVars>>

\* The network forgets a transaction it has not mined.
Drop(t) ==
  /\ t \in mempool
  /\ faults < MaxFaults /\ faults' = faults + 1
  /\ mempool' = mempool \ {t}
  /\ UNCHANGED <<lapsed, rule, job, dbVars, mined, next, allowance, pool, budget, funded>>

\* getTransactionCount at the block tag "pending".
PendingNonce == next + Cardinality(mempool)

-----------------------------------------------------------------------------
(* The requests and the members who confirm them.                          *)

\* State with the unconfirmed, lapsed requests of rs expired.
Expired(rs) ==
  [r \in Request |->
     IF r \in rs /\ state[r] = "AWAITING_AUTHORIZATION" /\ lapsed[r]
     THEN "EXPIRED" ELSE state[r]]

\* The states the indexes one_active_funding_request and
\* one_active_owner_request leave out.
OverFunding == {"NONE", "CANCELLED", "EXPIRED"}
OverOwner   == {"NONE", "COMPLETE", "CANCELLED", "EXPIRED", "FAILED"}

\* What lapses after a request is over has no effect and is left out.
Lapse(r) ==
  /\ state[r] \notin OverOwner \cup {"FUNDED"} /\ ~lapsed[r]
  /\ lapsed' = [lapsed EXCEPT ![r] = TRUE]
  /\ UNCHANGED <<faults, rule, job, dbVars, chainVars>>

RequestFunding(f, d) ==
  LET others == {g \in Funding \ {f} : draft[g] = d} IN
  /\ WithinCap(d)
  /\ state[f] = "NONE" /\ \A g \in Funding : g < f => state[g] # "NONE"
  /\ \A g \in others : Expired(others)[g] \in OverFunding
  /\ state' = [Expired(others) EXCEPT ![f] = "AWAITING_AUTHORIZATION"]
  /\ draft' = [draft EXCEPT ![f] = d]
  /\ UNCHANGED <<faults, lapsed, rule, job, kind, marked, intent, nonce, chainVars>>

RequestOwner(c, k) ==
  LET others == Command \ {c} IN
  /\ ValidOwnerCommand(k)
  /\ state[c] = "NONE" /\ \A d \in Command : d < c => state[d] # "NONE"
  /\ \A d \in others : Expired(others)[d] \in OverOwner
  /\ state' = [Expired(others) EXCEPT ![c] = "AWAITING_AUTHORIZATION"]
  /\ kind' = [kind EXCEPT ![c] = k]
  /\ UNCHANGED <<faults, lapsed, rule, job, draft, marked, intent, nonce, chainVars>>

MoveRow(r, s) ==
  /\ state' = [state EXCEPT ![r] = s]
  /\ UNCHANGED <<faults, lapsed, rule, job, draft, kind, marked, intent, nonce, chainVars>>

AuthorizeFunding(f) ==
  /\ state[f] = "AWAITING_AUTHORIZATION" /\ ~lapsed[f]
  /\ MoveRow(f, "QUEUED")

AuthorizeOwner(c) ==
  /\ state[c] = "AWAITING_AUTHORIZATION" /\ ~lapsed[c]
  /\ MoveRow(c, "QUEUED")

CancelFunding(f) ==
  /\ state[f] = "AWAITING_AUTHORIZATION"
  /\ MoveRow(f, "CANCELLED")

\* A faulty variant: a cancellation does not take the lock.
CancelUnlocked(c) ==
  /\ state[c] \in {"AWAITING_AUTHORIZATION", "QUEUED"}
  /\ intent[<<c, "OWNER">>] = "NONE" /\ ~marked[c]
  /\ MoveRow(c, "CANCELLED")

\* Taken under the wallet's lock: no job of the wallet is between its reads.
CancelOwner(c) ==
  /\ job = NoJob
  /\ state[c] \in {"AWAITING_AUTHORIZATION", "QUEUED"}
  /\ intent[<<c, "OWNER">>] = "NONE" /\ ~marked[c]
  /\ MoveRow(c, "CANCELLED")

Member ==
  \/ \E f \in Funding : \/ \E d \in Draft : RequestFunding(f, d)
                        \/ AuthorizeFunding(f) \/ CancelFunding(f)
  \/ \E c \in Command : \/ \E k \in Kind : RequestOwner(c, k)
                        \/ AuthorizeOwner(c) \/ CancelOwner(c)

-----------------------------------------------------------------------------
(* A job: its start, its end, and the checks before a new signature.       *)

req == job.of
tx == <<job.of, job.step>>

Goto(at) == job' = [job EXCEPT !.at = at]

Unsigned  == intent[tx] \in {"NONE", "AWAITING_SIGNATURE"}
Signed    == ~Unsigned

\* The states in which a job of the request is to be run: the queue holds one
\* since the confirmation and retries it when it throws, and the member may put
\* another one there.
FundingPending == {"QUEUED", "APPROVING", "FUNDING"}
OwnerPending   == {"QUEUED", "SIGNING", "SIGNED", "CONFIRMING"}

\* fund.ts returns the rows a member has still to confirm and those that are
\* over, and goes through both steps of every other one, the first again.
StartFunding(f) ==
  /\ job = NoJob
  /\ state[f] \in FundingPending
  /\ job' = Job(f, "STEP", "APPROVE")
  /\ UNCHANGED <<faults, lapsed, rule, dbVars, chainVars>>

\* A faulty variant: a run does not repair what the last one
\* left behind.
StartWithoutRepair(c) ==
  /\ job = NoJob
  /\ state[c] \in OwnerPending
  /\ job' = Job(c, "STEP", "OWNER")
  /\ UNCHANGED <<faults, lapsed, rule, dbVars, chainVars>>

\* owner-process.ts takes up a row that is over as well, when the policy may
\* still be widened for it, and first of all narrows it again.
StartOwner(c) ==
  /\ job = NoJob
  /\ \/ state[c] \in OwnerPending
     \/ marked[c]
  /\ job' = Job(c, IF marked[c] THEN "REPAIR" ELSE "STEP", "OWNER")
  /\ UNCHANGED <<faults, lapsed, rule, dbVars, chainVars>>

\* authorizeNewSignature: besides this the member must still have the role and
\* the wallet must be ready, which Refuse leaves open.
AuthorizeNewSignature == ~lapsed[req] /\ Verified

\* authorizeNew: also the command must still make sense.
AuthorizeNew ==
  /\ ~lapsed[req] /\ Verified
  /\ ValidOwnerCommand(kind[req])
  /\ kind[req] = "WITHDRAW" => budget >= Amount
  /\ kind[req] = "DEPOSIT" => pool >= Amount

Allowed == IF req \in Funding THEN AuthorizeNewSignature ELSE AuthorizeNew

\* Intents of the wallet which are not resolved.
Pending == {u \in Tx : intent[u] \notin {"NONE", "CONFIRMED", "FAILED"}}

\* A faulty variant: only the nonces must differ.
MayPrepareAnother(n) == \A u \in Tx : intent[u] # "NONE" => nonce[u] # n

\* The index privy_owner_nonce_unique, and no pending intent of the wallet.
MayPrepare(n) ==
  /\ Pending = {}
  /\ \A u \in Tx : intent[u] # "NONE" => nonce[u] # n

SaveIntent(n, s) ==
  /\ intent' = [intent EXCEPT ![tx] = "AWAITING_SIGNATURE"]
  /\ nonce' = [nonce EXCEPT ![tx] = n]
  /\ state' = [state EXCEPT ![req] = s]
  /\ UNCHANGED <<faults, lapsed, rule, job, draft, kind, marked, chainVars>>

\* A faulty variant: the gas is a constant, not an estimate.
PrepareUnestimated ==
  /\ req \in Funding /\ job.at = "STEP" /\ intent[tx] = "NONE"
  /\ AuthorizeNewSignature
  /\ MayPrepare(PendingNonce)
  /\ pool >= Reward(req)
  /\ SaveIntent(PendingNonce, IF job.step = "APPROVE" THEN "APPROVING" ELSE "FUNDING")

\* The estimate of the gas runs the call, so a call that would fail is never
\* prepared.
PrepareFunding ==
  /\ req \in Funding /\ job.at = "STEP" /\ intent[tx] = "NONE"
  /\ AuthorizeNewSignature
  /\ MayPrepare(PendingNonce)
  /\ pool >= Reward(req) /\ CanExecute(tx)
  /\ SaveIntent(PendingNonce, IF job.step = "APPROVE" THEN "APPROVING" ELSE "FUNDING")

PrepareOwner ==
  /\ req \in Command /\ job.at = "STEP" /\ intent[tx] = "NONE"
  /\ AuthorizeNew
  /\ MayPrepare(PendingNonce)
  /\ CanExecute(tx)
  /\ SaveIntent(PendingNonce, "SIGNING")

\* A faulty variant: a lapsed request expires whatever was
\* prepared for it.
RefuseAndExpire ==
  /\ job.at = "STEP"
  /\ Unsigned \/ intent[tx] \in {"SIGNED", "FAILED"}
  /\ state' = IF req \in Command /\ lapsed[req]
              THEN [state EXCEPT ![req] = "EXPIRED"] ELSE state
  /\ job' = NoJob
  /\ UNCHANGED <<faults, lapsed, rule, draft, kind, marked, intent, nonce, chainVars>>

\* A check says no.  The job ends; an owner request that has lapsed before
\* anything was prepared for it is over.
Refuse ==
  /\ job.at = "STEP"
  /\ Unsigned \/ intent[tx] \in {"SIGNED", "FAILED"}
  /\ \/ UNCHANGED state
     \/ /\ req \in Command /\ lapsed[req]
        /\ intent[tx] = "NONE" /\ ~marked[req]
        /\ state' = [state EXCEPT ![req] = "EXPIRED"]
  /\ job' = NoJob
  /\ UNCHANGED <<faults, lapsed, rule, draft, kind, marked, intent, nonce, chainVars>>

-----------------------------------------------------------------------------
(* Signing.                                                                *)

CheckFunding ==
  /\ req \in Funding /\ job.at = "STEP" /\ intent[tx] = "AWAITING_SIGNATURE"
  /\ AuthorizeNewSignature
  /\ Goto("SIGN")
  /\ UNCHANGED <<faults, lapsed, rule, dbVars, chainVars>>

\* The provider signs, and signature and state are saved together.
SignFunding ==
  /\ req \in Funding /\ job.at = "SIGN" /\ Permits(tx)
  /\ intent' = [intent EXCEPT ![tx] = "SIGNED"]
  /\ Goto("STEP")
  /\ UNCHANGED <<faults, lapsed, rule, state, draft, kind, marked, nonce, chainVars>>

\* A faulty variant: the mark is left to the end.
WidenUnmarked ==
  /\ req \in Command /\ job.at = "STEP" /\ intent[tx] = "AWAITING_SIGNATURE"
  /\ AuthorizeNew
  /\ Goto("WIDEN")
  /\ UNCHANGED <<faults, lapsed, rule, dbVars, chainVars>>

MarkOwner ==
  /\ req \in Command /\ job.at = "STEP" /\ intent[tx] = "AWAITING_SIGNATURE"
  /\ AuthorizeNew
  /\ marked' = [marked EXCEPT ![req] = TRUE]
  /\ Goto("WIDEN")
  /\ UNCHANGED <<faults, lapsed, rule, state, draft, kind, intent, nonce, chainVars>>

\* The provider's policy is replaced only if it is one of the two it may be.
SetOwnerPermission ==
  /\ job.at = "WIDEN" /\ ~lapsed[req]
  /\ rule \in {Nobody, req}
  /\ rule' = req
  /\ Goto("SIGN")
  /\ UNCHANGED <<faults, lapsed, dbVars, chainVars>>

\* A faulty variant: the request is given the state of a
\* funding request.
SignAsFunding ==
  /\ req \in Command /\ job.at = "SIGN" /\ Permits(tx)
  /\ intent' = [intent EXCEPT ![tx] = "SIGNED"]
  /\ state' = [state EXCEPT ![req] = "FUNDING"]
  /\ Goto("RESTORE")
  /\ UNCHANGED <<faults, lapsed, rule, draft, kind, marked, nonce, chainVars>>

SignOwner ==
  /\ req \in Command /\ job.at = "SIGN" /\ Permits(tx)
  /\ intent' = [intent EXCEPT ![tx] = "SIGNED"]
  /\ state' = [state EXCEPT ![req] = "SIGNED"]
  /\ Goto("RESTORE")
  /\ UNCHANGED <<faults, lapsed, rule, draft, kind, marked, nonce, chainVars>>

\* The provider refuses or fails: the "finally" narrows the policy all the same.
FailToSign ==
  /\ job.at \in {"WIDEN", "SIGN"}
  /\ IF req \in Command THEN Goto("RESTORE") ELSE job' = NoJob
  /\ UNCHANGED <<faults, lapsed, rule, dbVars, chainVars>>

RestoreOwnerPermission ==
  /\ job.at \in {"REPAIR", "RESTORE"}
  /\ rule \in {Nobody, req}
  /\ rule' = Nobody
  /\ Goto(IF job.at = "REPAIR" THEN "REPAIRED" ELSE "RESTORED")
  /\ UNCHANGED <<faults, lapsed, dbVars, chainVars>>

\* The mark goes after the policy; then a repair goes on with the request, and
\* so does a signature, while a failure to sign ends the job.
Unmark ==
  /\ job.at \in {"REPAIRED", "RESTORED"}
  /\ marked' = [marked EXCEPT ![req] = FALSE]
  /\ IF job.at = "RESTORED" /\ Unsigned THEN job' = NoJob ELSE Goto("STEP")
  /\ UNCHANGED <<faults, lapsed, rule, state, draft, kind, intent, nonce, chainVars>>

-----------------------------------------------------------------------------
(* Broadcast and receipt.                                                  *)

\* The states in which the same bytes may be sent again unasked.
MayResend ==
  intent[tx] \in {"SUBMITTED", "BROADCAST"}
                  \cup (IF req \in Funding THEN {"CONFIRMED"} ELSE {})

\* No final receipt: there is none, or the node that was asked does not know.
Submit ==
  /\ job.at = "STEP" /\ Signed
  /\ MayResend \/ Allowed
  /\ intent' = [intent EXCEPT ![tx] = "SUBMITTED"]
  /\ state' = IF req \in Command THEN [state EXCEPT ![req] = "CONFIRMING"] ELSE state
  /\ Goto("SEND")
  /\ UNCHANGED <<faults, lapsed, rule, draft, kind, marked, nonce, chainVars>>

Known == tx \in mempool \/ mined[tx] # "NO"

\* The node takes the bytes, or refuses them because it has them already.  A
\* lost answer is this followed by a crash.
Broadcast ==
  /\ job.at = "SEND"
  /\ IF Known THEN job' = NoJob /\ UNCHANGED mempool
     ELSE mempool' = mempool \cup {tx} /\ Goto("SENT")
  /\ UNCHANGED <<faults, lapsed, rule, dbVars, mined, next, allowance, pool, budget, funded>>

RecordBroadcast ==
  /\ job.at = "SENT"
  /\ intent' = [intent EXCEPT ![tx] = "BROADCAST"]
  /\ Goto("RECEIPT")
  /\ UNCHANGED <<faults, lapsed, rule, state, draft, kind, marked, nonce, chainVars>>

AwaitReceipt ==
  /\ job.at = "RECEIPT"
  /\ job' = NoJob
  /\ UNCHANGED <<faults, lapsed, rule, dbVars, chainVars>>

Final(outcome) ==
  /\ (job.at = "STEP" /\ Signed) \/ job.at = "RECEIPT"
  /\ mined[tx] = outcome

\* A reverted transaction: first the intent, then the request.
RecordReverted ==
  /\ Final("REVERTED")
  /\ intent' = [intent EXCEPT ![tx] = "FAILED"]
  /\ Goto("REVERTED")
  /\ UNCHANGED <<faults, lapsed, rule, state, draft, kind, marked, nonce, chainVars>>

FailRequest ==
  /\ job.at = "REVERTED"
  /\ state' = [state EXCEPT ![req] = "FAILED"]
  /\ job' = NoJob
  /\ UNCHANGED <<faults, lapsed, rule, draft, kind, marked, intent, nonce, chainVars>>

\* The events by which a receipt proves the two steps of a funding.
FundingReceipt(step) == IF step = "APPROVE" THEN {"Approval"} ELSE {"BountyFunded", "Transfer"}

\* The event a receipt must carry to prove the command.
OwnerReceipt(k) ==
  CASE k \in {"SET_LIMITS", "SET_ENABLED"} -> {"BudgetSettingsChanged"}
    [] k = "APPROVE_POLICY" -> {"PolicyApproved"}
    [] k = "DEPOSIT"        -> {"Transfer"}
    [] k = "WITHDRAW"       -> {"Transfer", "BudgetWithdrawn"}

\* The events of the functions that are called.
Emitted(call) ==
  CASE call[2] = "approve"                     -> {"Approval"}
    [] call[2] = "createAndFund"               -> {"BountyFunded", "Transfer"}
    [] call[2] \in {"setLimits", "setEnabled"} -> {"BudgetSettingsChanged"}
    [] call[2] = "approvePolicy"               -> {"PolicyApproved"}
    [] call[2] = "transfer"                    -> {"Transfer"}
    [] call[2] = "withdrawUnallocated"         -> {"Transfer", "BudgetWithdrawn"}

\* The approval is proved and the job goes on with the funding; the funding is
\* proved and the bounty is recorded next.
ConfirmFunding ==
  /\ req \in Funding /\ Final("OK")
  /\ FundingReceipt(job.step) \subseteq Emitted(CallOf(tx))
  /\ intent' = [intent EXCEPT ![tx] = "CONFIRMED"]
  /\ job' = IF job.step = "APPROVE" THEN Job(req, "STEP", "FUND") ELSE Job(req, "RECORD", "FUND")
  /\ UNCHANGED <<faults, lapsed, rule, state, draft, kind, marked, nonce, chainVars>>

RecordFunding ==
  /\ job.at = "RECORD"
  /\ state' = [state EXCEPT ![req] = "FUNDED"]
  /\ job' = NoJob
  /\ UNCHANGED <<faults, lapsed, rule, draft, kind, marked, intent, nonce, chainVars>>

CompleteOwner ==
  /\ req \in Command /\ Final("OK")
  /\ OwnerReceipt(kind[req]) \subseteq Emitted(CallOf(tx))
  /\ intent' = [intent EXCEPT ![tx] = "CONFIRMED"]
  /\ state' = [state EXCEPT ![req] = "COMPLETE"]
  /\ job' = NoJob
  /\ UNCHANGED <<faults, lapsed, rule, draft, kind, marked, nonce, chainVars>>

\* The process dies, its connection is lost or a call fails: the lock goes with
\* the session, and what was committed stays.
Crash ==
  /\ job # NoJob
  /\ faults < MaxFaults /\ faults' = faults + 1
  /\ job' = NoJob
  /\ UNCHANGED <<lapsed, rule, dbVars, chainVars>>

Step ==
  \/ PrepareFunding \/ PrepareOwner \/ Refuse
  \/ CheckFunding \/ SignFunding
  \/ MarkOwner \/ SetOwnerPermission \/ SignOwner \/ FailToSign
  \/ RestoreOwnerPermission \/ Unmark
  \/ Submit \/ Broadcast \/ RecordBroadcast \/ AwaitReceipt
  \/ RecordReverted \/ FailRequest
  \/ ConfirmFunding \/ RecordFunding \/ CompleteOwner

JobStep == job # NoJob /\ Step

Next ==
  \/ Member
  \/ \E f \in Funding : StartFunding(f)
  \/ \E c \in Command : StartOwner(c)
  \/ JobStep \/ Crash
  \/ \E u \in Tx : Mine(u) \/ Drop(u)
  \/ \E q \in Request : Lapse(q)

Spec == Init /\ [][Next]_vars

\* The queue retries a job that throws, and so does the member's retry route;
\* a job that finds the lock taken is retried too, so one that keeps being
\* started finds it free in the end.  A job that runs goes on to its end.
Fairness ==
  /\ \A c \in Command : SF_vars(StartOwner(c))
  /\ WF_vars(JobStep)

FairSpec == Spec /\ Fairness

-----------------------------------------------------------------------------
(* Properties.                                                             *)

\* The type invariant.
TypeOK ==
  /\ faults \in 0..MaxFaults
  /\ state \in [Request -> FundingState \cup OwnerState]
  /\ \A f \in Funding : state[f] \in FundingState
  /\ \A c \in Command : state[c] \in OwnerState
  /\ draft \in [Funding -> Draft \cup {Nobody}]
  /\ kind \in [Command -> Kind \cup {"NONE"}]
  /\ lapsed \in [Request -> BOOLEAN] /\ marked \in [Command -> BOOLEAN]
  /\ intent \in [Tx -> IntentState] /\ nonce \in [Tx -> Nat]
  /\ rule \in Command \cup {Nobody}
  /\ job \in [of : Request \cup {Nobody},
              at : {"IDLE", "STEP", "SIGN", "WIDEN", "REPAIR", "RESTORE", "REPAIRED",
                    "RESTORED", "SEND", "SENT", "RECEIPT", "REVERTED", "RECORD"},
              step : {"NONE", "APPROVE", "FUND", "OWNER"}]
  /\ mempool \subseteq Tx /\ mined \in [Tx -> {"NO", "OK", "REVERTED"}]
  /\ {next, allowance, pool, budget} \subseteq Nat /\ funded \subseteq Draft

\* Whenever the provider's policy is wider than the treasury's, wherever the
\* job was interrupted, it is so for one request which is marked and not over,
\* so that the next run of that request narrows it.
PermissionIsTracked ==
  rule # Nobody => marked[rule] /\ state[rule] \notin OverOwner

\* A signed transaction is never stranded: until it is final its nonce is the
\* wallet's next one, whatever other requests did and whatever the network
\* dropped, so that sending the same bytes again can always succeed.
NothingIsStranded ==
  \A u \in Tx :
    intent[u] \in {"SIGNED", "SUBMITTED", "BROADCAST"} /\ mined[u] = "NO" => nonce[u] = next

\* From the moment a funding transaction is prepared until it is final, the
\* escrow's allowance covers its reward: no other request of the wallet lowers
\* or spends it in between.
AllowanceIsKept ==
  \A f \in Funding :
    LET u == <<f, "FUND">> IN
    intent[u] # "NONE" /\ mined[u] = "NO" => allowance >= Reward(f)

\* A request that is over says what happened on chain: a funded draft has its
\* bounty and a complete command was executed, a failed one had a transaction
\* reverted, and one that was cancelled or expired has signed nothing, though
\* its member cancelled while jobs were starting and stopping.
OutcomesAreTrue ==
  /\ \A f \in Funding :
       /\ state[f] = "FUNDED" => mined[<<f, "FUND">>] = "OK"
       /\ state[f] = "FAILED" => \E s \in {"APPROVE", "FUND"} : mined[<<f, s>>] = "REVERTED"
       /\ state[f] \in {"CANCELLED", "EXPIRED"} => intent[<<f, "APPROVE">>] = "NONE"
  /\ \A c \in Command :
       /\ state[c] = "COMPLETE" => mined[<<c, "OWNER">>] = "OK"
       /\ state[c] = "FAILED" => mined[<<c, "OWNER">>] = "REVERTED"
       /\ state[c] \in {"CANCELLED", "EXPIRED"} => intent[<<c, "OWNER">>] = "NONE"

\* A request that is over stays over: no job that was running when its member
\* cancelled it, or when it expired, takes it up again.
OverIsOver ==
  [][\A q \in Request :
       state[q] \in {"FUNDED", "COMPLETE", "CANCELLED", "EXPIRED", "FAILED"}
         => state'[q] = state[q]]_vars

\* A policy that was widened is narrowed again in the end, even if every run
\* that widened it crashed.
PermissionIsRestored == rule # Nobody ~> rule = Nobody
=============================================================================
