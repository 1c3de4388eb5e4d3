-------------------------- MODULE BudgetAllocation --------------------------
(***************************************************************************)
(* How an organization's budget funds coverage by itself, for one vault:   *)
(* a refresh compares the funded bounties with the required reward         *)
(* (services/coverage) and recommends an approved policy; the             *)
(* recommendation is enqueued as an action, an outbox row and a job; the   *)
(* job (services/budget/src/allocate.ts) checks everything again, has      *)
(* Circle call fundApprovedPolicy, and records the final allocation.       *)
(*                                                                         *)
(* One action is one database statement or transaction, with the chain     *)
(* reads before it, or one call of the provider.  The job holds the lock   *)
(* budget-allocation:<controller> and may crash between any two steps; the *)
(* rest of the system does not wait for it.  Reads of the chain see its    *)
(* finalized state.  The checks of the saved policy, intent and wallets    *)
(* against their hashes always hold here and are left out, as are the      *)
(* minimum interval and the operator's gas.                                *)
(***************************************************************************)
EXTENDS Integers, FiniteSets, FiniteSetsExt

CONSTANTS
  Policy,       \* policies of approved drafts that return to the controller
  RewardOf,     \* their rewards
  MinReward,    \* the reward the organization wants funded for the vault
  Budget,       \* what the controller's balance and limits allow in all
  MaxRecs, MaxVersions, MaxFaults, MaxEvents   \* bounds of the instance

ASSUME AllocationAssumption ==
  /\ Policy \subseteq Nat
  /\ RewardOf \in [Policy -> Nat \ {0}]
  /\ {MinReward, Budget, MaxRecs, MaxVersions, MaxFaults, MaxEvents} \subseteq Nat
  /\ MinReward > 0

ActionState == {"NONE", "QUEUED", "PREPARED", "SUBMITTED", "CONFIRMING",
                "COMPLETE", "REJECTED", "FAILED"}
Pending == {"QUEUED", "PREPARED", "SUBMITTED", "CONFIRMING"}
IntentState == {"NONE", "PREPARED", "SUBMITTED", "BROADCAST",
                "CONFIRMED", "RECONCILED", "REVERTED"}
ApprovedState == {"NONE", "CURRENT", "LAPSED", "CONSUMED"}

VARIABLES
  approval,     \* the controller's approval of each policy, unless consumed
  consumed,     \* whether it was consumed, and finally
  consumer,     \* by the job's transaction or by another of the operator
  enabled,      \* FundingBudgetController.enabled, and its finalized value
  enabledFinal,
  tx,           \* the transaction Circle made for each policy
  accepted,     \* how many it made
  projection,   \* budget_controllers.enabled
  approved,     \* approved_allocations
  bounty,       \* bounties
  rec,          \* recommendations with an action, in the order of creation
  action,       \* agent_actions: state, recommendation and version
  intent,       \* transaction_intents.state
  old,          \* intents of more than 23 hours
  outbox,       \* BUDGET_ALLOCATION rows: processed or not
  queue,        \* budget-allocation jobs
  dropped,      \* jobs that failed for the eighth time
  job,          \* the job that holds the controller's lock
  faults, events

chainVars == <<approval, consumed, consumer, enabled, enabledFinal, tx, accepted>>
dbVars == <<projection, approved, bounty, rec, action, intent, old>>
jobVars == <<outbox, queue, dropped, job>>
vars == <<chainVars, dbVars, jobVars, faults, events>>

Rec == 1 .. MaxRecs
Idle == [of |-> 0, at |-> "IDLE", permitted |-> FALSE]

Init ==
  /\ approval = [p \in Policy |-> "NONE"]
  /\ consumed = [p \in Policy |-> "NO"] /\ consumer = [p \in Policy |-> "NOBODY"]
  /\ enabled = TRUE /\ enabledFinal = TRUE
  /\ tx = [p \in Policy |-> "NONE"] /\ accepted = [p \in Policy |-> 0]
  /\ projection = TRUE
  /\ approved = [p \in Policy |-> "NONE"] /\ bounty = [p \in Policy |-> "NONE"]
  /\ rec = [n \in Rec |-> [status |-> "NONE", policy |-> 0]]
  /\ action = [p \in Policy |-> [state |-> "NONE", rec |-> 0, version |-> 0]]
  /\ intent = [p \in Policy |-> "NONE"] /\ old = {}
  /\ outbox = {} /\ queue = {} /\ dropped = {} /\ job = Idle
  /\ faults = 0 /\ events = 0

-----------------------------------------------------------------------------
(* The chain.                                                              *)

SumOf(S) == MapThenSumSet(LAMBDA p : RewardOf[p], S)
Within(p, spent) == SumOf(spent) + RewardOf[p] <= Budget

Event == events < MaxEvents /\ events' = events + 1

\* The owner approves a policy, and the approval lapses.
Approve(p) ==
  /\ approval[p] = "NONE" /\ approval' = [approval EXCEPT ![p] = "CURRENT"]
  /\ UNCHANGED <<consumed, consumer, enabled, enabledFinal, tx, accepted, dbVars, jobVars, faults, events>>

Lapse(p) ==
  /\ approval[p] = "CURRENT" /\ Event
  /\ approval' = [approval EXCEPT ![p] = "LAPSED"]
  /\ approved' = [approved EXCEPT ![p] = IF @ = "CURRENT" THEN "LAPSED" ELSE @]
  /\ UNCHANGED <<consumed, consumer, enabled, enabledFinal, tx, accepted, projection, bounty, rec,
                 action, intent, old, jobVars, faults>>

SetEnabled ==
  /\ Event /\ enabled' = ~enabled
  /\ UNCHANGED <<approval, consumed, consumer, enabledFinal, tx, accepted, dbVars, jobVars, faults>>

FundApprovedPolicy(p) ==
  /\ enabled /\ approval[p] = "CURRENT" /\ consumed[p] = "NO"
  /\ Within(p, {q \in Policy : consumed[q] # "NO"})

Mine(p) ==
  /\ tx[p] = "SENT"
  /\ tx' = [tx EXCEPT ![p] = IF FundApprovedPolicy(p) THEN "DONE" ELSE "REVERTED"]
  /\ IF FundApprovedPolicy(p)
     THEN /\ consumed' = [consumed EXCEPT ![p] = "MINED"]
          /\ consumer' = [consumer EXCEPT ![p] = "JOB"]
     ELSE UNCHANGED <<consumed, consumer>>
  /\ UNCHANGED <<approval, enabled, enabledFinal, accepted, dbVars, jobVars, faults, events>>

\* The operator's wallet is used by hand.
Other(p) ==
  /\ FundApprovedPolicy(p) /\ Event
  /\ consumed' = [consumed EXCEPT ![p] = "MINED"]
  /\ consumer' = [consumer EXCEPT ![p] = "OTHER"]
  /\ UNCHANGED <<approval, enabled, enabledFinal, tx, accepted, dbVars, jobVars, faults>>

Finalize ==
  /\ enabledFinal # enabled \/ \E p \in Policy : consumed[p] = "MINED" \/ tx[p] \in {"DONE", "REVERTED"}
  /\ consumed' = [p \in Policy |-> IF consumed[p] = "NO" THEN "NO" ELSE "FINAL"]
  /\ tx' = [p \in Policy |-> CASE tx[p] = "DONE" -> "DONE_FINAL"
                               [] tx[p] = "REVERTED" -> "REVERTED_FINAL"
                               [] OTHER -> tx[p]]
  /\ enabledFinal' = enabled
  /\ UNCHANGED <<approval, consumer, enabled, accepted, dbVars, jobVars, faults, events>>

-----------------------------------------------------------------------------
(* Coverage: evaluateCoverage, and the recommendation it leaves.           *)

Funded == {p \in Policy : bounty[p] = "FUNDED"}
Gap == IF MinReward > SumOf(Funded) THEN MinReward - SumOf(Funded) ELSE 0
Covers(p) == Gap > 0 /\ RewardOf[p] >= Gap

\* The cheapest approved policy that closes the gap; ties by hash.
Candidates == {p \in Policy : approved[p] = "CURRENT" /\ projection /\ Covers(p)}
EvaluateCoverage ==
  {p \in Candidates : \A q \in Candidates \ {p} :
     RewardOf[p] < RewardOf[q] \/ (RewardOf[p] = RewardOf[q] /\ p < q)}

Live == {n \in Rec : rec[n].status = "ACTIONABLE"}
Unused == {n \in Rec : rec[n].status = "NONE"}
\* A faulty variant: a recommendation stays when another replaces it.
ExpireNothing(n) == rec[n]

Expire(n) == IF n \in Live THEN [rec[n] EXCEPT !.status = "EXPIRED"] ELSE rec[n]

\* One refresh: it finds a policy to recommend, or none because the
\* observation is missing, stale or refused (invalidateCoverage does the same
\* to the recommendations).  A new observation or another result replaces the
\* vault's recommendation; the same result keeps it, which is no step here.
RefreshCoverage(best) ==
  /\ IF best = {} THEN Live # {} ELSE Unused # {}
  /\ rec' = [n \in Rec |->
               IF best # {} /\ n = Min(Unused)
               THEN [status |-> "ACTIONABLE", policy |-> Min(best)]
               ELSE Expire(n)]
  /\ UNCHANGED <<chainVars, projection, approved, bounty, action, intent, old, jobVars, faults, events>>

\* Five minutes pass, or a new coverage policy is approved.
ExpireRecommendation(n) ==
  /\ n \in Live /\ rec' = [rec EXCEPT ![n] = Expire(n)]
  /\ UNCHANGED <<chainVars, projection, approved, bounty, action, intent, old, jobVars, faults, events>>

\* A claim pays the bounty, or it is refunded.
Close(p) ==
  /\ bounty[p] = "FUNDED" /\ Event
  /\ bounty' = [bounty EXCEPT ![p] = "CLOSED"]
  /\ UNCHANGED <<chainVars, projection, approved, rec, action, intent, old, jobVars, faults>>

-----------------------------------------------------------------------------
(* The controller's projections.                                           *)

SyncController ==
  /\ projection # enabledFinal /\ projection' = enabledFinal
  /\ UNCHANGED <<chainVars, approved, bounty, rec, action, intent, old, jobVars, faults, events>>

SyncApproval(p) ==
  /\ approval[p] = "CURRENT" /\ consumed[p] # "FINAL" /\ approved[p] \notin {"CURRENT", "CONSUMED"}
  /\ approved' = [approved EXCEPT ![p] = "CURRENT"]
  /\ UNCHANGED <<chainVars, projection, bounty, rec, action, intent, old, jobVars, faults, events>>

-----------------------------------------------------------------------------
(* Enqueueing and dispatch.                                                *)

OutboxRow(p, v) == [policy |-> p, version |-> v, processed |-> FALSE]
\* on conflict(deduplication_key) do nothing
Insert(p, v) ==
  outbox' = IF \E k \in outbox : k.policy = p /\ k.version = v THEN outbox
            ELSE outbox \cup {OutboxRow(p, v)}

\* A faulty variant: a rejected action is queued again under its old key.
RequeuedSame(p, n) == [action[p] EXCEPT !.state = "QUEUED", !.rec = n]

Requeued(p, n) == [state |-> "QUEUED", rec |-> n, version |-> action[p].version + 1]

\* Bound of the instance.
WithinVersions(p, v) ==
  v + MapThenSumSet(LAMBDA q : action[q].version, Policy \ {p}) <= MaxVersions

\* enqueueAllocation, from the API or from a sweep.
EnqueueAllocation(n) ==
  LET p == rec[n].policy
      a == action[p]
      row == CASE a.state = "NONE" -> [state |-> "QUEUED", rec |-> n, version |-> 1]
               [] a.state = "REJECTED" /\ intent[p] = "NONE" -> Requeued(p, n)
               [] OTHER -> a
  IN  /\ n \in Live /\ WithinVersions(p, row.version)
      /\ action' = [action EXCEPT ![p] = row]
      /\ IF row.state \in Pending THEN Insert(p, row.version) ELSE UNCHANGED outbox
      /\ dropped' = IF row.version # a.version THEN dropped \ {p} ELSE dropped
      /\ UNCHANGED <<chainVars, projection, approved, bounty, rec, intent, old, queue, job, faults, events>>

RetryAllocation(p) ==
  /\ action[p].state \in Pending /\ WithinVersions(p, action[p].version + 1)
  /\ action' = [action EXCEPT ![p].version = @ + 1]
  /\ Insert(p, action[p].version + 1)
  /\ dropped' = dropped \ {p}
  /\ UNCHANGED <<chainVars, projection, approved, bounty, rec, intent, old, queue, job, faults, events>>

\* A row whose job is queued already stays for the next dispatch.
DispatchBudgetOutbox(k) ==
  /\ ~k.processed /\ k.policy \notin queue
  /\ queue' = queue \cup {k.policy}
  /\ outbox' = (outbox \ {k}) \cup {[k EXCEPT !.processed = TRUE]}
  /\ UNCHANGED <<chainVars, dbVars, dropped, job, faults, events>>

-----------------------------------------------------------------------------
(* The allocation job.                                                     *)

Goto(at) == job' = [job EXCEPT !.at = at]
Return == job' = Idle /\ queue' = queue \ {job.of} /\ UNCHANGED dropped
\* The queue tries again, at most eight times.
Throw ==
  /\ job' = Idle
  /\ \/ UNCHANGED <<queue, dropped>>
     \/ queue' = queue \ {job.of} /\ dropped' = dropped \cup {job.of}

SetState(s) == action' = [action EXCEPT ![job.of].state = s]
SetIntent(s) == intent' = [intent EXCEPT ![job.of] = s]

\* What the finalized controller permits: enabled, a current approval, limits.
Permitted(p) ==
  /\ enabledFinal /\ approval[p] = "CURRENT" /\ consumed[p] # "FINAL"
  /\ Within(p, {q \in Policy : consumed[q] = "FINAL"})

\* The finalized event of an allocation, whoever made it.
FindAllocation(p) == consumed[p] = "FINAL"

\* An action that is over is left alone; otherwise the chain is read, and a
\* final allocation comes before everything else.
Start(p) ==
  /\ job = Idle /\ p \in queue
  /\ IF action[p].state \notin Pending
     THEN queue' = queue \ {p} /\ UNCHANGED job
     ELSE /\ job' = [of |-> p, permitted |-> Permitted(p),
                     at |-> CASE FindAllocation(p) -> "RECORD"
                              [] ~FindAllocation(p) /\ intent[p] = "BROADCAST" -> "RECEIPT"
                              [] OTHER -> "CHECK"]
          /\ UNCHANGED queue
  /\ UNCHANGED <<chainVars, dbVars, outbox, dropped, faults, events>>

\* What the database and the source permit, read after the chain.
Eligible(usable) ==
  LET p == job.of
      r == rec[action[p].rec]
  IN  job.permitted /\ usable /\ r.status = "ACTIONABLE" /\ r.policy = p /\ Covers(p)

\* A faulty variant: whatever is not eligible is rejected.
MayRejectAny == TRUE

MayReject == intent[job.of] = "NONE"

Check(usable) ==
  /\ job.at = "CHECK"
  /\ \/ /\ Eligible(usable) /\ intent[job.of] = "NONE"
        /\ SetIntent("PREPARED") /\ SetState("PREPARED") /\ Goto("MARK")
        /\ UNCHANGED <<queue, dropped>>
     \/ /\ Eligible(usable) /\ intent[job.of] # "NONE"
        /\ IF job.of \in old THEN Throw ELSE Goto("MARK") /\ UNCHANGED <<queue, dropped>>
        /\ UNCHANGED <<action, intent>>
     \/ /\ ~Eligible(usable) /\ MayReject
        /\ SetState("REJECTED") /\ Return /\ UNCHANGED intent
     \/ /\ ~Eligible(usable) /\ ~MayReject
        /\ Throw /\ UNCHANGED <<action, intent>>
  /\ UNCHANGED <<chainVars, projection, approved, bounty, rec, old, outbox, faults, events>>

MarkIntent ==
  /\ job.at = "MARK" /\ SetIntent("SUBMITTED") /\ Goto("MARKED")
  /\ UNCHANGED <<chainVars, projection, approved, bounty, rec, action, old, outbox, queue, dropped, faults, events>>

MarkAction ==
  /\ job.at = "MARKED" /\ SetState("SUBMITTED") /\ Goto("SEND")
  /\ UNCHANGED <<chainVars, projection, approved, bounty, rec, intent, old, outbox, queue, dropped, faults, events>>

\* Circle makes one transaction for one intent, as long as it remembers it.
Accept(p) ==
  IF accepted[p] = 0 \/ p \in old
  THEN /\ accepted' = [accepted EXCEPT ![p] = @ + 1]
       /\ tx' = [tx EXCEPT ![p] = "SENT"]
  ELSE UNCHANGED <<accepted, tx>>

Send ==
  /\ job.at = "SEND" /\ Accept(job.of)
  /\ SetIntent("BROADCAST") /\ Goto("SAVED")
  /\ UNCHANGED <<approval, consumed, consumer, enabled, enabledFinal, projection, approved, bounty,
                 rec, action, old, outbox, queue, dropped, faults, events>>

LoseResponse ==
  /\ job.at = "SEND" /\ faults < MaxFaults /\ faults' = faults + 1
  /\ Accept(job.of) /\ Throw
  /\ UNCHANGED <<approval, consumed, consumer, enabled, enabledFinal, dbVars, outbox, events>>

ConfirmAction ==
  /\ job.at = "SAVED" /\ SetState("CONFIRMING") /\ Goto("RECEIPT")
  /\ UNCHANGED <<chainVars, projection, approved, bounty, rec, intent, old, outbox, queue, dropped, faults, events>>

\* The saved transaction's final receipt: none yet, a revert, or the proof.
ReadReceipt ==
  /\ job.at = "RECEIPT"
  /\ \/ /\ tx[job.of] \in {"SENT", "DONE", "REVERTED"} /\ Throw /\ UNCHANGED action
     \/ /\ tx[job.of] = "REVERTED_FINAL" /\ SetState("FAILED") /\ Goto("REVERT")
        /\ UNCHANGED <<queue, dropped>>
     \/ /\ tx[job.of] = "DONE_FINAL" /\ Goto("RECORD") /\ UNCHANGED <<action, queue, dropped>>
  /\ UNCHANGED <<chainVars, projection, approved, bounty, rec, intent, old, outbox, faults, events>>

MarkReverted ==
  /\ job.at = "REVERT" /\ SetIntent("REVERTED") /\ Return
  /\ UNCHANGED <<chainVars, projection, approved, bounty, rec, action, old, outbox, faults, events>>

Resolved(p) ==
  CASE intent[p] = "NONE" -> "NONE"
    [] intent[p] = "BROADCAST" /\ consumer[p] = "OTHER" -> "RECONCILED"
    [] OTHER -> "CONFIRMED"

\* saveAllocation: one transaction.
SaveAllocation ==
  /\ job.at = "RECORD"
  /\ bounty' = [bounty EXCEPT ![job.of] = IF @ = "NONE" THEN "FUNDED" ELSE @]
  /\ approved' = [approved EXCEPT ![job.of] = IF @ = "NONE" THEN @ ELSE "CONSUMED"]
  /\ SetState("COMPLETE") /\ SetIntent(Resolved(job.of)) /\ Return
  /\ UNCHANGED <<chainVars, projection, rec, old, outbox, faults, events>>

\* The worker or a read fails.
Crash ==
  /\ job # Idle /\ faults < MaxFaults /\ faults' = faults + 1
  /\ Throw
  /\ UNCHANGED <<chainVars, dbVars, outbox, events>>

\* 23 hours pass, between two passes, without a hash.
Grow(p) ==
  /\ intent[p] \in {"PREPARED", "SUBMITTED"} /\ job.of # p /\ p \notin old
  /\ old' = old \cup {p}
  /\ UNCHANGED <<chainVars, projection, approved, bounty, rec, action, intent, jobVars, faults, events>>

-----------------------------------------------------------------------------
Next ==
  \/ \E p \in Policy : Approve(p) \/ Lapse(p) \/ Mine(p) \/ Other(p) \/ Close(p)
  \/ SetEnabled \/ Finalize \/ SyncController
  \/ \E best \in {{}, EvaluateCoverage} : RefreshCoverage(best)
  \/ \E n \in Rec : ExpireRecommendation(n) \/ EnqueueAllocation(n)
  \/ \E p \in Policy : SyncApproval(p) \/ RetryAllocation(p) \/ Grow(p) \/ Start(p)
  \/ \E k \in outbox : DispatchBudgetOutbox(k)
  \/ \E usable \in BOOLEAN : Check(usable)
  \/ MarkIntent \/ MarkAction \/ Send \/ LoseResponse \/ ConfirmAction
  \/ ReadReceipt \/ MarkReverted \/ SaveAllocation \/ Crash

Spec == Init /\ [][Next]_vars

-----------------------------------------------------------------------------
(* Properties.                                                             *)

TypeOK ==
  /\ \A p \in Policy : action[p].state \in ActionState /\ action[p].version \in Nat
  /\ intent \in [Policy -> IntentState]
  /\ approved \in [Policy -> ApprovedState]
  /\ bounty \in [Policy -> {"NONE", "FUNDED", "CLOSED"}]
  /\ job.at # "IDLE" => job.of \in queue /\ action[job.of].state # "NONE"
  /\ Cardinality(Live) <= 1

\* What an action ended with is what happened, however its job crashed and
\* whatever answers it lost: COMPLETE means a final allocation with its
\* bounty recorded and its approval closed; REJECTED that nothing was ever
\* sent; FAILED that the one transaction reverted (allocateBudget).  No
\* intent is sent as two transactions.
AllocationsTellTheTruth ==
  \A p \in Policy :
    /\ accepted[p] <= 1
    /\ bounty[p] # "NONE" <=> action[p].state = "COMPLETE"
    /\ action[p].state = "COMPLETE" => consumed[p] = "FINAL" /\ approved[p] # "CURRENT"
    /\ action[p].state = "REJECTED" => accepted[p] = 0
    /\ action[p].state = "FAILED" => tx[p] = "REVERTED_FINAL"
    /\ intent[p] = "CONFIRMED" => consumed[p] = "FINAL"
    /\ intent[p] = "RECONCILED" => consumer[p] = "OTHER"

\* A queued action is on its way to a job, through every rejection, new
\* recommendation and retry, unless the queue gave it up: the outbox key
\* that deduplicates requests never swallows one (enqueueAllocation,
\* dispatchBudgetOutbox).
QueuedIsDispatched ==
  \A p \in Policy :
    action[p].state = "QUEUED" =>
      p \in queue \/ p \in dropped \/ \E k \in outbox : k.policy = p /\ ~k.processed

=============================================================================
