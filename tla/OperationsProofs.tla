-------------------------- MODULE OperationsProofs --------------------------
(***************************************************************************)
(* Proofs about the parts of Operations.tla.  Each part has an invariant of *)
(* its own, inductive under the part's steps; a step of another part leaves *)
(* the part's variables alone, so the invariants together are inductive for *)
(* the whole.                                                              *)
(***************************************************************************)
EXTENDS Operations, FiniteSetTheorems, TLAPS

-----------------------------------------------------------------------------
(* Automatic allocation: the inductive invariant.                          *)

Stage == {"IDLE", "CHECK", "MARK", "MARKED", "SEND", "SAVED", "RECEIPT", "REVERT", "RECORD"}
Sent == {"SUBMITTED", "BROADCAST", "CONFIRMED", "RECONCILED", "REVERTED"}

ChainTypes ==
  /\ approval \in [Policy -> {"NONE", "CURRENT", "LAPSED"}]
  /\ consumed \in [Policy -> {"NO", "MINED", "FINAL"}]
  /\ consumer \in [Policy -> {"NOBODY", "JOB", "OTHER"}]
  /\ tx \in [Policy -> {"NONE", "SENT", "DONE", "REVERTED", "DONE_FINAL", "REVERTED_FINAL"}]
  /\ accepted \in [Policy -> {0, 1}]

RowTypes ==
  /\ approved \in [Policy -> ApprovedState]
  /\ bounty \in [Policy -> {"NONE", "FUNDED", "CLOSED"}]
  /\ rec \in [Rec -> [status : {"NONE", "ACTIONABLE", "EXPIRED"}, policy : Policy \cup {0}]]
  /\ action \in [Policy -> [state : ActionState, rec : Rec \cup {0}, version : Nat]]
  /\ intent \in [Policy -> IntentState]

JobTypes ==
  /\ outbox \subseteq [policy : Policy, version : Nat, processed : BOOLEAN]
  /\ queue \subseteq Policy
  /\ job \in [of : Policy \cup {0}, at : Stage, permitted : BOOLEAN]

AllocationTypes == ChainTypes /\ RowTypes /\ JobTypes

\* One recommendation is actionable, and it names a policy.
OneIsLive ==
  /\ \A n \in Live : rec[n].policy \in Policy
  /\ \A m, n \in Live : m = n

\* Circle's answer is the only way a transaction comes to be, and only for an
\* intent that was marked first; one that succeeded consumed the approval.
TransactionsAreMarked ==
  \A p \in Policy :
    /\ accepted[p] = 0 <=> tx[p] = "NONE"
    /\ accepted[p] # 0 => intent[p] \in Sent
    /\ p \in old => intent[p] # "NONE"
    /\ tx[p] = "DONE" => consumed[p] # "NO"
    /\ tx[p] = "DONE_FINAL" => consumed[p] = "FINAL"

\* What is over is over for the reason it says.
EndIsTrue(p) ==
  /\ bounty[p] # "NONE" <=> action[p].state = "COMPLETE"
  /\ action[p].state = "COMPLETE" => consumed[p] = "FINAL" /\ approved[p] # "CURRENT"
  /\ action[p].state = "REJECTED" => intent[p] = "NONE"
  /\ action[p].state = "FAILED" => tx[p] = "REVERTED_FINAL"
  /\ intent[p] \in {"CONFIRMED", "RECONCILED"} => consumed[p] = "FINAL"
  /\ intent[p] = "RECONCILED" => consumer[p] = "OTHER"

EndsAreTrue == \A p \in Policy : EndIsTrue(p)

\* A job is in the queue and works on an action that is not over, whatever the
\* requests do beside it; what it found in an earlier step still holds.
JobRemembers ==
  \/ job = Idle
  \/ /\ job.at # "IDLE" /\ job.of \in queue
     /\ IF job.at = "REVERT" THEN action[job.of].state = "FAILED" ELSE action[job.of].state \in Pending
     /\ job.at \in {"MARK", "MARKED", "SEND"} => job.of \notin old
     /\ job.at \in {"MARKED", "SEND"} => intent[job.of] = "SUBMITTED"
     /\ job.at = "RECORD" => consumed[job.of] = "FINAL"

\* No row of the outbox has a key that a later version of its action will use.
KeysAreNew ==
  /\ \A k \in outbox : k.version <= action[k.policy].version
  /\ \A p \in Policy : action[p].state = "NONE" => action[p].version = 0

AllocationInv ==
  /\ AllocationTypes /\ OneIsLive /\ TransactionsAreMarked /\ EndsAreTrue
  /\ JobRemembers /\ KeysAreNew /\ QueuedIsDispatched

-----------------------------------------------------------------------------
(* Automatic allocation: lemmas.                                           *)

\* A job that is under way works on one of the policies.
LEMMA JobOfPolicy ==
  ASSUME AllocationInv, job.at # "IDLE"
  PROVE  job.of \in Policy /\ job.of \in queue
BY DEF AllocationInv, AllocationTypes, JobTypes, JobRemembers, Idle

\* A job changes the state of its own action and nothing else of any action.
LEMMA SetStateShape ==
  ASSUME AllocationInv, job.at # "IDLE", NEW s \in ActionState, SetState(s)
  PROVE  /\ action' \in [Policy -> [state : ActionState, rec : Rec \cup {0}, version : Nat]]
         /\ action'[job.of].state = s
         /\ \A p \in Policy : action'[p].version = action[p].version
         /\ \A p \in Policy \ {job.of} : action'[p].state = action[p].state
<1>1. job.of \in Policy
  BY JobOfPolicy
<1>2. action \in [Policy -> [state : ActionState, rec : Rec \cup {0}, version : Nat]]
  BY DEF AllocationInv, AllocationTypes, RowTypes
<1>3. action' = [action EXCEPT ![job.of] = [action[job.of] EXCEPT !.state = s]]
  BY <1>1, <1>2 DEF SetState
<1>4. [action[job.of] EXCEPT !.state = s] \in [state : ActionState, rec : Rec \cup {0}, version : Nat]
  BY <1>1, <1>2
<1>5. [action[job.of] EXCEPT !.state = s].state = s /\ [action[job.of] EXCEPT !.state = s].version = action[job.of].version
  BY <1>1, <1>2
<1> QED BY <1>1, <1>2, <1>3, <1>4, <1>5

\* The same for its intent.
LEMMA SetIntentShape ==
  ASSUME AllocationInv, job.at # "IDLE", NEW s \in IntentState, SetIntent(s)
  PROVE  /\ intent' \in [Policy -> IntentState] /\ intent'[job.of] = s
         /\ \A p \in Policy \ {job.of} : intent'[p] = intent[p]
<1>1. job.of \in Policy
  BY JobOfPolicy
<1> QED BY <1>1 DEF SetIntent, AllocationInv, AllocationTypes, RowTypes

\* A job that goes on is the same job.
LEMMA GotoShape ==
  ASSUME AllocationInv, NEW s \in Stage, Goto(s)
  PROVE  /\ job' \in [of : Policy \cup {0}, at : Stage, permitted : BOOLEAN]
         /\ job'.of = job.of /\ job'.at = s
BY DEF Goto, AllocationInv, AllocationTypes, JobTypes

\* A job that ends leaves the queue as it is, or its action is given up or not
\* queued any more.
LEMMA EndShape ==
  ASSUME AllocationInv, job.at # "IDLE", Throw \/ Return
  PROVE  /\ job' = Idle /\ job'.at = "IDLE"
         /\ job' \in [of : Policy \cup {0}, at : Stage, permitted : BOOLEAN]
         /\ queue' \subseteq queue /\ queue \ {job.of} \subseteq queue'
         /\ dropped \subseteq dropped'
         /\ Throw => job.of \in queue' \cup dropped'
<1>1. job.of \in queue
  BY JobOfPolicy
<1>2. job' = Idle
  BY DEF Throw, Return
<1>3. Idle \in [of : Policy \cup {0}, at : Stage, permitted : BOOLEAN] /\ Idle.at = "IDLE"
  BY DEF Idle, Stage
<1>4. /\ queue' \subseteq queue /\ queue \ {job.of} \subseteq queue' /\ dropped \subseteq dropped'
      /\ Throw => job.of \in queue' \cup dropped'
  BY <1>1 DEF Throw, Return
<1> QED BY <1>2, <1>3, <1>4

\* Circle makes at most one transaction of an intent.
LEMMA AcceptShape ==
  ASSUME AllocationInv, job.at = "SEND", Accept(job.of)
  PROVE  /\ accepted' \in [Policy -> {0, 1}] /\ accepted'[job.of] = 1
         /\ tx' \in [Policy -> {"NONE", "SENT", "DONE", "REVERTED", "DONE_FINAL", "REVERTED_FINAL"}]
         /\ \A p \in Policy \ {job.of} : tx'[p] = tx[p] /\ accepted'[p] = accepted[p]
         /\ tx'[job.of] = "SENT" \/ (tx'[job.of] = tx[job.of] /\ tx[job.of] # "NONE")
<1>1. job.of \in Policy /\ job.of \notin old
  BY JobOfPolicy DEF AllocationInv, JobRemembers, Idle
<1>2. accepted[job.of] \in {0, 1} /\ (accepted[job.of] = 0 <=> tx[job.of] = "NONE")
  BY <1>1 DEF AllocationInv, AllocationTypes, ChainTypes, TransactionsAreMarked
<1> QED BY <1>1, <1>2 DEF Accept, AllocationInv, AllocationTypes, ChainTypes

\* What coverage recommends is a policy: two of its candidates would each be
\* cheaper than the other.
LEMMA BestIsPolicy ==
  ASSUME EvaluateCoverage # {}
  PROVE  Min(EvaluateCoverage) \in Policy
<1>1. PICK p \in EvaluateCoverage : TRUE
  OBVIOUS
<1>2. p \in Policy /\ p \in Nat
  BY AllocationAssumption DEF EvaluateCoverage, Candidates
<1>3. ASSUME NEW q \in EvaluateCoverage PROVE q = p
  <2>1. RewardOf[p] \in Nat /\ RewardOf[q] \in Nat /\ p \in Nat /\ q \in Nat
    BY AllocationAssumption DEF EvaluateCoverage, Candidates
  <2> QED BY <2>1 DEF EvaluateCoverage
<1>4. EvaluateCoverage = {p}
  BY <1>3
<1>5. Min({p}) = p
  BY <1>2 DEF Min
<1> QED BY <1>2, <1>4, <1>5

\* A job that throws, for whatever reason, keeps the invariant: its action stays
\* in the queue or is given up.
LEMMA ThrowKeeps ==
  ASSUME AllocationInv, job.at # "IDLE", Throw,
         UNCHANGED <<chainVars, projection, approved, bounty, rec, action, intent, old, outbox>>
  PROVE  AllocationInv'
<1>a. /\ job' = Idle /\ job'.at = "IDLE"
      /\ job' \in [of : Policy \cup {0}, at : Stage, permitted : BOOLEAN]
      /\ queue' \subseteq queue /\ queue \ {job.of} \subseteq queue'
      /\ dropped \subseteq dropped'
  BY EndShape
<1>b. job.of \in queue' \cup dropped'
  BY EndShape
<1>1. AllocationTypes'
  BY <1>a DEF AllocationInv, AllocationTypes, ChainTypes, RowTypes, JobTypes, chainVars
<1>2. OneIsLive'
  BY DEF AllocationInv, OneIsLive, Live
<1>3. TransactionsAreMarked'
  BY DEF AllocationInv, TransactionsAreMarked, chainVars
<1>4. EndsAreTrue'
  BY DEF AllocationInv, EndsAreTrue, EndIsTrue, chainVars
<1>5. JobRemembers'
  BY <1>a DEF JobRemembers
<1>6. KeysAreNew'
  BY DEF AllocationInv, KeysAreNew
<1>7. QueuedIsDispatched'
  BY <1>a, <1>b DEF AllocationInv, QueuedIsDispatched
<1> QED BY <1>1, <1>2, <1>3, <1>4, <1>5, <1>6, <1>7 DEF AllocationInv

\* The owner approves a policy.
LEMMA ApproveKeeps ==
  ASSUME AllocationInv, NEW p \in Policy, Approve(p)
  PROVE  AllocationInv'
<1>1. AllocationTypes'
  BY DEF AllocationInv, AllocationTypes, ChainTypes, RowTypes, JobTypes, Approve, dbVars, jobVars,
     ApprovedState, ActionState, IntentState, Stage
<1>2. OneIsLive' /\ TransactionsAreMarked' /\ EndsAreTrue' /\ JobRemembers' /\ KeysAreNew' /\ QueuedIsDispatched'
  BY DEF AllocationInv, Approve, dbVars, jobVars, OneIsLive, Live, TransactionsAreMarked,
     EndsAreTrue, EndIsTrue, JobRemembers, KeysAreNew, QueuedIsDispatched
<1> QED BY <1>1, <1>2 DEF AllocationInv

\* An approval lapses, on chain and in its row.
LEMMA LapseKeeps ==
  ASSUME AllocationInv, NEW p \in Policy, Lapse(p)
  PROVE  AllocationInv'
<1>1. AllocationTypes'
  BY DEF AllocationInv, AllocationTypes, ChainTypes, RowTypes, JobTypes, Lapse, jobVars, Event,
     ApprovedState, ActionState, IntentState, Stage
<1>2. EndsAreTrue'
  BY DEF AllocationInv, Lapse, jobVars, Event, EndsAreTrue, EndIsTrue
<1>3. OneIsLive' /\ TransactionsAreMarked' /\ JobRemembers' /\ KeysAreNew' /\ QueuedIsDispatched'
  BY DEF AllocationInv, Lapse, jobVars, OneIsLive, Live, TransactionsAreMarked, JobRemembers,
     KeysAreNew, QueuedIsDispatched
<1> QED BY <1>1, <1>2, <1>3 DEF AllocationInv

\* The controller is enabled or disabled.
LEMMA SetEnabledKeeps ==
  ASSUME AllocationInv, SetEnabled
  PROVE  AllocationInv'
<1>1. AllocationTypes'
  BY DEF AllocationInv, AllocationTypes, ChainTypes, RowTypes, JobTypes, SetEnabled, dbVars,
     jobVars, Event, ApprovedState, ActionState, IntentState, Stage
<1>2. OneIsLive' /\ TransactionsAreMarked' /\ EndsAreTrue' /\ JobRemembers' /\ KeysAreNew' /\ QueuedIsDispatched'
  BY DEF AllocationInv, SetEnabled, dbVars, jobVars, OneIsLive, Live, TransactionsAreMarked,
     EndsAreTrue, EndIsTrue, JobRemembers, KeysAreNew, QueuedIsDispatched
<1> QED BY <1>1, <1>2 DEF AllocationInv

\* A transaction that succeeds consumes its policy's approval, one that reverts does not.
LEMMA MineKeeps ==
  ASSUME AllocationInv, NEW p \in Policy, Mine(p)
  PROVE  AllocationInv'
<1>1. AllocationTypes'
  BY DEF AllocationInv, AllocationTypes, ChainTypes, RowTypes, JobTypes, Mine, dbVars, jobVars,
     FundApprovedPolicy, ApprovedState, ActionState, IntentState, Stage
<1>2. TransactionsAreMarked'
  BY DEF AllocationInv, AllocationTypes, ChainTypes, RowTypes, JobTypes, Mine, dbVars, jobVars,
     FundApprovedPolicy, TransactionsAreMarked, Sent
<1>3. EndsAreTrue'
  BY DEF AllocationInv, AllocationTypes, ChainTypes, RowTypes, JobTypes, Mine, dbVars, jobVars,
     FundApprovedPolicy, EndsAreTrue, EndIsTrue
<1>4. JobRemembers'
  BY DEF AllocationInv, AllocationTypes, ChainTypes, RowTypes, JobTypes, Mine, dbVars, jobVars,
     FundApprovedPolicy, JobRemembers, Idle, Pending
<1>5. OneIsLive' /\ KeysAreNew' /\ QueuedIsDispatched'
  BY DEF AllocationInv, Mine, dbVars, jobVars, OneIsLive, Live, KeysAreNew, QueuedIsDispatched
<1> QED BY <1>1, <1>2, <1>3, <1>4, <1>5 DEF AllocationInv

\* Somebody else allocates with the operator's wallet.
LEMMA OtherKeeps ==
  ASSUME AllocationInv, NEW p \in Policy, Other(p)
  PROVE  AllocationInv'
<1>1. AllocationTypes'
  BY DEF AllocationInv, AllocationTypes, ChainTypes, RowTypes, JobTypes, Other, dbVars, jobVars,
     Event, FundApprovedPolicy, ApprovedState, ActionState, IntentState, Stage
<1>2. TransactionsAreMarked'
  BY DEF AllocationInv, Other, dbVars, jobVars, Event, FundApprovedPolicy, TransactionsAreMarked,
     Sent
<1>3. EndsAreTrue'
  BY DEF AllocationInv, Other, dbVars, jobVars, Event, FundApprovedPolicy, EndsAreTrue, EndIsTrue
<1>4. JobRemembers'
  BY DEF AllocationInv, Other, dbVars, jobVars, Event, FundApprovedPolicy, JobRemembers, Idle,
     Pending
<1>5. OneIsLive' /\ KeysAreNew' /\ QueuedIsDispatched'
  BY DEF AllocationInv, Other, dbVars, jobVars, OneIsLive, Live, KeysAreNew, QueuedIsDispatched
<1> QED BY <1>1, <1>2, <1>3, <1>4, <1>5 DEF AllocationInv

\* What was mined becomes final.
LEMMA FinalizeKeeps ==
  ASSUME AllocationInv, Finalize
  PROVE  AllocationInv'
<1>1. AllocationTypes'
  BY DEF AllocationInv, AllocationTypes, ChainTypes, RowTypes, JobTypes, Finalize, dbVars, jobVars,
     ApprovedState, ActionState, IntentState, Stage
<1>2. TransactionsAreMarked'
  BY DEF AllocationInv, Finalize, dbVars, jobVars, TransactionsAreMarked, Sent
<1>3. EndsAreTrue'
  BY DEF AllocationInv, Finalize, dbVars, jobVars, EndsAreTrue, EndIsTrue
<1>4. JobRemembers'
  BY DEF AllocationInv, AllocationTypes, ChainTypes, RowTypes, JobTypes, Finalize, dbVars, jobVars,
     JobRemembers, Idle, Pending
<1>5. OneIsLive' /\ KeysAreNew' /\ QueuedIsDispatched'
  BY DEF AllocationInv, Finalize, dbVars, jobVars, OneIsLive, Live, KeysAreNew, QueuedIsDispatched
<1> QED BY <1>1, <1>2, <1>3, <1>4, <1>5 DEF AllocationInv

\* A refresh replaces the recommendation that is live.
LEMMA RefreshCoverageKeeps ==
  ASSUME AllocationInv, NEW best \in {{}, EvaluateCoverage}, RefreshCoverage(best)
  PROVE  AllocationInv'
<1>0. /\ rec' \in [Rec -> [status : {"NONE", "ACTIONABLE", "EXPIRED"}, policy : Policy \cup {0}]]
      /\ OneIsLive'
  <2>1. rec \in [Rec -> [status : {"NONE", "ACTIONABLE", "EXPIRED"}, policy : Policy \cup {0}]]
    BY DEF AllocationInv, AllocationTypes, RowTypes
  <2>2. ASSUME NEW n \in Rec
        PROVE  /\ Expire(n) \in [status : {"NONE", "ACTIONABLE", "EXPIRED"}, policy : Policy \cup {0}]
               /\ Expire(n).status # "ACTIONABLE"
    BY <2>1 DEF Expire, Live
  <2>3. CASE best = {}
    <3>1. rec' = [n \in Rec |-> Expire(n)]
      BY <2>3 DEF RefreshCoverage
    <3> QED BY <2>2, <3>1 DEF OneIsLive, Live
  <2>4. CASE best = EvaluateCoverage /\ best # {}
    <3> DEFINE m == Min(Unused)
               new == [status |-> "ACTIONABLE", policy |-> Min(best)]
    <3>1. Min(best) \in Policy
      BY <2>4, BestIsPolicy
    <3>2. rec' = [n \in Rec |-> IF n = m THEN new ELSE Expire(n)]
      BY <2>4 DEF RefreshCoverage
    <3>3. new \in [status : {"NONE", "ACTIONABLE", "EXPIRED"}, policy : Policy \cup {0}] /\ new.policy = Min(best)
      BY <3>1
    <3> HIDE DEF m, new
    <3> QED BY <2>2, <3>1, <3>2, <3>3 DEF OneIsLive, Live
  <2> QED BY <2>3, <2>4
<1>1. AllocationTypes'
  BY <1>0 DEF AllocationInv, AllocationTypes, ChainTypes, RowTypes, JobTypes, RefreshCoverage,
     chainVars, jobVars
<1>2. OneIsLive'
  BY <1>0
<1>3. TransactionsAreMarked' /\ EndsAreTrue' /\ JobRemembers' /\ KeysAreNew' /\ QueuedIsDispatched'
  BY DEF AllocationInv, RefreshCoverage, chainVars, jobVars, TransactionsAreMarked, EndsAreTrue,
     EndIsTrue, JobRemembers, KeysAreNew, QueuedIsDispatched
<1> QED BY <1>1, <1>2, <1>3 DEF AllocationInv

\* A recommendation expires.
LEMMA ExpireRecommendationKeeps ==
  ASSUME AllocationInv, NEW n \in Rec, ExpireRecommendation(n)
  PROVE  AllocationInv'
<1>1. AllocationTypes'
  BY DEF AllocationInv, AllocationTypes, ChainTypes, RowTypes, JobTypes, ExpireRecommendation,
     chainVars, jobVars, Expire, ApprovedState, ActionState, IntentState, Stage
<1>2. OneIsLive'
  BY DEF AllocationInv, ExpireRecommendation, chainVars, jobVars, Expire, OneIsLive, Live
<1>3. TransactionsAreMarked' /\ EndsAreTrue' /\ JobRemembers' /\ KeysAreNew' /\ QueuedIsDispatched'
  BY DEF AllocationInv, ExpireRecommendation, chainVars, jobVars, TransactionsAreMarked,
     EndsAreTrue, EndIsTrue, JobRemembers, KeysAreNew, QueuedIsDispatched
<1> QED BY <1>1, <1>2, <1>3 DEF AllocationInv

\* A funded bounty is closed.
LEMMA CloseKeeps ==
  ASSUME AllocationInv, NEW p \in Policy, Close(p)
  PROVE  AllocationInv'
<1>1. AllocationTypes'
  BY DEF AllocationInv, AllocationTypes, ChainTypes, RowTypes, JobTypes, Close, chainVars, jobVars,
     Event, ApprovedState, ActionState, IntentState, Stage
<1>2. EndsAreTrue'
  BY DEF AllocationInv, Close, chainVars, jobVars, Event, EndsAreTrue, EndIsTrue
<1>3. OneIsLive' /\ TransactionsAreMarked' /\ JobRemembers' /\ KeysAreNew' /\ QueuedIsDispatched'
  BY DEF AllocationInv, Close, chainVars, jobVars, OneIsLive, Live, TransactionsAreMarked,
     JobRemembers, KeysAreNew, QueuedIsDispatched
<1> QED BY <1>1, <1>2, <1>3 DEF AllocationInv

\* The controller's state is recorded.
LEMMA SyncControllerKeeps ==
  ASSUME AllocationInv, SyncController
  PROVE  AllocationInv'
<1>1. AllocationTypes'
  BY DEF AllocationInv, AllocationTypes, ChainTypes, RowTypes, JobTypes, SyncController, chainVars,
     jobVars, ApprovedState, ActionState, IntentState, Stage
<1>2. OneIsLive' /\ TransactionsAreMarked' /\ EndsAreTrue' /\ JobRemembers' /\ KeysAreNew' /\ QueuedIsDispatched'
  BY DEF AllocationInv, SyncController, chainVars, jobVars, OneIsLive, Live, TransactionsAreMarked,
     EndsAreTrue, EndIsTrue, JobRemembers, KeysAreNew, QueuedIsDispatched
<1> QED BY <1>1, <1>2 DEF AllocationInv

\* An approval is recorded, unless it was consumed.
LEMMA SyncApprovalKeeps ==
  ASSUME AllocationInv, NEW p \in Policy, SyncApproval(p)
  PROVE  AllocationInv'
<1>1. AllocationTypes'
  BY DEF AllocationInv, AllocationTypes, ChainTypes, RowTypes, JobTypes, SyncApproval, chainVars,
     jobVars, ApprovedState, ActionState, IntentState, Stage
<1>2. EndsAreTrue'
  BY DEF AllocationInv, SyncApproval, chainVars, jobVars, EndsAreTrue, EndIsTrue
<1>3. OneIsLive' /\ TransactionsAreMarked' /\ JobRemembers' /\ KeysAreNew' /\ QueuedIsDispatched'
  BY DEF AllocationInv, SyncApproval, chainVars, jobVars, OneIsLive, Live, TransactionsAreMarked,
     JobRemembers, KeysAreNew, QueuedIsDispatched
<1> QED BY <1>1, <1>2, <1>3 DEF AllocationInv

\* An action is queued, or queued again under a key that the outbox never held.
LEMMA EnqueueAllocationKeeps ==
  ASSUME AllocationInv, NEW n \in Rec, EnqueueAllocation(n)
  PROVE  AllocationInv'
<1> DEFINE p == rec[n].policy
           a == action[p]
           row == CASE a.state = "NONE" -> [state |-> "QUEUED", rec |-> n, version |-> 1]
                    [] a.state = "REJECTED" /\ intent[p] = "NONE" -> Requeued(p, n)
                    [] OTHER -> a
<1>a. p \in Policy /\ a \in [state : ActionState, rec : Rec \cup {0}, version : Nat]
  BY DEF AllocationInv, AllocationTypes, RowTypes, OneIsLive, EnqueueAllocation
<1>b. \/ row = a
      \/ /\ a.state \in {"NONE", "REJECTED"}
         /\ row \in [state : ActionState, rec : Rec \cup {0}, version : Nat] /\ row.state = "QUEUED" /\ row.version = a.version + 1
  BY <1>a DEF Requeued, ActionState, AllocationInv, KeysAreNew
<1>c. /\ action' = [action EXCEPT ![p] = row]
      /\ IF row.state \in Pending THEN Insert(p, row.version) ELSE UNCHANGED outbox
      /\ dropped' = IF row.version # a.version THEN dropped \ {p} ELSE dropped
      /\ UNCHANGED <<chainVars, projection, approved, bounty, rec, intent, old, queue, job, faults, events>>
  BY DEF EnqueueAllocation
<1> HIDE DEF row
<1>d. /\ action'[p] = row /\ \A q \in Policy \ {p} : action'[q] = action[q]
      /\ action' \in [Policy -> [state : ActionState, rec : Rec \cup {0}, version : Nat]]
      /\ row.version \in Nat /\ a.version \in Nat /\ row.version >= a.version
  BY <1>a, <1>b, <1>c DEF AllocationInv, AllocationTypes, RowTypes
<1>e. /\ outbox \subseteq outbox'
      /\ \A k \in outbox' \ outbox : k = [policy |-> p, version |-> row.version, processed |-> FALSE]
  BY <1>c DEF Insert, OutboxRow
<1>f. outbox' \subseteq [policy : Policy, version : Nat, processed : BOOLEAN]
  <2>1. [policy |-> p, version |-> row.version, processed |-> FALSE]
          \in [policy : Policy, version : Nat, processed : BOOLEAN]
    BY <1>a, <1>d
  <2> QED BY <2>1, <1>e DEF AllocationInv, AllocationTypes, JobTypes
<1>1. AllocationTypes'
  BY <1>c, <1>d, <1>f DEF AllocationInv, AllocationTypes, ChainTypes, RowTypes, JobTypes, chainVars
<1>2. EndsAreTrue'
  BY <1>a, <1>b, <1>c, <1>d DEF AllocationInv, EndsAreTrue, EndIsTrue, chainVars
<1>3. JobRemembers'
  BY <1>a, <1>b, <1>c, <1>d DEF AllocationInv, JobRemembers, Idle, JobTypes, AllocationTypes,
     Pending, chainVars
<1>4. KeysAreNew'
  <2>1. ASSUME NEW k \in outbox' PROVE k.version <= action'[k.policy].version
    <3>1. CASE k \in outbox
      <4>1. k.policy \in Policy /\ k.version \in Nat /\ k.version <= action[k.policy].version
        BY <3>1 DEF AllocationInv, AllocationTypes, JobTypes, KeysAreNew
      <4> QED BY <4>1, <1>d
    <3>2. CASE k \notin outbox
      BY <3>2, <1>d, <1>e
    <3> QED BY <3>1, <3>2
  <2>2. \A q \in Policy : action'[q].state = "NONE" => action'[q].version = 0
    BY <1>a, <1>b, <1>d DEF AllocationInv, KeysAreNew
  <2> QED BY <2>1, <2>2 DEF KeysAreNew
<1>5. QueuedIsDispatched'
  <2> SUFFICES ASSUME NEW q \in Policy, action'[q].state = "QUEUED"
               PROVE  q \in queue' \/ q \in dropped' \/ \E k \in outbox' : k.policy = q /\ ~k.processed
    BY DEF QueuedIsDispatched
  <2>1. CASE q # p \/ row = a
    <3>1. action[q].state = "QUEUED"
      BY <2>1, <1>a, <1>d
    <3>2. q \in queue \/ q \in dropped \/ \E k \in outbox : k.policy = q /\ ~k.processed
      BY <3>1 DEF AllocationInv, QueuedIsDispatched
    <3>3. q \in dropped => q \in dropped'
      BY <2>1, <1>c
    <3> QED BY <3>2, <3>3, <1>c, <1>e
  <2>2. CASE q = p /\ row # a
    <3>1. row.version = a.version + 1 /\ Insert(p, row.version)
      BY <2>2, <1>b, <1>c DEF Pending
    <3>2. ~\E k \in outbox : k.policy = p /\ k.version = row.version
      BY <3>1, <1>a, <1>d DEF AllocationInv, AllocationTypes, JobTypes, KeysAreNew
    <3>3. [policy |-> p, version |-> row.version, processed |-> FALSE] \in outbox'
      BY <3>1, <3>2 DEF Insert, OutboxRow
    <3> QED BY <2>2, <3>3
  <2> QED BY <2>1, <2>2
<1>6. OneIsLive' /\ TransactionsAreMarked'
  BY DEF AllocationInv, EnqueueAllocation, chainVars, OneIsLive, Live, TransactionsAreMarked
<1> QED BY <1>1, <1>2, <1>3, <1>4, <1>5, <1>6 DEF AllocationInv

\* A retry has a key of its own.
LEMMA RetryAllocationKeeps ==
  ASSUME AllocationInv, NEW p \in Policy, RetryAllocation(p)
  PROVE  AllocationInv'
<1> DEFINE row == [action[p] EXCEPT !.version = @ + 1]
<1>a. action[p] \in [state : ActionState, rec : Rec \cup {0}, version : Nat]
  BY DEF AllocationInv, AllocationTypes, RowTypes
<1>b. /\ row \in [state : ActionState, rec : Rec \cup {0}, version : Nat] /\ row.state = action[p].state /\ row.version = action[p].version + 1
      /\ row.version \in Nat
  BY <1>a
<1>c. action' = [action EXCEPT ![p] = row]
  BY <1>a DEF RetryAllocation, AllocationInv, AllocationTypes, RowTypes
<1> HIDE DEF row
<1>d. /\ action'[p] = row /\ \A q \in Policy \ {p} : action'[q] = action[q]
      /\ action' \in [Policy -> [state : ActionState, rec : Rec \cup {0}, version : Nat]] /\ action[p].state \in Pending
  BY <1>b, <1>c DEF AllocationInv, AllocationTypes, RowTypes, RetryAllocation
<1>e. ~\E k \in outbox : k.policy = p /\ k.version = row.version
  BY <1>a, <1>b DEF AllocationInv, AllocationTypes, JobTypes, KeysAreNew
<1>f. outbox' = outbox \cup {[policy |-> p, version |-> row.version, processed |-> FALSE]}
  BY <1>b, <1>e DEF RetryAllocation, Insert, OutboxRow
<1>g. outbox' \subseteq [policy : Policy, version : Nat, processed : BOOLEAN]
  <2>1. [policy |-> p, version |-> row.version, processed |-> FALSE]
          \in [policy : Policy, version : Nat, processed : BOOLEAN]
    BY <1>b
  <2> QED BY <2>1, <1>f DEF AllocationInv, AllocationTypes, JobTypes
<1>1. AllocationTypes'
  BY <1>b, <1>d, <1>g DEF AllocationInv, AllocationTypes, ChainTypes, RowTypes, JobTypes,
     RetryAllocation, chainVars
<1>2. EndsAreTrue'
  BY <1>a, <1>b, <1>d, <1>f, <1>g DEF AllocationInv, RetryAllocation, chainVars, EndsAreTrue,
     EndIsTrue
<1>3. JobRemembers'
  BY <1>a, <1>b, <1>d, <1>f, <1>g DEF AllocationInv, RetryAllocation, chainVars, JobRemembers, Idle,
     Pending
<1>4. KeysAreNew'
  <2>1. ASSUME NEW k \in outbox' PROVE k.version <= action'[k.policy].version
    <3>1. CASE k \in outbox
      <4>1. k.policy \in Policy /\ k.version \in Nat /\ k.version <= action[k.policy].version
        BY <3>1 DEF AllocationInv, AllocationTypes, JobTypes, KeysAreNew
      <4> QED BY <4>1, <1>a, <1>b, <1>d
    <3>2. CASE k \notin outbox
      BY <3>2, <1>b, <1>d, <1>f
    <3> QED BY <3>1, <3>2
  <2>2. \A q \in Policy : action'[q].state = "NONE" => action'[q].version = 0
    BY <1>b, <1>d DEF AllocationInv, KeysAreNew, Pending
  <2> QED BY <2>1, <2>2 DEF KeysAreNew
<1>5. QueuedIsDispatched'
  <2> SUFFICES ASSUME NEW q \in Policy, action'[q].state = "QUEUED"
               PROVE  q \in queue' \/ q \in dropped' \/ \E k \in outbox' : k.policy = q /\ ~k.processed
    BY DEF QueuedIsDispatched
  <2>1. CASE q # p
    BY <2>1, <1>d, <1>f DEF AllocationInv, QueuedIsDispatched, RetryAllocation
  <2>2. CASE q = p
    <3> DEFINE k == [policy |-> p, version |-> row.version, processed |-> FALSE]
    <3>1. k \in outbox' /\ k.policy = p /\ ~k.processed
      BY <1>f
    <3> QED BY <2>2, <3>1
  <2> QED BY <2>1, <2>2
<1>6. OneIsLive' /\ TransactionsAreMarked'
  BY DEF AllocationInv, RetryAllocation, chainVars, OneIsLive, Live, TransactionsAreMarked
<1> QED BY <1>1, <1>2, <1>3, <1>4, <1>5, <1>6 DEF AllocationInv

\* A row becomes a job, unless its policy has one.
LEMMA DispatchBudgetOutboxKeeps ==
  ASSUME AllocationInv, NEW k \in outbox, DispatchBudgetOutbox(k)
  PROVE  AllocationInv'
<1> DEFINE done == [k EXCEPT !.processed = TRUE]
<1>a. /\ k \in [policy : Policy, version : Nat, processed : BOOLEAN]
      /\ done \in [policy : Policy, version : Nat, processed : BOOLEAN]
      /\ done.policy = k.policy /\ done.version = k.version
  BY DEF AllocationInv, AllocationTypes, JobTypes
<1>b. outbox' = (outbox \ {k}) \cup {done} /\ queue' = queue \cup {k.policy}
  BY DEF DispatchBudgetOutbox
<1> HIDE DEF done
<1>c. /\ outbox' \subseteq [policy : Policy, version : Nat, processed : BOOLEAN]
      /\ queue' \subseteq Policy
  BY <1>a, <1>b DEF AllocationInv, AllocationTypes, JobTypes
<1>1. AllocationTypes'
  BY <1>a, <1>b, <1>c DEF AllocationInv, AllocationTypes, ChainTypes, RowTypes, JobTypes,
     DispatchBudgetOutbox, chainVars, dbVars
<1>2. JobRemembers'
  BY <1>a, <1>b, <1>c DEF AllocationInv, DispatchBudgetOutbox, chainVars, dbVars, JobRemembers,
     Idle, Pending
<1>3. KeysAreNew'
  BY <1>a, <1>b, <1>c DEF AllocationInv, DispatchBudgetOutbox, chainVars, dbVars, KeysAreNew
<1>4. QueuedIsDispatched'
  BY <1>a, <1>b, <1>c DEF AllocationInv, DispatchBudgetOutbox, chainVars, dbVars, QueuedIsDispatched
<1>5. OneIsLive' /\ TransactionsAreMarked' /\ EndsAreTrue'
  BY DEF AllocationInv, DispatchBudgetOutbox, chainVars, dbVars, OneIsLive, Live,
     TransactionsAreMarked, EndsAreTrue, EndIsTrue
<1> QED BY <1>1, <1>2, <1>3, <1>4, <1>5 DEF AllocationInv

\* A job begins with what the chain says.
LEMMA StartKeeps ==
  ASSUME AllocationInv, NEW p \in Policy, Start(p)
  PROVE  AllocationInv'
<1>a. job.at = "IDLE" /\ p \in queue
  BY DEF Start, Idle
<1>b. \/ /\ action[p].state \notin Pending /\ queue' = queue \ {p} /\ UNCHANGED job
      \/ /\ action[p].state \in Pending /\ UNCHANGED queue
         /\ job'.of = p /\ job'.at \in {"RECORD", "RECEIPT", "CHECK"}
         /\ job'.at = "RECORD" => consumed[p] = "FINAL"
         /\ job' \in [of : Policy \cup {0}, at : Stage, permitted : BOOLEAN]
  <2>1. CASE action[p].state \notin Pending
    BY <2>1 DEF Start
  <2>2. CASE action[p].state \in Pending
    <3> DEFINE at == CASE FindAllocation(p) -> "RECORD"
                       [] ~FindAllocation(p) /\ intent[p] = "BROADCAST" -> "RECEIPT"
                       [] OTHER -> "CHECK"
    <3>1. at \in {"RECORD", "RECEIPT", "CHECK"} /\ (at = "RECORD" => consumed[p] = "FINAL")
      BY DEF FindAllocation
    <3>2. job' = [of |-> p, permitted |-> Permitted(p), at |-> at] /\ UNCHANGED queue
      BY <2>2 DEF Start
    <3>3. Permitted(p) \in BOOLEAN
      BY DEF Permitted
    <3> HIDE DEF at
    <3> QED BY <2>2, <3>1, <3>2, <3>3 DEF Stage
  <2> QED BY <2>1, <2>2
<1>c. UNCHANGED <<chainVars, dbVars, outbox, dropped>>
  BY DEF Start
<1>1. AllocationTypes'
  BY <1>b, <1>c DEF AllocationInv, AllocationTypes, ChainTypes, RowTypes, JobTypes, chainVars,
     dbVars
<1>2. JobRemembers'
  BY <1>a, <1>b, <1>c DEF AllocationInv, JobRemembers, Idle, chainVars, dbVars
<1>3. QueuedIsDispatched'
  BY <1>b, <1>c DEF AllocationInv, QueuedIsDispatched, Pending, dbVars
<1>4. OneIsLive' /\ TransactionsAreMarked' /\ EndsAreTrue' /\ KeysAreNew'
  BY DEF AllocationInv, Start, chainVars, dbVars, OneIsLive, Live, TransactionsAreMarked,
     EndsAreTrue, EndIsTrue, KeysAreNew
<1> QED BY <1>1, <1>2, <1>3, <1>4 DEF AllocationInv

\* The checks: the intent is prepared, or found and not too old; or the action
\* is rejected because nothing was ever prepared; or the job ends and comes back.
LEMMA CheckKeeps ==
  ASSUME AllocationInv, NEW usable \in BOOLEAN, Check(usable)
  PROVE  AllocationInv'
<1> DEFINE o == job.of
<1>a. job.at = "CHECK" /\ o \in Policy /\ o \in queue /\ action[o].state \in Pending
  BY JobOfPolicy DEF Check, AllocationInv, JobRemembers, Idle
<1>b. UNCHANGED <<chainVars, projection, approved, bounty, rec, old, outbox, faults, events>>
  BY DEF Check
<1>c. \/ /\ intent[o] = "NONE" /\ SetIntent("PREPARED") /\ SetState("PREPARED") /\ Goto("MARK")
         /\ UNCHANGED <<queue, dropped>>
      \/ /\ intent[o] # "NONE" /\ o \notin old /\ Goto("MARK") /\ UNCHANGED <<queue, dropped, action, intent>>
      \/ Throw /\ UNCHANGED <<action, intent>>
      \/ intent[o] = "NONE" /\ SetState("REJECTED") /\ Return /\ UNCHANGED intent
  BY DEF Check, MayReject
<1>d. CASE /\ intent[o] = "NONE" /\ SetIntent("PREPARED") /\ SetState("PREPARED") /\ Goto("MARK")
           /\ UNCHANGED <<queue, dropped>>
  <2>a. /\ action' \in [Policy -> [state : ActionState, rec : Rec \cup {0}, version : Nat]]
        /\ \A p \in Policy : action'[p].version = action[p].version
        /\ \A p \in Policy \ {job.of} : action'[p].state = action[p].state
        /\ action'[job.of].state = "PREPARED"
    BY <1>a, <1>d, SetStateShape DEF ActionState
  <2>b. /\ intent' \in [Policy -> IntentState] /\ intent'[job.of] = "PREPARED"
        /\ \A p \in Policy \ {job.of} : intent'[p] = intent[p]
    BY <1>a, <1>d, SetIntentShape DEF IntentState
  <2>c. /\ job' \in [of : Policy \cup {0}, at : Stage, permitted : BOOLEAN]
        /\ job'.of = job.of /\ job'.at = "MARK"
    BY <1>d, GotoShape DEF Stage
  <2>d. o \notin old
    BY <1>a, <1>d DEF AllocationInv, TransactionsAreMarked
  <2>1. AllocationTypes'
    BY <1>b, <1>d, <2>a, <2>b, <2>c DEF AllocationInv, AllocationTypes, ChainTypes, RowTypes,
       JobTypes, chainVars
  <2>2. OneIsLive'
    BY <1>b DEF AllocationInv, OneIsLive, Live
  <2>3. TransactionsAreMarked'
    BY <1>a, <1>b, <1>d, <2>b DEF AllocationInv, TransactionsAreMarked, Sent, chainVars
  <2>4. EndsAreTrue'
    <3> SUFFICES ASSUME NEW p \in Policy PROVE EndIsTrue(p)'
      BY DEF EndsAreTrue
    <3>1. EndIsTrue(p)
      BY DEF AllocationInv, EndsAreTrue
    <3>2. CASE p # o
      BY <1>b, <2>a, <2>b, <3>1, <3>2 DEF EndIsTrue, chainVars
    <3>3. CASE p = o
      BY <1>a, <1>b, <2>a, <2>b, <3>1, <3>3 DEF EndIsTrue, chainVars, Pending
    <3> QED BY <3>2, <3>3
  <2>5. JobRemembers'
    BY <1>a, <1>b, <1>d, <2>a, <2>b, <2>c, <2>d DEF JobRemembers, Pending
  <2>6. KeysAreNew'
    <3>1. \A k \in outbox : k.policy \in Policy
      BY DEF AllocationInv, AllocationTypes, JobTypes
    <3>2. \A p \in Policy : action'[p].state = "NONE" => action[p].state = "NONE"
      BY <2>a
    <3> QED BY <1>b, <2>a, <3>1, <3>2 DEF AllocationInv, KeysAreNew
  <2>7. QueuedIsDispatched'
    <3>1. \A p \in Policy : action'[p].state = "QUEUED" => p # o /\ action[p].state = "QUEUED"
      BY <2>a
    <3> QED BY <1>b, <1>d, <3>1 DEF AllocationInv, QueuedIsDispatched
  <2> QED BY <2>1, <2>2, <2>3, <2>4, <2>5, <2>6, <2>7 DEF AllocationInv
<1>e. CASE /\ intent[o] # "NONE" /\ o \notin old /\ Goto("MARK") /\ UNCHANGED <<queue, dropped, action, intent>>
  <2>a. /\ job' \in [of : Policy \cup {0}, at : Stage, permitted : BOOLEAN]
        /\ job'.of = job.of /\ job'.at = "MARK"
    BY <1>e, GotoShape DEF Stage
  <2>1. AllocationTypes'
    BY <1>b, <1>e, <2>a DEF AllocationInv, AllocationTypes, ChainTypes, RowTypes, JobTypes,
       chainVars
  <2>2. OneIsLive'
    BY <1>b DEF AllocationInv, OneIsLive, Live
  <2>3. TransactionsAreMarked'
    BY <1>b, <1>e DEF AllocationInv, TransactionsAreMarked, chainVars
  <2>4. EndsAreTrue'
    BY <1>b, <1>e DEF AllocationInv, EndsAreTrue, EndIsTrue, chainVars
  <2>5. JobRemembers'
    BY <1>a, <1>b, <1>e, <2>a DEF JobRemembers
  <2>6. KeysAreNew'
    BY <1>b, <1>e DEF AllocationInv, KeysAreNew
  <2>7. QueuedIsDispatched'
    BY <1>b, <1>e DEF AllocationInv, QueuedIsDispatched
  <2> QED BY <2>1, <2>2, <2>3, <2>4, <2>5, <2>6, <2>7 DEF AllocationInv
<1>f. CASE Throw /\ UNCHANGED <<action, intent>>
  BY <1>a, <1>b, <1>f, ThrowKeeps
<1>g. CASE intent[o] = "NONE" /\ SetState("REJECTED") /\ Return /\ UNCHANGED intent
  <2>a. /\ action' \in [Policy -> [state : ActionState, rec : Rec \cup {0}, version : Nat]]
        /\ \A p \in Policy : action'[p].version = action[p].version
        /\ \A p \in Policy \ {job.of} : action'[p].state = action[p].state
        /\ action'[job.of].state = "REJECTED"
    BY <1>a, <1>g, SetStateShape DEF ActionState
  <2>b. /\ job' = Idle /\ job'.at = "IDLE"
        /\ job' \in [of : Policy \cup {0}, at : Stage, permitted : BOOLEAN]
        /\ queue' \subseteq queue /\ queue \ {job.of} \subseteq queue'
        /\ dropped \subseteq dropped'
    BY <1>a, <1>g, EndShape
  <2>1. AllocationTypes'
    BY <1>b, <1>g, <2>a, <2>b DEF AllocationInv, AllocationTypes, ChainTypes, RowTypes, JobTypes,
       chainVars
  <2>2. OneIsLive'
    BY <1>b DEF AllocationInv, OneIsLive, Live
  <2>3. TransactionsAreMarked'
    BY <1>b, <1>g DEF AllocationInv, TransactionsAreMarked, chainVars
  <2>4. EndsAreTrue'
    <3> SUFFICES ASSUME NEW p \in Policy PROVE EndIsTrue(p)'
      BY DEF EndsAreTrue
    <3>1. EndIsTrue(p)
      BY DEF AllocationInv, EndsAreTrue
    <3>2. CASE p # o
      BY <1>b, <1>g, <2>a, <3>1, <3>2 DEF EndIsTrue, chainVars
    <3>3. CASE p = o
      BY <1>a, <1>b, <1>g, <2>a, <3>1, <3>3 DEF EndIsTrue, chainVars, Pending
    <3> QED BY <3>2, <3>3
  <2>5. JobRemembers'
    BY <2>b DEF JobRemembers
  <2>6. KeysAreNew'
    <3>1. \A k \in outbox : k.policy \in Policy
      BY DEF AllocationInv, AllocationTypes, JobTypes
    <3>2. \A p \in Policy : action'[p].state = "NONE" => action[p].state = "NONE"
      BY <2>a
    <3> QED BY <1>b, <2>a, <3>1, <3>2 DEF AllocationInv, KeysAreNew
  <2>7. QueuedIsDispatched'
    <3>1. \A p \in Policy : action'[p].state = "QUEUED" => p # o /\ action[p].state = "QUEUED"
      BY <2>a
    <3> QED BY <1>b, <2>b, <3>1 DEF AllocationInv, QueuedIsDispatched
  <2> QED BY <2>1, <2>2, <2>3, <2>4, <2>5, <2>6, <2>7 DEF AllocationInv
<1> QED BY <1>c, <1>d, <1>e, <1>f, <1>g

\* The final receipt of the saved transaction: none yet, a revert, or success.
LEMMA ReadReceiptKeeps ==
  ASSUME AllocationInv, ReadReceipt
  PROVE  AllocationInv'
<1> DEFINE o == job.of
<1>a. job.at = "RECEIPT" /\ o \in Policy /\ o \in queue /\ action[o].state \in Pending
  BY JobOfPolicy DEF ReadReceipt, AllocationInv, JobRemembers, Idle
<1>b. UNCHANGED <<chainVars, projection, approved, bounty, rec, intent, old, outbox, faults, events>>
  BY DEF ReadReceipt
<1>c. CASE Throw /\ UNCHANGED action
  BY <1>a, <1>b, <1>c, ThrowKeeps
<1>d. CASE /\ tx[o] = "REVERTED_FINAL" /\ SetState("FAILED") /\ Goto("REVERT")
           /\ UNCHANGED <<queue, dropped>>
  <2>a. /\ action' \in [Policy -> [state : ActionState, rec : Rec \cup {0}, version : Nat]]
        /\ \A p \in Policy : action'[p].version = action[p].version
        /\ \A p \in Policy \ {job.of} : action'[p].state = action[p].state
        /\ action'[job.of].state = "FAILED"
    BY <1>a, <1>d, SetStateShape DEF ActionState
  <2>b. /\ job' \in [of : Policy \cup {0}, at : Stage, permitted : BOOLEAN]
        /\ job'.of = job.of /\ job'.at = "REVERT"
    BY <1>d, GotoShape DEF Stage
  <2>1. AllocationTypes'
    BY <1>b, <1>d, <2>a, <2>b DEF AllocationInv, AllocationTypes, ChainTypes, RowTypes, JobTypes,
       chainVars
  <2>2. OneIsLive'
    BY <1>b DEF AllocationInv, OneIsLive, Live
  <2>3. TransactionsAreMarked'
    BY <1>b DEF AllocationInv, TransactionsAreMarked, chainVars
  <2>4. EndsAreTrue'
    <3> SUFFICES ASSUME NEW p \in Policy PROVE EndIsTrue(p)'
      BY DEF EndsAreTrue
    <3>1. EndIsTrue(p)
      BY DEF AllocationInv, EndsAreTrue
    <3>2. CASE p # o
      BY <1>b, <2>a, <3>1, <3>2 DEF EndIsTrue, chainVars
    <3>3. CASE p = o
      BY <1>a, <1>b, <1>d, <2>a, <3>1, <3>3 DEF EndIsTrue, chainVars, Pending
    <3> QED BY <3>2, <3>3
  <2>5. JobRemembers'
    BY <1>a, <1>b, <1>d, <2>a, <2>b DEF JobRemembers
  <2>6. KeysAreNew'
    <3>1. \A k \in outbox : k.policy \in Policy
      BY DEF AllocationInv, AllocationTypes, JobTypes
    <3>2. \A p \in Policy : action'[p].state = "NONE" => action[p].state = "NONE"
      BY <2>a
    <3> QED BY <1>b, <2>a, <3>1, <3>2 DEF AllocationInv, KeysAreNew
  <2>7. QueuedIsDispatched'
    <3>1. \A p \in Policy : action'[p].state = "QUEUED" => p # o /\ action[p].state = "QUEUED"
      BY <2>a
    <3> QED BY <1>b, <1>d, <3>1 DEF AllocationInv, QueuedIsDispatched
  <2> QED BY <2>1, <2>2, <2>3, <2>4, <2>5, <2>6, <2>7 DEF AllocationInv
<1>e. CASE tx[o] = "DONE_FINAL" /\ Goto("RECORD") /\ UNCHANGED <<action, queue, dropped>>
  <2>a. /\ job' \in [of : Policy \cup {0}, at : Stage, permitted : BOOLEAN]
        /\ job'.of = job.of /\ job'.at = "RECORD"
    BY <1>e, GotoShape DEF Stage
  <2>b. consumed[o] = "FINAL"
    BY <1>a, <1>e DEF AllocationInv, TransactionsAreMarked
  <2>1. AllocationTypes'
    BY <1>b, <1>e, <2>a DEF AllocationInv, AllocationTypes, ChainTypes, RowTypes, JobTypes,
       chainVars
  <2>2. OneIsLive'
    BY <1>b DEF AllocationInv, OneIsLive, Live
  <2>3. TransactionsAreMarked'
    BY <1>b DEF AllocationInv, TransactionsAreMarked, chainVars
  <2>4. EndsAreTrue'
    BY <1>b, <1>e DEF AllocationInv, EndsAreTrue, EndIsTrue, chainVars
  <2>5. JobRemembers'
    BY <1>a, <1>b, <1>e, <2>a, <2>b DEF JobRemembers, chainVars
  <2>6. KeysAreNew'
    BY <1>b, <1>e DEF AllocationInv, KeysAreNew
  <2>7. QueuedIsDispatched'
    BY <1>b, <1>e DEF AllocationInv, QueuedIsDispatched
  <2> QED BY <2>1, <2>2, <2>3, <2>4, <2>5, <2>6, <2>7 DEF AllocationInv
<1> QED BY <1>c, <1>d, <1>e DEF ReadReceipt

\* The intent is marked before its request is sent.
LEMMA MarkIntentKeeps ==
  ASSUME AllocationInv, MarkIntent
  PROVE  AllocationInv'
<1>a. job.at = "MARK" /\ job.of \in Policy /\ job.of \in queue
  BY JobOfPolicy DEF MarkIntent, Idle
<1>b. SetIntent("SUBMITTED") /\ Goto("MARKED")
  BY DEF MarkIntent
<1>c. /\ intent' \in [Policy -> IntentState] /\ intent'[job.of] = "SUBMITTED"
      /\ \A p \in Policy \ {job.of} : intent'[p] = intent[p]
  BY <1>a, <1>b, SetIntentShape DEF IntentState
<1>d. /\ job' \in [of : Policy \cup {0}, at : Stage, permitted : BOOLEAN]
      /\ job'.of = job.of /\ job'.at = "MARKED"
  BY <1>b, GotoShape DEF Stage
<1>z. action[job.of].state \in Pending
  BY <1>a DEF AllocationInv, JobRemembers, Idle
<1>1. AllocationTypes'
  BY <1>a, <1>c, <1>d, <1>z DEF AllocationInv, AllocationTypes, ChainTypes, RowTypes, JobTypes,
     MarkIntent, chainVars
<1>2. TransactionsAreMarked'
  BY <1>a, <1>c, <1>d, <1>z DEF AllocationInv, MarkIntent, chainVars, TransactionsAreMarked, Sent
<1>3. EndsAreTrue'
  <2> SUFFICES ASSUME NEW p \in Policy PROVE EndIsTrue(p)'
    BY DEF EndsAreTrue
  <2>1. EndIsTrue(p)
    BY DEF AllocationInv, EndsAreTrue
  <2>2. CASE p # job.of
    BY <1>a, <1>c, <1>d, <1>z, <2>1, <2>2 DEF MarkIntent, EndIsTrue, chainVars, dbVars
  <2>3. CASE p = job.of
    BY <1>a, <1>c, <1>d, <1>z, <2>1, <2>3 DEF MarkIntent, EndIsTrue, Pending, chainVars, dbVars
  <2> QED BY <2>2, <2>3
<1>4. JobRemembers'
  BY <1>a, <1>c, <1>d, <1>z DEF AllocationInv, MarkIntent, chainVars, JobRemembers, Idle, Pending
<1>5. OneIsLive' /\ KeysAreNew' /\ QueuedIsDispatched'
  BY DEF AllocationInv, MarkIntent, chainVars, OneIsLive, Live, KeysAreNew, QueuedIsDispatched
<1> QED BY <1>1, <1>2, <1>3, <1>4, <1>5 DEF AllocationInv

\* So is the action.
LEMMA MarkActionKeeps ==
  ASSUME AllocationInv, MarkAction
  PROVE  AllocationInv'
<1>a. job.at = "MARKED" /\ job.of \in Policy /\ job.of \in queue
  BY JobOfPolicy DEF MarkAction, Idle
<1>b. SetState("SUBMITTED") /\ Goto("SEND")
  BY DEF MarkAction
<1>c. /\ action' \in [Policy -> [state : ActionState, rec : Rec \cup {0}, version : Nat]]
      /\ \A p \in Policy : action'[p].version = action[p].version
      /\ \A p \in Policy \ {job.of} : action'[p].state = action[p].state
      /\ action'[job.of].state = "SUBMITTED"
  BY <1>a, <1>b, SetStateShape DEF ActionState
<1>d. /\ job' \in [of : Policy \cup {0}, at : Stage, permitted : BOOLEAN]
      /\ job'.of = job.of /\ job'.at = "SEND"
  BY <1>b, GotoShape DEF Stage
<1>z. action[job.of].state \in Pending
  BY <1>a DEF AllocationInv, JobRemembers, Idle
<1>1. AllocationTypes'
  BY <1>a, <1>c, <1>d, <1>z DEF AllocationInv, AllocationTypes, ChainTypes, RowTypes, JobTypes,
     MarkAction, chainVars
<1>2. EndsAreTrue'
  <2> SUFFICES ASSUME NEW p \in Policy PROVE EndIsTrue(p)'
    BY DEF EndsAreTrue
  <2>1. EndIsTrue(p)
    BY DEF AllocationInv, EndsAreTrue
  <2>2. CASE p # job.of
    BY <1>a, <1>c, <1>d, <1>z, <2>1, <2>2 DEF MarkAction, EndIsTrue, chainVars, dbVars
  <2>3. CASE p = job.of
    BY <1>a, <1>c, <1>d, <1>z, <2>1, <2>3 DEF MarkAction, EndIsTrue, Pending, chainVars, dbVars
  <2> QED BY <2>2, <2>3
<1>3. JobRemembers'
  BY <1>a, <1>c, <1>d, <1>z DEF AllocationInv, MarkAction, chainVars, JobRemembers, Idle, Pending
<1>4. KeysAreNew'
  <2>1. \A k \in outbox : k.policy \in Policy
    BY DEF AllocationInv, AllocationTypes, JobTypes
  <2>2. UNCHANGED outbox /\ \A p \in Policy : action'[p].state = "NONE" => action[p].state = "NONE"
    BY <1>c DEF MarkAction
  <2> QED BY <2>1, <2>2, <1>c DEF AllocationInv, KeysAreNew
<1>5. QueuedIsDispatched'
  <2>1. \A p \in Policy : action'[p].state = "QUEUED" => p # job.of /\ action[p].state = "QUEUED"
    BY <1>c
  <2> QED BY <1>a, <1>c, <1>d, <1>z, <2>1 DEF AllocationInv, QueuedIsDispatched, MarkAction
<1>6. OneIsLive' /\ TransactionsAreMarked'
  BY DEF AllocationInv, MarkAction, chainVars, OneIsLive, Live, TransactionsAreMarked
<1> QED BY <1>1, <1>2, <1>3, <1>4, <1>5, <1>6 DEF AllocationInv

\* Circle accepts the request, or recognizes it.
LEMMA SendKeeps ==
  ASSUME AllocationInv, Send
  PROVE  AllocationInv'
<1>a. job.at = "SEND" /\ job.of \in Policy /\ job.of \in queue
  BY JobOfPolicy DEF Send, Idle
<1>b. Accept(job.of) /\ SetIntent("BROADCAST") /\ Goto("SAVED")
  BY DEF Send
<1>c. /\ intent' \in [Policy -> IntentState] /\ intent'[job.of] = "BROADCAST"
      /\ \A p \in Policy \ {job.of} : intent'[p] = intent[p]
  BY <1>a, <1>b, SetIntentShape DEF IntentState
<1>d. /\ job' \in [of : Policy \cup {0}, at : Stage, permitted : BOOLEAN]
      /\ job'.of = job.of /\ job'.at = "SAVED"
  BY <1>b, GotoShape DEF Stage
<1>e. /\ accepted' \in [Policy -> {0, 1}] /\ accepted'[job.of] = 1
      /\ tx' \in [Policy -> {"NONE", "SENT", "DONE", "REVERTED", "DONE_FINAL", "REVERTED_FINAL"}]
      /\ \A p \in Policy \ {job.of} : tx'[p] = tx[p] /\ accepted'[p] = accepted[p]
      /\ tx'[job.of] = "SENT" \/ (tx'[job.of] = tx[job.of] /\ tx[job.of] # "NONE")
  BY <1>a, <1>b, AcceptShape
<1>z. action[job.of].state \in Pending
  BY <1>a DEF AllocationInv, JobRemembers, Idle
<1>1. AllocationTypes'
  BY <1>a, <1>c, <1>d, <1>e, <1>z DEF AllocationInv, AllocationTypes, ChainTypes, RowTypes,
     JobTypes, Send
<1>2. TransactionsAreMarked'
  BY <1>a, <1>c, <1>d, <1>e, <1>z DEF AllocationInv, Send, TransactionsAreMarked, Sent
<1>3. EndsAreTrue'
  <2> SUFFICES ASSUME NEW p \in Policy PROVE EndIsTrue(p)'
    BY DEF EndsAreTrue
  <2>1. EndIsTrue(p)
    BY DEF AllocationInv, EndsAreTrue
  <2>2. CASE p # job.of
    BY <1>a, <1>c, <1>d, <1>e, <1>z, <2>1, <2>2 DEF Send, EndIsTrue, chainVars, dbVars
  <2>3. CASE p = job.of
    BY <1>a, <1>c, <1>d, <1>e, <1>z, <2>1, <2>3 DEF Send, EndIsTrue, Pending, chainVars, dbVars
  <2> QED BY <2>2, <2>3
<1>4. JobRemembers'
  BY <1>a, <1>c, <1>d, <1>e, <1>z DEF AllocationInv, Send, JobRemembers, Idle, Pending
<1>5. OneIsLive' /\ KeysAreNew' /\ QueuedIsDispatched'
  BY DEF AllocationInv, Send, OneIsLive, Live, KeysAreNew, QueuedIsDispatched
<1> QED BY <1>1, <1>2, <1>3, <1>4, <1>5 DEF AllocationInv

\* It does so, and the answer is lost.
LEMMA LoseResponseKeeps ==
  ASSUME AllocationInv, LoseResponse
  PROVE  AllocationInv'
<1>a. job.at = "SEND" /\ job.of \in Policy /\ job.of \in queue
  BY JobOfPolicy DEF LoseResponse, Idle
<1>b. Accept(job.of) /\ Throw
  BY DEF LoseResponse
<1>c. /\ job' = Idle /\ job'.at = "IDLE"
      /\ job' \in [of : Policy \cup {0}, at : Stage, permitted : BOOLEAN]
      /\ queue' \subseteq queue /\ queue \ {job.of} \subseteq queue'
      /\ dropped \subseteq dropped'
  BY <1>a, <1>b, EndShape
<1>d. job.of \in queue' \cup dropped'
  BY <1>a, <1>b, EndShape
<1>e. /\ accepted' \in [Policy -> {0, 1}] /\ accepted'[job.of] = 1
      /\ tx' \in [Policy -> {"NONE", "SENT", "DONE", "REVERTED", "DONE_FINAL", "REVERTED_FINAL"}]
      /\ \A p \in Policy \ {job.of} : tx'[p] = tx[p] /\ accepted'[p] = accepted[p]
      /\ tx'[job.of] = "SENT" \/ (tx'[job.of] = tx[job.of] /\ tx[job.of] # "NONE")
  BY <1>a, <1>b, AcceptShape
<1>f. intent[job.of] = "SUBMITTED"
  BY <1>a DEF AllocationInv, JobRemembers, Idle
<1>z. action[job.of].state \in Pending
  BY <1>a DEF AllocationInv, JobRemembers, Idle
<1>1. AllocationTypes'
  BY <1>a, <1>c, <1>d, <1>e, <1>f, <1>z DEF AllocationInv, AllocationTypes, ChainTypes, RowTypes,
     JobTypes, LoseResponse, dbVars
<1>2. TransactionsAreMarked'
  BY <1>a, <1>c, <1>d, <1>e, <1>f, <1>z DEF AllocationInv, LoseResponse, dbVars,
     TransactionsAreMarked, Sent
<1>3. EndsAreTrue'
  <2> SUFFICES ASSUME NEW p \in Policy PROVE EndIsTrue(p)'
    BY DEF EndsAreTrue
  <2>1. EndIsTrue(p)
    BY DEF AllocationInv, EndsAreTrue
  <2>2. CASE p # job.of
    BY <1>a, <1>c, <1>d, <1>e, <1>f, <1>z, <2>1, <2>2 DEF LoseResponse, EndIsTrue, chainVars, dbVars
  <2>3. CASE p = job.of
    BY <1>a, <1>c, <1>d, <1>e, <1>f, <1>z, <2>1, <2>3 DEF LoseResponse, EndIsTrue, Pending,
       chainVars, dbVars
  <2> QED BY <2>2, <2>3
<1>4. JobRemembers'
  BY <1>a, <1>c, <1>d, <1>e, <1>f, <1>z DEF AllocationInv, LoseResponse, dbVars, JobRemembers, Idle,
     Pending
<1>5. QueuedIsDispatched'
  BY <1>a, <1>c, <1>d, <1>e, <1>f, <1>z DEF AllocationInv, LoseResponse, dbVars, QueuedIsDispatched
<1>6. OneIsLive' /\ KeysAreNew'
  BY DEF AllocationInv, LoseResponse, dbVars, OneIsLive, Live, KeysAreNew
<1> QED BY <1>1, <1>2, <1>3, <1>4, <1>5, <1>6 DEF AllocationInv

\* The action waits for its receipt.
LEMMA ConfirmActionKeeps ==
  ASSUME AllocationInv, ConfirmAction
  PROVE  AllocationInv'
<1>a. job.at = "SAVED" /\ job.of \in Policy /\ job.of \in queue
  BY JobOfPolicy DEF ConfirmAction, Idle
<1>b. SetState("CONFIRMING") /\ Goto("RECEIPT")
  BY DEF ConfirmAction
<1>c. /\ action' \in [Policy -> [state : ActionState, rec : Rec \cup {0}, version : Nat]]
      /\ \A p \in Policy : action'[p].version = action[p].version
      /\ \A p \in Policy \ {job.of} : action'[p].state = action[p].state
      /\ action'[job.of].state = "CONFIRMING"
  BY <1>a, <1>b, SetStateShape DEF ActionState
<1>d. /\ job' \in [of : Policy \cup {0}, at : Stage, permitted : BOOLEAN]
      /\ job'.of = job.of /\ job'.at = "RECEIPT"
  BY <1>b, GotoShape DEF Stage
<1>z. action[job.of].state \in Pending
  BY <1>a DEF AllocationInv, JobRemembers, Idle
<1>1. AllocationTypes'
  BY <1>a, <1>c, <1>d, <1>z DEF AllocationInv, AllocationTypes, ChainTypes, RowTypes, JobTypes,
     ConfirmAction, chainVars
<1>2. EndsAreTrue'
  <2> SUFFICES ASSUME NEW p \in Policy PROVE EndIsTrue(p)'
    BY DEF EndsAreTrue
  <2>1. EndIsTrue(p)
    BY DEF AllocationInv, EndsAreTrue
  <2>2. CASE p # job.of
    BY <1>a, <1>c, <1>d, <1>z, <2>1, <2>2 DEF ConfirmAction, EndIsTrue, chainVars, dbVars
  <2>3. CASE p = job.of
    BY <1>a, <1>c, <1>d, <1>z, <2>1, <2>3 DEF ConfirmAction, EndIsTrue, Pending, chainVars, dbVars
  <2> QED BY <2>2, <2>3
<1>3. JobRemembers'
  BY <1>a, <1>c, <1>d, <1>z DEF AllocationInv, ConfirmAction, chainVars, JobRemembers, Idle, Pending
<1>4. KeysAreNew'
  <2>1. \A k \in outbox : k.policy \in Policy
    BY DEF AllocationInv, AllocationTypes, JobTypes
  <2>2. UNCHANGED outbox /\ \A p \in Policy : action'[p].state = "NONE" => action[p].state = "NONE"
    BY <1>c DEF ConfirmAction
  <2> QED BY <2>1, <2>2, <1>c DEF AllocationInv, KeysAreNew
<1>5. QueuedIsDispatched'
  <2>1. \A p \in Policy : action'[p].state = "QUEUED" => p # job.of /\ action[p].state = "QUEUED"
    BY <1>c
  <2> QED BY <1>a, <1>c, <1>d, <1>z, <2>1 DEF AllocationInv, QueuedIsDispatched, ConfirmAction
<1>6. OneIsLive' /\ TransactionsAreMarked'
  BY DEF AllocationInv, ConfirmAction, chainVars, OneIsLive, Live, TransactionsAreMarked
<1> QED BY <1>1, <1>2, <1>3, <1>4, <1>5, <1>6 DEF AllocationInv

\* The revert is recorded.
LEMMA MarkRevertedKeeps ==
  ASSUME AllocationInv, MarkReverted
  PROVE  AllocationInv'
<1>a. job.at = "REVERT" /\ job.of \in Policy /\ job.of \in queue
  BY JobOfPolicy DEF MarkReverted, Idle
<1>b. SetIntent("REVERTED") /\ Return
  BY DEF MarkReverted
<1>c. /\ intent' \in [Policy -> IntentState] /\ intent'[job.of] = "REVERTED"
      /\ \A p \in Policy \ {job.of} : intent'[p] = intent[p]
  BY <1>a, <1>b, SetIntentShape DEF IntentState
<1>d. /\ job' = Idle /\ job'.at = "IDLE"
      /\ job' \in [of : Policy \cup {0}, at : Stage, permitted : BOOLEAN]
      /\ queue' \subseteq queue /\ queue \ {job.of} \subseteq queue'
      /\ dropped \subseteq dropped'
  BY <1>a, <1>b, EndShape
<1>e. action[job.of].state = "FAILED"
  BY <1>a DEF AllocationInv, JobRemembers, Idle
<1>1. AllocationTypes'
  BY <1>a, <1>c, <1>d, <1>e DEF AllocationInv, AllocationTypes, ChainTypes, RowTypes, JobTypes,
     MarkReverted, chainVars
<1>2. TransactionsAreMarked'
  <2>1. UNCHANGED <<accepted, tx, consumed, old>>
    BY DEF MarkReverted, chainVars
  <2>2. \A p \in Policy :
         (intent[p] \in Sent => intent'[p] \in Sent) /\ (intent[p] # "NONE" => intent'[p] # "NONE")
    BY <1>a, <1>c DEF Sent
  <2> QED BY <2>1, <2>2 DEF AllocationInv, TransactionsAreMarked
<1>3. EndsAreTrue'
  <2> SUFFICES ASSUME NEW p \in Policy PROVE EndIsTrue(p)'
    BY DEF EndsAreTrue
  <2>1. EndIsTrue(p)
    BY DEF AllocationInv, EndsAreTrue
  <2>2. CASE p # job.of
    BY <1>a, <1>c, <1>d, <1>e, <2>1, <2>2 DEF MarkReverted, EndIsTrue, chainVars, dbVars
  <2>3. CASE p = job.of
    BY <1>a, <1>c, <1>d, <1>e, <2>1, <2>3 DEF MarkReverted, EndIsTrue, Pending, chainVars, dbVars
  <2> QED BY <2>2, <2>3
<1>4. JobRemembers'
  BY <1>a, <1>c, <1>d, <1>e DEF AllocationInv, MarkReverted, chainVars, JobRemembers, Idle, Pending
<1>5. QueuedIsDispatched'
  BY <1>a, <1>c, <1>d, <1>e DEF AllocationInv, MarkReverted, chainVars, QueuedIsDispatched
<1>6. OneIsLive' /\ KeysAreNew'
  BY DEF AllocationInv, MarkReverted, chainVars, OneIsLive, Live, KeysAreNew
<1> QED BY <1>1, <1>2, <1>3, <1>4, <1>5, <1>6 DEF AllocationInv

\* The final allocation is recorded, with its bounty, approval and intent.
LEMMA SaveAllocationKeeps ==
  ASSUME AllocationInv, SaveAllocation
  PROVE  AllocationInv'
<1>a. job.at = "RECORD" /\ job.of \in Policy /\ job.of \in queue
  BY JobOfPolicy DEF SaveAllocation, Idle
<1>b. SetState("COMPLETE") /\ SetIntent(Resolved(job.of)) /\ Return
  BY DEF SaveAllocation
<1>c. /\ action' \in [Policy -> [state : ActionState, rec : Rec \cup {0}, version : Nat]]
      /\ \A p \in Policy : action'[p].version = action[p].version
      /\ \A p \in Policy \ {job.of} : action'[p].state = action[p].state
      /\ action'[job.of].state = "COMPLETE"
  BY <1>a, <1>b, SetStateShape DEF ActionState
<1>d. /\ job' = Idle /\ job'.at = "IDLE"
      /\ job' \in [of : Policy \cup {0}, at : Stage, permitted : BOOLEAN]
      /\ queue' \subseteq queue /\ queue \ {job.of} \subseteq queue'
      /\ dropped \subseteq dropped'
  BY <1>a, <1>b, EndShape
<1>e. /\ Resolved(job.of) \in {"NONE", "CONFIRMED", "RECONCILED"}
      /\ Resolved(job.of) = "NONE" <=> intent[job.of] = "NONE"
      /\ Resolved(job.of) = "RECONCILED" => consumer[job.of] = "OTHER"
  BY DEF Resolved
<1>f. /\ intent' \in [Policy -> IntentState] /\ intent'[job.of] = Resolved(job.of)
      /\ \A p \in Policy \ {job.of} : intent'[p] = intent[p]
  BY <1>a, <1>b, <1>e, SetIntentShape DEF IntentState
<1>g. consumed[job.of] = "FINAL"
  BY <1>a DEF AllocationInv, JobRemembers, Idle
<1>h. /\ bounty' \in [Policy -> {"NONE", "FUNDED", "CLOSED"}] /\ bounty'[job.of] # "NONE"
      /\ \A p \in Policy \ {job.of} : bounty'[p] = bounty[p]
      /\ approved' \in [Policy -> ApprovedState] /\ approved'[job.of] # "CURRENT"
      /\ \A p \in Policy \ {job.of} : approved'[p] = approved[p]
  BY <1>a DEF SaveAllocation, AllocationInv, AllocationTypes, RowTypes, ApprovedState
<1>z. action[job.of].state \in Pending
  BY <1>a DEF AllocationInv, JobRemembers, Idle
<1>1. AllocationTypes'
  BY <1>a, <1>c, <1>d, <1>e, <1>f, <1>g, <1>h, <1>z DEF AllocationInv, AllocationTypes, ChainTypes,
     RowTypes, JobTypes, SaveAllocation, chainVars
<1>2. TransactionsAreMarked'
  <2>1. UNCHANGED <<accepted, tx, consumed, old>>
    BY DEF SaveAllocation, chainVars
  <2>2. \A p \in Policy :
         (intent[p] \in Sent => intent'[p] \in Sent) /\ (intent[p] # "NONE" => intent'[p] # "NONE")
    BY <1>a, <1>e, <1>f DEF Sent
  <2> QED BY <2>1, <2>2 DEF AllocationInv, TransactionsAreMarked
<1>3. EndsAreTrue'
  <2> SUFFICES ASSUME NEW p \in Policy PROVE EndIsTrue(p)'
    BY DEF EndsAreTrue
  <2>1. EndIsTrue(p)
    BY DEF AllocationInv, EndsAreTrue
  <2>2. CASE p # job.of
    BY <1>a, <1>c, <1>d, <1>e, <1>f, <1>g, <1>h, <1>z, <2>1, <2>2 DEF SaveAllocation, EndIsTrue,
       chainVars, dbVars
  <2>3. CASE p = job.of
    BY <1>a, <1>c, <1>d, <1>e, <1>f, <1>g, <1>h, <1>z, <2>1, <2>3 DEF SaveAllocation, EndIsTrue,
       Pending, chainVars, dbVars
  <2> QED BY <2>2, <2>3
<1>4. JobRemembers'
  BY <1>a, <1>c, <1>d, <1>e, <1>f, <1>g, <1>h, <1>z DEF AllocationInv, SaveAllocation, chainVars,
     JobRemembers, Idle, Pending
<1>5. KeysAreNew'
  <2>1. \A k \in outbox : k.policy \in Policy
    BY DEF AllocationInv, AllocationTypes, JobTypes
  <2>2. UNCHANGED outbox /\ \A p \in Policy : action'[p].state = "NONE" => action[p].state = "NONE"
    BY <1>c DEF SaveAllocation
  <2> QED BY <2>1, <2>2, <1>c DEF AllocationInv, KeysAreNew
<1>6. QueuedIsDispatched'
  <2>1. \A p \in Policy : action'[p].state = "QUEUED" => p # job.of /\ action[p].state = "QUEUED"
    BY <1>c
  <2> QED BY <1>a, <1>c, <1>d, <1>e, <1>f, <1>g, <1>h, <1>z, <2>1 DEF AllocationInv,
     QueuedIsDispatched, SaveAllocation
<1>7. OneIsLive'
  BY DEF AllocationInv, SaveAllocation, chainVars, OneIsLive, Live
<1> QED BY <1>1, <1>2, <1>3, <1>4, <1>5, <1>6, <1>7 DEF AllocationInv

\* A job that crashes keeps the invariant.
LEMMA CrashKeeps ==
  ASSUME AllocationInv, Crash
  PROVE  AllocationInv'
<1>1. job.at # "IDLE"
  BY DEF Crash, AllocationInv, JobRemembers
<1> QED BY <1>1, ThrowKeeps DEF Crash, dbVars

\* Hours pass.
LEMMA GrowKeeps ==
  ASSUME AllocationInv, NEW p \in Policy, Grow(p)
  PROVE  AllocationInv'
<1>1. AllocationTypes'
  BY DEF AllocationInv, AllocationTypes, ChainTypes, RowTypes, JobTypes, Grow, chainVars, jobVars,
     ApprovedState, ActionState, IntentState, Stage
<1>2. TransactionsAreMarked'
  BY DEF AllocationInv, Grow, chainVars, jobVars, TransactionsAreMarked, Sent
<1>3. JobRemembers'
  BY DEF AllocationInv, Grow, chainVars, jobVars, JobRemembers, Idle, Pending
<1>4. OneIsLive' /\ EndsAreTrue' /\ KeysAreNew' /\ QueuedIsDispatched'
  BY DEF AllocationInv, Grow, chainVars, jobVars, OneIsLive, Live, EndsAreTrue, EndIsTrue,
     KeysAreNew, QueuedIsDispatched
<1> QED BY <1>1, <1>2, <1>3, <1>4 DEF AllocationInv

\* The first states satisfy the invariant.
LEMMA AllocationInit == Init => AllocationInv
<1> SUFFICES ASSUME Init PROVE AllocationInv
  OBVIOUS
<1>1. AllocationTypes
  BY DEF Init, AllocationTypes, ChainTypes, RowTypes, JobTypes, Idle, Stage, ApprovedState,
     ActionState, IntentState
<1>2. OneIsLive /\ TransactionsAreMarked /\ JobRemembers /\ KeysAreNew
  BY DEF Init, OneIsLive, Live, TransactionsAreMarked, JobRemembers, KeysAreNew
<1>3. EndsAreTrue /\ QueuedIsDispatched
  BY DEF Init, EndsAreTrue, EndIsTrue, QueuedIsDispatched
<1> QED BY <1>1, <1>2, <1>3 DEF AllocationInv

\* Every step keeps the invariant.
LEMMA AllocationNext == AllocationInv /\ [Next]_vars => AllocationInv'
<1> SUFFICES ASSUME AllocationInv, [Next]_vars PROVE AllocationInv'
  OBVIOUS
<1>1. CASE UNCHANGED vars
  BY <1>1 DEF vars, chainVars, dbVars, jobVars, AllocationInv, AllocationTypes, ChainTypes,
     RowTypes, JobTypes, OneIsLive, Live,
     TransactionsAreMarked, EndsAreTrue, EndIsTrue, JobRemembers, KeysAreNew, QueuedIsDispatched
<1>2. ASSUME NEW p \in Policy, Approve(p) \/ Lapse(p) \/ Mine(p) \/ Other(p) \/ Close(p)
      PROVE  AllocationInv'
  BY <1>2, ApproveKeeps, LapseKeeps, MineKeeps, OtherKeeps, CloseKeeps
<1>3. CASE SetEnabled \/ Finalize \/ SyncController
  BY <1>3, SetEnabledKeeps, FinalizeKeeps, SyncControllerKeeps
<1>4. ASSUME NEW best \in {{}, EvaluateCoverage}, RefreshCoverage(best) PROVE AllocationInv'
  BY <1>4, RefreshCoverageKeeps
<1>5. ASSUME NEW n \in Rec, ExpireRecommendation(n) \/ EnqueueAllocation(n) PROVE AllocationInv'
  BY <1>5, ExpireRecommendationKeeps, EnqueueAllocationKeeps
<1>6. ASSUME NEW p \in Policy, SyncApproval(p) \/ RetryAllocation(p) \/ Grow(p) \/ Start(p)
      PROVE  AllocationInv'
  BY <1>6, SyncApprovalKeeps, RetryAllocationKeeps, GrowKeeps, StartKeeps
<1>7. ASSUME NEW k \in outbox, DispatchBudgetOutbox(k) PROVE AllocationInv'
  BY <1>7, DispatchBudgetOutboxKeeps
<1>8. ASSUME NEW usable \in BOOLEAN, Check(usable) PROVE AllocationInv'
  BY <1>8, CheckKeeps
<1>9. CASE MarkIntent \/ MarkAction \/ Send \/ LoseResponse \/ ConfirmAction
  BY <1>9, MarkIntentKeeps, MarkActionKeeps, SendKeeps, LoseResponseKeeps, ConfirmActionKeeps
<1>10. CASE ReadReceipt \/ MarkReverted \/ SaveAllocation \/ Crash
  BY <1>10, ReadReceiptKeeps, MarkRevertedKeeps, SaveAllocationKeeps, CrashKeeps
<1> QED BY <1>1, <1>2, <1>3, <1>4, <1>5, <1>6, <1>7, <1>8, <1>9, <1>10 DEF Next

\* The invariant gives the type invariant: at most one recommendation is live.
LEMMA AllocationTypesOK == AllocationInv => TypeOK
<1> SUFFICES ASSUME AllocationInv PROVE TypeOK
  OBVIOUS
<1>1. Cardinality(Live) <= 1
  <2>1. CASE Live = {}
    BY <2>1, FS_EmptySet
  <2>2. ASSUME NEW n \in Live PROVE Cardinality(Live) <= 1
    <3>1. Live = {n}
      BY DEF AllocationInv, OneIsLive
    <3> QED BY <3>1, FS_Singleton
  <2> QED BY <2>1, <2>2
<1>2. job.at # "IDLE" => job.of \in queue /\ action[job.of].state # "NONE"
  BY DEF AllocationInv, JobRemembers, Idle, Pending
<1>3. \A p \in Policy : action[p].state \in ActionState /\ action[p].version \in Nat
  BY DEF AllocationInv, AllocationTypes, RowTypes
<1> QED BY <1>1, <1>2, <1>3 DEF TypeOK, AllocationInv, AllocationTypes, RowTypes

\* And what an action ends with is true.
LEMMA AllocationsTrue == AllocationInv => AllocationsTellTheTruth /\ QueuedIsDispatched
<1> SUFFICES ASSUME AllocationInv, NEW p \in Policy
             PROVE  /\ accepted[p] <= 1
                    /\ bounty[p] # "NONE" <=> action[p].state = "COMPLETE"
                    /\ action[p].state = "COMPLETE" => consumed[p] = "FINAL" /\ approved[p] # "CURRENT"
                    /\ action[p].state = "REJECTED" => accepted[p] = 0
                    /\ action[p].state = "FAILED" => tx[p] = "REVERTED_FINAL"
                    /\ intent[p] = "CONFIRMED" => consumed[p] = "FINAL"
                    /\ intent[p] = "RECONCILED" => consumer[p] = "OTHER"
  BY DEF AllocationsTellTheTruth, AllocationInv
<1>1. EndIsTrue(p)
  BY DEF AllocationInv, EndsAreTrue
<1>2. accepted[p] \in {0, 1} /\ (accepted[p] # 0 => intent[p] \in Sent)
  BY DEF AllocationInv, AllocationTypes, ChainTypes, TransactionsAreMarked
<1> QED BY <1>1, <1>2 DEF EndIsTrue, Sent

-----------------------------------------------------------------------------
(* Reports: a transaction that writes has its rows to itself, and the sweep  *)
(* only ever removes what no row promises.                                  *)

WriteStage == {"IDLE", "PUT", "STORED", "FIRST", "SECOND", "BOTH"}
Assessing(c) == writer[c] \in {"FIRST", "SECOND", "BOTH"}
OfUpload == {"UPLOAD", "REMOVE_UPLOAD", "UPLOAD_REMOVED", "UNLINK_EVIDENCE"}
OfReport == {"REPORT", "REMOVE_FIRST", "REMOVE_SECOND", "REPORT_REMOVED"}
SweepStage == {"IDLE", "ROWS", "FILES", "UNLINK_COPY"} \cup OfUpload \cup OfReport
SweepWork == [at : SweepStage, of : Claim \cup Reports!Copy \cup {None}]
ReaderWork == [at : {"IDLE", "READ", "DECRYPTED"}, mode : Reports!Side \cup {None}, of : Claim \cup {None}]

ReportTypes ==
  /\ upload \in [Claim -> Reports!UploadState] /\ claimJob \in [Claim -> Reports!JobState]
  /\ evidenceDue \in [Claim -> {"NULL", "LATER", "PAST"}]
  /\ report \in [Claim -> Reports!ReportState] /\ key \in [Claim -> ReportId \cup {None}]
  /\ hold \in [Claim -> BOOLEAN] /\ reportDue \in [Claim -> BOOLEAN] /\ paid \in [Claim -> BOOLEAN]
  /\ evidence \in [Claim -> Reports!Age] /\ copy \in [Reports!Copy -> Reports!Age]
  /\ writer \in [Claim -> WriteStage] /\ naming \in [Claim -> ReportId \cup {None}]
  /\ used \subseteq ReportId /\ reading \in BOOLEAN /\ exclusive \in BOOLEAN
  /\ sweep \in SweepWork /\ reader \in ReaderWork

\* A name is chosen once, so no report has the files of another.
NameIsOwn(c) ==
  /\ report[c] # "NONE" => key[c] \in used
  /\ Assessing(c) => naming[c] \in used
  /\ \A d \in Claim :
       /\ report[c] # "NONE" /\ report[d] # "NONE" /\ c # d => key[c] # key[d]
       /\ Assessing(c) /\ report[d] # "NONE" => naming[c] # key[d]
       /\ Assessing(c) /\ Assessing(d) /\ c # d => naming[c] # naming[d]

NamesAreOwn ==
  /\ \A c \in Claim : NameIsOwn(c)
  /\ \A o \in Reports!Copy : copy[o] # "NONE" => o[1] \in used

\* What a transaction read and wrote stays so until it commits.
WriteHolds(c) ==
  /\ writer[c] \in {"PUT", "STORED"} => upload[c] = "UPLOADING"
  /\ writer[c] = "STORED" => evidence[c] # "NONE"
  /\ Assessing(c) => upload[c] = "UPLOADED" /\ evidenceDue[c] = "NULL" /\ report[c] = "NONE"
  /\ writer[c] \in {"SECOND", "BOTH"} => copy[<<naming[c], "ORGANIZATION">>] # "NONE"
  /\ writer[c] = "BOTH" => copy[<<naming[c], "RESEARCHER">>] # "NONE"

WritesHold == \A c \in Claim : WriteHolds(c)

\* What the rows promise.
Promised(c) ==
  /\ claimJob[c] = "NONE" => upload[c] = "NONE"
  /\ upload[c] = "UPLOADED" => evidence[c] # "NONE"
  /\ claimJob[c] = "OPEN" => upload[c] = "UPLOADED" /\ evidenceDue[c] = "NULL"
  /\ report[c] \in {"SEALED", "AVAILABLE"} =>
       copy[<<key[c], "ORGANIZATION">>] # "NONE" /\ copy[<<key[c], "RESEARCHER">>] # "NONE"
  /\ hold[c] => report[c] = "SEALED"

PromisesAreKept == \A c \in Claim : Promised(c)

\* The sweep looks at rows and files only under the lock; what it is about to
\* remove is promised by no row, with or without the lock.
SweepIsSafe ==
  /\ exclusive => Reports!NobodyWrites
  /\ sweep.at \notin Reports!Removing \cup {"IDLE"} => exclusive
  /\ sweep.at \in OfUpload \cup OfReport => sweep.of \in Claim
  /\ sweep.at \in {"REMOVE_UPLOAD", "UPLOAD_REMOVED"} => upload[sweep.of] = "DELETING"
  /\ sweep.at = "UNLINK_EVIDENCE" => upload[sweep.of] = "DELETED"
  /\ sweep.at \in {"REMOVE_FIRST", "REMOVE_SECOND", "REPORT_REMOVED"} => report[sweep.of] = "DELETING"
  /\ sweep.at = "UNLINK_COPY" =>
       /\ sweep.of \in Reports!Copy /\ sweep.of[1] \in used
       /\ \A c \in Claim :
            /\ report[c] \in {"SEALED", "AVAILABLE"} => key[c] # sweep.of[1]
            /\ Assessing(c) => naming[c] # sweep.of[1]

ReportInv ==
  /\ ReportTypes /\ NamesAreOwn /\ WritesHold /\ PromisesAreKept /\ SweepIsSafe
  /\ Reports!ReadersArePermitted

\* A file of a report is a name and a side.
LEMMA Copies ==
  /\ \A o \in Reports!Copy : o[1] \in ReportId /\ o[2] \in Reports!Side /\ o = <<o[1], o[2]>>
  /\ \A i \in ReportId : \A s \in Reports!Side :
       <<i, s>> \in Reports!Copy /\ <<i, s>>[1] = i /\ <<i, s>>[2] = s
BY DEF Reports!Copy

\* The insertion of a claim and its upload keeps the reports' invariant.
LEMMA InsertKeepsReports ==
  ASSUME ReportInv, NEW c \in Claim, NEW b, Reports!Insert(c, b)
  PROVE  ReportInv'
<1>0. /\ claimJob[c] = "NONE" /\ upload[c] = "NONE"
      /\ upload' = [upload EXCEPT ![c] = "UPLOADING"] /\ claimJob' = [claimJob EXCEPT ![c] = "UPLOADING"]
      /\ evidenceDue' = [evidenceDue EXCEPT ![c] = "LATER"]
      /\ UNCHANGED <<report, key, hold, evidence, copy, writer, naming, used, sweep, exclusive>>
  BY DEF Reports!Insert, Reports!reportVars, Reports!fileVars, Reports!writerVars,
     Reports!sweepVars, ReportInv, PromisesAreKept, Promised
<1>1. ReportTypes'
  BY DEF Reports!Insert, Reports!reportVars, Reports!fileVars, Reports!writerVars,
     Reports!sweepVars, Reports!readerVars, ReportInv, ReportTypes, Reports!UploadState,
     Reports!JobState
<1>2. NamesAreOwn'
  BY DEF Reports!Insert, Reports!reportVars, Reports!fileVars, Reports!writerVars, ReportInv,
     NamesAreOwn, NameIsOwn, Assessing
<1>3. WritesHold'
  <2> SUFFICES ASSUME NEW d \in Claim PROVE WriteHolds(d)'
    BY DEF WritesHold
  <2>1. WriteHolds(d)
    BY DEF ReportInv, WritesHold
  <2>2. CASE d = c
    BY <1>0, <2>1, <2>2 DEF WriteHolds, Assessing
  <2>3. CASE d # c
    BY <1>0, <2>1, <2>3 DEF WriteHolds, Assessing
  <2> QED BY <2>2, <2>3
<1>4. PromisesAreKept'
  BY DEF Reports!Insert, Reports!reportVars, Reports!fileVars, ReportInv, ReportTypes,
     PromisesAreKept, Promised
<1>5. SweepIsSafe'
  BY <1>0 DEF ReportInv, SweepIsSafe, Assessing, Reports!NobodyWrites
<1>6. Reports!ReadersArePermitted'
  BY DEF Reports!Insert, Reports!readerVars, ReportInv, Reports!ReadersArePermitted
<1> QED BY <1>1, <1>2, <1>3, <1>4, <1>5, <1>6 DEF ReportInv

\* PrepareUpload keeps the reports' invariant.
LEMMA PrepareUploadKeepsReports ==
  ASSUME ReportInv, NEW c \in Claim, NEW b \in Bounty \ Slot, Reports!PrepareUpload(c, b)
  PROVE  ReportInv'
BY InsertKeepsReports DEF Reports!PrepareUpload

\* SubmitFinding keeps the reports' invariant.
LEMMA SubmitFindingKeepsReports ==
  ASSUME ReportInv, NEW c \in Claim, NEW b \in Slot, Reports!SubmitFinding(c, b)
  PROVE  ReportInv'
BY InsertKeepsReports DEF Reports!SubmitFinding

\* BeginPut keeps the reports' invariant.
LEMMA BeginPutKeepsReports ==
  ASSUME ReportInv, NEW c \in Claim, Reports!BeginPut(c)
  PROVE  ReportInv'
<1>1. ReportTypes'
  BY DEF Reports!BeginPut, Reports!rowVars, Reports!reportVars, Reports!fileVars,
     Reports!sweepVars, Reports!readerVars, ReportInv, ReportTypes, WriteStage
<1>2. NamesAreOwn'
  BY DEF Reports!BeginPut, Reports!reportVars, Reports!fileVars, ReportInv, NamesAreOwn,
     NameIsOwn, Assessing
<1>3. WritesHold'
  BY DEF Reports!BeginPut, Reports!rowVars, Reports!reportVars, Reports!fileVars, ReportInv,
     WritesHold, WriteHolds, Assessing
<1>4. PromisesAreKept'
  BY DEF Reports!BeginPut, Reports!rowVars, Reports!reportVars, Reports!fileVars, ReportInv,
     PromisesAreKept, Promised
<1>5. SweepIsSafe'
  BY DEF Reports!BeginPut, Reports!rowVars, Reports!reportVars, Reports!sweepVars, ReportInv,
     Assessing, SweepIsSafe
<1>6. Reports!ReadersArePermitted'
  BY DEF Reports!BeginPut, Reports!readerVars, ReportInv, Reports!ReadersArePermitted
<1> QED BY <1>1, <1>2, <1>3, <1>4, <1>5, <1>6 DEF ReportInv

\* PutEvidence keeps the reports' invariant.
LEMMA PutEvidenceKeepsReports ==
  ASSUME ReportInv, NEW c \in Claim, Reports!PutEvidence(c)
  PROVE  ReportInv'
<1>1. ReportTypes'
  BY DEF Reports!PutEvidence, Reports!rowVars, Reports!reportVars, Reports!sweepVars,
     Reports!readerVars, ReportInv, ReportTypes, WriteStage, Reports!Age
<1>2. NamesAreOwn'
  BY DEF Reports!PutEvidence, Reports!reportVars, ReportInv, NamesAreOwn, NameIsOwn, Assessing
<1>3. WritesHold'
  BY DEF Reports!PutEvidence, Reports!rowVars, Reports!reportVars, ReportInv, ReportTypes,
     WritesHold, WriteHolds, Assessing
<1>4. PromisesAreKept'
  BY DEF Reports!PutEvidence, Reports!rowVars, Reports!reportVars, ReportInv, PromisesAreKept,
     Promised
<1>5. SweepIsSafe'
  BY DEF Reports!PutEvidence, Reports!rowVars, Reports!reportVars, Reports!sweepVars, ReportInv,
     Assessing, SweepIsSafe, Reports!NobodyWrites
<1>6. Reports!ReadersArePermitted'
  BY DEF Reports!PutEvidence, Reports!readerVars, ReportInv, Reports!ReadersArePermitted
<1> QED BY <1>1, <1>2, <1>3, <1>4, <1>5, <1>6 DEF ReportInv

\* CommitPut keeps the reports' invariant.
LEMMA CommitPutKeepsReports ==
  ASSUME ReportInv, NEW c \in Claim, Reports!CommitPut(c)
  PROVE  ReportInv'
<1>1. ReportTypes'
  BY DEF Reports!CommitPut, Reports!reportVars, Reports!fileVars, Reports!sweepVars,
     Reports!readerVars, ReportInv, ReportTypes, WriteStage, Reports!UploadState, Reports!JobState
<1>2. NamesAreOwn'
  BY DEF Reports!CommitPut, Reports!reportVars, Reports!fileVars, ReportInv, NamesAreOwn,
     NameIsOwn, Assessing
<1>3. WritesHold'
  BY DEF Reports!CommitPut, Reports!reportVars, Reports!fileVars, ReportInv, ReportTypes,
     WritesHold, WriteHolds, Assessing
<1>0. /\ upload[c] = "UPLOADING" /\ evidence[c] # "NONE"
      /\ upload' = [upload EXCEPT ![c] = "UPLOADED"] /\ evidenceDue' = [evidenceDue EXCEPT ![c] = "NULL"]
      /\ claimJob' = [claimJob EXCEPT ![c] = "OPEN"] /\ writer' = [writer EXCEPT ![c] = "IDLE"]
      /\ UNCHANGED <<report, key, hold, evidence, copy, naming, used, sweep, exclusive>>
  BY DEF Reports!CommitPut, Reports!reportVars, Reports!fileVars, Reports!sweepVars, ReportInv,
     WritesHold, WriteHolds
<1>4. PromisesAreKept'
  <2> SUFFICES ASSUME NEW d \in Claim PROVE Promised(d)'
    BY DEF PromisesAreKept
  <2>1. Promised(d)
    BY DEF ReportInv, PromisesAreKept
  <2>2. CASE d = c
    BY <1>0, <2>1, <2>2 DEF Promised, ReportInv, ReportTypes
  <2>3. CASE d # c
    BY <1>0, <2>1, <2>3 DEF Promised
  <2> QED BY <2>2, <2>3
<1>5. SweepIsSafe'
  BY <1>0 DEF ReportInv, SweepIsSafe, Assessing, Reports!NobodyWrites
<1>6. Reports!ReadersArePermitted'
  BY DEF Reports!CommitPut, Reports!readerVars, ReportInv, Reports!ReadersArePermitted
<1> QED BY <1>1, <1>2, <1>3, <1>4, <1>5, <1>6 DEF ReportInv

\* BeginAssess keeps the reports' invariant.
LEMMA BeginAssessKeepsReports ==
  ASSUME ReportInv, NEW c \in Claim, Reports!BeginAssess(c)
  PROVE  ReportInv'
<1>1. ReportTypes'
  BY DEF Reports!BeginAssess, Reports!rowVars, Reports!reportVars, Reports!fileVars,
     Reports!sweepVars, Reports!readerVars, ReportInv, ReportTypes, WriteStage
<1>2. NamesAreOwn'
  BY DEF Reports!BeginAssess, Reports!reportVars, Reports!fileVars, ReportInv, ReportTypes,
     NamesAreOwn, NameIsOwn, Assessing
<1>3. WritesHold'
  <2>0. /\ ~exclusive /\ upload[c] = "UPLOADED" /\ claimJob[c] = "OPEN" /\ report[c] = "NONE"
        /\ writer' = [writer EXCEPT ![c] = "FIRST"]
        /\ \A d \in Claim \ {c} : naming'[d] = naming[d]
        /\ UNCHANGED <<upload, evidenceDue, report, evidence, copy>>
    BY DEF Reports!BeginAssess, Reports!rowVars, Reports!reportVars, Reports!fileVars
  <2> SUFFICES ASSUME NEW d \in Claim PROVE WriteHolds(d)'
    BY DEF WritesHold
  <2>1. WriteHolds(d) /\ Promised(d)
    BY DEF ReportInv, WritesHold, PromisesAreKept
  <2>2. CASE d = c
    BY <2>0, <2>1, <2>2 DEF WriteHolds, Promised, ReportInv, ReportTypes
  <2>3. CASE d # c
    BY <2>0, <2>1, <2>3 DEF WriteHolds, Assessing
  <2> QED BY <2>2, <2>3
<1>4. PromisesAreKept'
  BY DEF Reports!BeginAssess, Reports!rowVars, Reports!reportVars, Reports!fileVars, ReportInv,
     PromisesAreKept, Promised
<1>5. SweepIsSafe'
  BY DEF Reports!BeginAssess, Reports!rowVars, Reports!reportVars, Reports!sweepVars, ReportInv,
     ReportTypes, Assessing, SweepIsSafe
<1>6. Reports!ReadersArePermitted'
  BY DEF Reports!BeginAssess, Reports!readerVars, ReportInv, Reports!ReadersArePermitted
<1> QED BY <1>1, <1>2, <1>3, <1>4, <1>5, <1>6 DEF ReportInv

\* PutOrganization keeps the reports' invariant.
LEMMA PutOrganizationKeepsReports ==
  ASSUME ReportInv, NEW c \in Claim, Reports!PutOrganization(c)
  PROVE  ReportInv'
<1>1. ReportTypes'
  <2>1. copy' \in [Reports!Copy -> Reports!Age]
    BY DEF Reports!PutOrganization, Reports!Put, Reports!Age, ReportInv, ReportTypes
  <2>2. writer' \in [Claim -> WriteStage]
    BY DEF Reports!PutOrganization, Reports!Put, WriteStage, ReportInv, ReportTypes
  <2> QED BY <2>1, <2>2 DEF Reports!PutOrganization, Reports!Put, Reports!rowVars,
             Reports!reportVars, Reports!sweepVars, Reports!readerVars, ReportInv, ReportTypes
<1>2. NamesAreOwn'
  BY DEF Reports!PutOrganization, Reports!Put, Reports!reportVars, ReportInv, NamesAreOwn,
     NameIsOwn, Assessing
<1>3. WritesHold'
  BY Copies DEF Reports!PutOrganization, Reports!Put, Reports!rowVars, Reports!reportVars,
     ReportInv, ReportTypes, WritesHold, WriteHolds, NamesAreOwn, NameIsOwn, Assessing,
     Reports!Side
<1>4. PromisesAreKept'
  BY DEF Reports!PutOrganization, Reports!Put, Reports!rowVars, Reports!reportVars, ReportInv,
     PromisesAreKept, Promised
<1>5. SweepIsSafe'
  BY DEF Reports!PutOrganization, Reports!Put, Reports!rowVars, Reports!reportVars,
     Reports!sweepVars, ReportInv, Assessing, SweepIsSafe, Reports!NobodyWrites
<1>6. Reports!ReadersArePermitted'
  BY DEF Reports!PutOrganization, Reports!Put, Reports!readerVars, ReportInv,
     Reports!ReadersArePermitted
<1> QED BY <1>1, <1>2, <1>3, <1>4, <1>5, <1>6 DEF ReportInv

\* PutResearcher keeps the reports' invariant.
LEMMA PutResearcherKeepsReports ==
  ASSUME ReportInv, NEW c \in Claim, Reports!PutResearcher(c)
  PROVE  ReportInv'
<1>1. ReportTypes'
  <2>1. copy' \in [Reports!Copy -> Reports!Age]
    BY DEF Reports!PutResearcher, Reports!Put, Reports!Age, ReportInv, ReportTypes
  <2>2. writer' \in [Claim -> WriteStage]
    BY DEF Reports!PutResearcher, Reports!Put, WriteStage, ReportInv, ReportTypes
  <2> QED BY <2>1, <2>2 DEF Reports!PutResearcher, Reports!Put, Reports!rowVars,
             Reports!reportVars, Reports!sweepVars, Reports!readerVars, ReportInv, ReportTypes
<1>2. NamesAreOwn'
  BY DEF Reports!PutResearcher, Reports!Put, Reports!reportVars, ReportInv, NamesAreOwn,
     NameIsOwn, Assessing
<1>3. WritesHold'
  BY Copies DEF Reports!PutResearcher, Reports!Put, Reports!rowVars, Reports!reportVars,
     ReportInv, ReportTypes, WritesHold, WriteHolds, NamesAreOwn, NameIsOwn, Assessing,
     Reports!Side
<1>4. PromisesAreKept'
  BY DEF Reports!PutResearcher, Reports!Put, Reports!rowVars, Reports!reportVars, ReportInv,
     PromisesAreKept, Promised
<1>5. SweepIsSafe'
  BY DEF Reports!PutResearcher, Reports!Put, Reports!rowVars, Reports!reportVars,
     Reports!sweepVars, ReportInv, Assessing, SweepIsSafe, Reports!NobodyWrites
<1>6. Reports!ReadersArePermitted'
  BY DEF Reports!PutResearcher, Reports!Put, Reports!readerVars, ReportInv,
     Reports!ReadersArePermitted
<1> QED BY <1>1, <1>2, <1>3, <1>4, <1>5, <1>6 DEF ReportInv

\* CommitAssess keeps the reports' invariant.
LEMMA CommitAssessKeepsReports ==
  ASSUME ReportInv, NEW c \in Claim, NEW qualifies \in BOOLEAN, Reports!CommitAssess(c, qualifies)
  PROVE  ReportInv'
<1>1. ReportTypes'
  BY DEF Reports!CommitAssess, Reports!fileVars, Reports!sweepVars, Reports!readerVars, ReportInv,
     ReportTypes, WriteStage, Reports!JobState, Reports!ReportState
<1>2. NamesAreOwn'
  BY DEF Reports!CommitAssess, Reports!fileVars, ReportInv, ReportTypes, NamesAreOwn, NameIsOwn,
     Assessing
<1>3. WritesHold'
  BY DEF Reports!CommitAssess, Reports!fileVars, ReportInv, ReportTypes, WritesHold, WriteHolds,
     Assessing
<1>4. PromisesAreKept'
  BY DEF Reports!CommitAssess, Reports!fileVars, ReportInv, ReportTypes, PromisesAreKept,
     Promised, WritesHold, WriteHolds, Assessing
<1>5. SweepIsSafe'
  <2>0. /\ writer[c] = "BOTH" /\ writer' = [writer EXCEPT ![c] = "IDLE"]
        /\ report' = [report EXCEPT ![c] = "SEALED"] /\ key' = [key EXCEPT ![c] = naming[c]]
        /\ UNCHANGED <<upload, naming, used, sweep, exclusive>>
    BY DEF Reports!CommitAssess, Reports!sweepVars
  <2>1. Assessing(c) /\ report[c] = "NONE"
    BY <2>0 DEF Assessing, ReportInv, WritesHold, WriteHolds
  <2> QED BY <2>0, <2>1 DEF ReportInv, ReportTypes, SweepIsSafe, Assessing, Reports!NobodyWrites
<1>6. Reports!ReadersArePermitted'
  BY DEF Reports!CommitAssess, Reports!readerVars, ReportInv, Reports!ReadersArePermitted
<1> QED BY <1>1, <1>2, <1>3, <1>4, <1>5, <1>6 DEF ReportInv

\* Abort keeps the reports' invariant.
LEMMA AbortKeepsReports ==
  ASSUME ReportInv, NEW c \in Claim, Reports!Abort(c)
  PROVE  ReportInv'
<1>1. ReportTypes'
  BY DEF Reports!Abort, Reports!rowVars, Reports!reportVars, Reports!fileVars, Reports!sweepVars,
     Reports!readerVars, ReportInv, ReportTypes, WriteStage
<1>2. NamesAreOwn'
  BY DEF Reports!Abort, Reports!reportVars, Reports!fileVars, ReportInv, NamesAreOwn, NameIsOwn,
     Assessing
<1>3. WritesHold'
  BY DEF Reports!Abort, Reports!rowVars, Reports!reportVars, Reports!fileVars, ReportInv,
     WritesHold, WriteHolds, Assessing
<1>4. PromisesAreKept'
  BY DEF Reports!Abort, Reports!rowVars, Reports!reportVars, Reports!fileVars, ReportInv,
     PromisesAreKept, Promised
<1>5. SweepIsSafe'
  BY DEF Reports!Abort, Reports!rowVars, Reports!reportVars, Reports!sweepVars, ReportInv,
     Assessing, SweepIsSafe, Reports!NobodyWrites
<1>6. Reports!ReadersArePermitted'
  BY DEF Reports!Abort, Reports!readerVars, ReportInv, Reports!ReadersArePermitted
<1> QED BY <1>1, <1>2, <1>3, <1>4, <1>5, <1>6 DEF ReportInv

\* Settle keeps the reports' invariant.
LEMMA SettleKeepsReports ==
  ASSUME ReportInv, NEW c \in Claim, Reports!Settle(c)
  PROVE  ReportInv'
<1>1. ReportTypes'
  BY DEF Reports!Settle, Reports!reportVars, Reports!fileVars, Reports!writerVars,
     Reports!sweepVars, Reports!readerVars, ReportInv, ReportTypes, Reports!JobState
<1>2. NamesAreOwn'
  BY DEF Reports!Settle, Reports!reportVars, Reports!fileVars, Reports!writerVars, ReportInv,
     NamesAreOwn, NameIsOwn, Assessing
<1>3. WritesHold'
  BY DEF Reports!Settle, Reports!reportVars, Reports!fileVars, Reports!writerVars, ReportInv,
     WritesHold, WriteHolds, Assessing
<1>4. PromisesAreKept'
  BY DEF Reports!Settle, Reports!reportVars, Reports!fileVars, ReportInv, PromisesAreKept, Promised
<1>5. SweepIsSafe'
  BY DEF Reports!Settle, Reports!reportVars, Reports!writerVars, Reports!sweepVars, ReportInv,
     Assessing, SweepIsSafe, Reports!NobodyWrites
<1>6. Reports!ReadersArePermitted'
  BY DEF Reports!Settle, Reports!readerVars, ReportInv, Reports!ReadersArePermitted
<1> QED BY <1>1, <1>2, <1>3, <1>4, <1>5, <1>6 DEF ReportInv

\* Pay keeps the reports' invariant.
LEMMA PayKeepsReports ==
  ASSUME ReportInv, NEW c \in Claim, Reports!Pay(c)
  PROVE  ReportInv'
<1>1. ReportTypes'
  BY DEF Reports!Pay, Reports!rowVars, Reports!fileVars, Reports!writerVars, Reports!sweepVars,
     Reports!readerVars, ReportInv, ReportTypes
<1>2. NamesAreOwn'
  BY DEF Reports!Pay, Reports!fileVars, Reports!writerVars, ReportInv, NamesAreOwn, NameIsOwn,
     Assessing
<1>3. WritesHold'
  BY DEF Reports!Pay, Reports!rowVars, Reports!fileVars, Reports!writerVars, ReportInv,
     WritesHold, WriteHolds, Assessing
<1>4. PromisesAreKept'
  BY DEF Reports!Pay, Reports!rowVars, Reports!fileVars, ReportInv, PromisesAreKept, Promised
<1>5. SweepIsSafe'
  BY DEF Reports!Pay, Reports!rowVars, Reports!writerVars, Reports!sweepVars, ReportInv,
     Assessing, SweepIsSafe, Reports!NobodyWrites
<1>6. Reports!ReadersArePermitted'
  BY DEF Reports!Pay, Reports!readerVars, ReportInv, Reports!ReadersArePermitted
<1> QED BY <1>1, <1>2, <1>3, <1>4, <1>5, <1>6 DEF ReportInv

\* RecordExpiry keeps the reports' invariant.
LEMMA RecordExpiryKeepsReports ==
  ASSUME ReportInv, NEW c \in Claim, Reports!RecordExpiry(c)
  PROVE  ReportInv'
<1>1. ReportTypes'
  <2>1. claimJob' \in [Claim -> Reports!JobState] /\ hold' \in [Claim -> BOOLEAN]
    BY DEF Reports!RecordExpiry, Reports!JobState, ReportInv, ReportTypes
  <2>2. reportDue' \in [Claim -> BOOLEAN]
    BY DEF Reports!RecordExpiry, ReportInv, ReportTypes
  <2> QED BY <2>1, <2>2 DEF Reports!RecordExpiry, Reports!fileVars, Reports!writerVars,
             Reports!sweepVars, Reports!readerVars, ReportInv, ReportTypes
<1>2. NamesAreOwn'
  BY DEF Reports!RecordExpiry, Reports!fileVars, Reports!writerVars, ReportInv, NamesAreOwn,
     NameIsOwn, Assessing
<1>3. WritesHold'
  BY DEF Reports!RecordExpiry, Reports!fileVars, Reports!writerVars, ReportInv, WritesHold,
     WriteHolds, Assessing
<1>4. PromisesAreKept'
  BY DEF Reports!RecordExpiry, Reports!fileVars, ReportInv, PromisesAreKept, Promised
<1>5. SweepIsSafe'
  BY DEF Reports!RecordExpiry, Reports!writerVars, Reports!sweepVars, ReportInv, Assessing,
     SweepIsSafe, Reports!NobodyWrites
<1>6. Reports!ReadersArePermitted'
  BY DEF Reports!RecordExpiry, Reports!readerVars, ReportInv, Reports!ReadersArePermitted
<1> QED BY <1>1, <1>2, <1>3, <1>4, <1>5, <1>6 DEF ReportInv

\* Elapse keeps the reports' invariant.
LEMMA ElapseKeepsReports ==
  ASSUME ReportInv, NEW c \in Claim, Reports!Elapse(c)
  PROVE  ReportInv'
<1>1. ReportTypes'
  <2>1. evidenceDue' \in [Claim -> {"NULL", "LATER", "PAST"}]
    BY DEF Reports!Elapse, ReportInv, ReportTypes
  <2>2. reportDue' \in [Claim -> BOOLEAN]
    BY DEF Reports!Elapse, ReportInv, ReportTypes
  <2> QED BY <2>1, <2>2 DEF Reports!Elapse, Reports!fileVars, Reports!writerVars,
             Reports!sweepVars, Reports!readerVars, ReportInv, ReportTypes
<1>2. NamesAreOwn'
  BY DEF Reports!Elapse, Reports!fileVars, Reports!writerVars, ReportInv, NamesAreOwn, NameIsOwn,
     Assessing
<1>3. WritesHold'
  BY DEF Reports!Elapse, Reports!fileVars, Reports!writerVars, ReportInv, ReportTypes, WritesHold,
     WriteHolds, Assessing
<1>4. PromisesAreKept'
  BY DEF Reports!Elapse, Reports!fileVars, ReportInv, ReportTypes, PromisesAreKept, Promised
<1>5. SweepIsSafe'
  BY DEF Reports!Elapse, Reports!writerVars, Reports!sweepVars, ReportInv, Assessing, SweepIsSafe,
     Reports!NobodyWrites
<1>6. Reports!ReadersArePermitted'
  BY DEF Reports!Elapse, Reports!readerVars, ReportInv, Reports!ReadersArePermitted
<1> QED BY <1>1, <1>2, <1>3, <1>4, <1>5, <1>6 DEF ReportInv

\* ReleaseReport keeps the reports' invariant.
LEMMA ReleaseReportKeepsReports ==
  ASSUME ReportInv, NEW c \in Claim, Reports!ReleaseReport(c)
  PROVE  ReportInv'
<1>1. ReportTypes'
  BY DEF Reports!ReleaseReport, Reports!rowVars, Reports!fileVars, Reports!writerVars,
     Reports!sweepVars, Reports!readerVars, ReportInv, ReportTypes, Reports!ReportState
<1>2. NamesAreOwn'
  BY DEF Reports!ReleaseReport, Reports!fileVars, Reports!writerVars, ReportInv, NamesAreOwn,
     NameIsOwn, Assessing
<1>3. WritesHold'
  BY DEF Reports!ReleaseReport, Reports!rowVars, Reports!fileVars, Reports!writerVars, ReportInv,
     WritesHold, WriteHolds, Assessing
<1>4. PromisesAreKept'
  BY DEF Reports!ReleaseReport, Reports!rowVars, Reports!fileVars, ReportInv, ReportTypes,
     PromisesAreKept, Promised
<1>5. SweepIsSafe'
  BY DEF Reports!ReleaseReport, Reports!rowVars, Reports!writerVars, Reports!sweepVars, ReportInv,
     Assessing, SweepIsSafe, Reports!NobodyWrites
<1>6. Reports!ReadersArePermitted'
  BY DEF Reports!ReleaseReport, Reports!readerVars, ReportInv, Reports!ReadersArePermitted
<1> QED BY <1>1, <1>2, <1>3, <1>4, <1>5, <1>6 DEF ReportInv

\* Restore keeps the reports' invariant.
LEMMA RestoreKeepsReports ==
  ASSUME ReportInv, NEW c \in Claim, Reports!Restore(c)
  PROVE  ReportInv'
<1>1. ReportTypes'
  BY DEF Reports!Restore, Reports!rowVars, Reports!reportVars, Reports!writerVars,
     Reports!sweepVars, Reports!readerVars, ReportInv, ReportTypes, Reports!Age
<1>2. NamesAreOwn'
  BY DEF Reports!Restore, Reports!reportVars, Reports!writerVars, ReportInv, NamesAreOwn,
     NameIsOwn, Assessing
<1>3. WritesHold'
  BY Copies DEF Reports!Restore, Reports!rowVars, Reports!reportVars, Reports!writerVars,
     ReportInv, ReportTypes, WritesHold, WriteHolds, NamesAreOwn, NameIsOwn, Assessing,
     Reports!Side
<1>4. PromisesAreKept'
  BY Copies DEF Reports!Restore, Reports!rowVars, Reports!reportVars, ReportInv, ReportTypes,
     PromisesAreKept, Promised, NamesAreOwn, NameIsOwn, Reports!Side
<1>5. SweepIsSafe'
  BY DEF Reports!Restore, Reports!rowVars, Reports!reportVars, Reports!writerVars,
     Reports!sweepVars, ReportInv, Assessing, SweepIsSafe, Reports!NobodyWrites
<1>6. Reports!ReadersArePermitted'
  BY DEF Reports!Restore, Reports!readerVars, ReportInv, Reports!ReadersArePermitted
<1> QED BY <1>1, <1>2, <1>3, <1>4, <1>5, <1>6 DEF ReportInv

\* Grow keeps the reports' invariant.
LEMMA GrowKeepsReports ==
  ASSUME ReportInv, Reports!Grow
  PROVE  ReportInv'
<1>1. ReportTypes'
  BY DEF Reports!Grow, Reports!rowVars, Reports!reportVars, Reports!writerVars, Reports!sweepVars,
     Reports!readerVars, ReportInv, ReportTypes, Reports!Age
<1>2. NamesAreOwn'
  BY DEF Reports!Grow, Reports!reportVars, Reports!writerVars, ReportInv, NamesAreOwn, NameIsOwn,
     Assessing
<1>3. WritesHold'
  BY Copies DEF Reports!Grow, Reports!rowVars, Reports!reportVars, Reports!writerVars, ReportInv,
     ReportTypes, WritesHold, WriteHolds, NamesAreOwn, NameIsOwn, Assessing, Reports!Side
<1>4. PromisesAreKept'
  BY Copies DEF Reports!Grow, Reports!rowVars, Reports!reportVars, ReportInv, ReportTypes,
     PromisesAreKept, Promised, NamesAreOwn, NameIsOwn, Reports!Side
<1>5. SweepIsSafe'
  BY DEF Reports!Grow, Reports!rowVars, Reports!reportVars, Reports!writerVars, Reports!sweepVars,
     ReportInv, Assessing, SweepIsSafe, Reports!NobodyWrites
<1>6. Reports!ReadersArePermitted'
  BY DEF Reports!Grow, Reports!readerVars, ReportInv, Reports!ReadersArePermitted
<1> QED BY <1>1, <1>2, <1>3, <1>4, <1>5, <1>6 DEF ReportInv

\* RemoveMember keeps the reports' invariant.
LEMMA RemoveMemberKeepsReports ==
  ASSUME ReportInv, Reports!RemoveMember
  PROVE  ReportInv'
<1>1. ReportTypes'
  <2>1. reading' \in BOOLEAN
    BY DEF Reports!RemoveMember
  <2> QED BY <2>1 DEF Reports!RemoveMember, Reports!rowVars, Reports!reportVars, Reports!fileVars,
             Reports!writerVars, Reports!sweepVars, ReportInv, ReportTypes
<1>2. NamesAreOwn'
  BY DEF Reports!RemoveMember, Reports!reportVars, Reports!fileVars, Reports!writerVars,
     ReportInv, NamesAreOwn, NameIsOwn, Assessing
<1>3. WritesHold'
  BY DEF Reports!RemoveMember, Reports!rowVars, Reports!reportVars, Reports!fileVars,
     Reports!writerVars, ReportInv, WritesHold, WriteHolds, Assessing
<1>4. PromisesAreKept'
  BY DEF Reports!RemoveMember, Reports!rowVars, Reports!reportVars, Reports!fileVars, ReportInv,
     PromisesAreKept, Promised
<1>5. SweepIsSafe'
  BY DEF Reports!RemoveMember, Reports!rowVars, Reports!reportVars, Reports!writerVars,
     Reports!sweepVars, ReportInv, Assessing, SweepIsSafe, Reports!NobodyWrites
<1>6. Reports!ReadersArePermitted'
  BY DEF Reports!RemoveMember, ReportInv, Reports!ReadersArePermitted
<1> QED BY <1>1, <1>2, <1>3, <1>4, <1>5, <1>6 DEF ReportInv

\* Read keeps the reports' invariant.
LEMMA ReadKeepsReports ==
  ASSUME ReportInv, Reports!Read
  PROVE  ReportInv'
<1>1. ReportTypes'
  BY DEF Reports!Read, Reports!NoReader, Reports!rowVars, Reports!reportVars, Reports!fileVars,
     Reports!writerVars, Reports!sweepVars, ReportInv, ReportTypes, ReaderWork
<1>2. NamesAreOwn'
  BY DEF Reports!Read, Reports!reportVars, Reports!fileVars, Reports!writerVars, ReportInv,
     NamesAreOwn, NameIsOwn, Assessing
<1>3. WritesHold'
  BY DEF Reports!Read, Reports!rowVars, Reports!reportVars, Reports!fileVars, Reports!writerVars,
     ReportInv, WritesHold, WriteHolds, Assessing
<1>4. PromisesAreKept'
  BY DEF Reports!Read, Reports!rowVars, Reports!reportVars, Reports!fileVars, ReportInv,
     PromisesAreKept, Promised
<1>5. SweepIsSafe'
  BY DEF Reports!Read, Reports!rowVars, Reports!reportVars, Reports!writerVars, Reports!sweepVars,
     ReportInv, Assessing, SweepIsSafe, Reports!NobodyWrites
<1>6. Reports!ReadersArePermitted'
  BY DEF Reports!Read, ReportInv, Reports!ReadersArePermitted
<1> QED BY <1>1, <1>2, <1>3, <1>4, <1>5, <1>6 DEF ReportInv

\* Deliver keeps the reports' invariant.
LEMMA DeliverKeepsReports ==
  ASSUME ReportInv, Reports!Deliver
  PROVE  ReportInv'
<1>1. ReportTypes'
  BY DEF Reports!Deliver, Reports!NoReader, Reports!rowVars, Reports!reportVars, Reports!fileVars,
     Reports!writerVars, Reports!sweepVars, ReportInv, ReportTypes, ReaderWork
<1>2. NamesAreOwn'
  BY DEF Reports!Deliver, Reports!reportVars, Reports!fileVars, Reports!writerVars, ReportInv,
     NamesAreOwn, NameIsOwn, Assessing
<1>3. WritesHold'
  BY DEF Reports!Deliver, Reports!rowVars, Reports!reportVars, Reports!fileVars,
     Reports!writerVars, ReportInv, WritesHold, WriteHolds, Assessing
<1>4. PromisesAreKept'
  BY DEF Reports!Deliver, Reports!rowVars, Reports!reportVars, Reports!fileVars, ReportInv,
     PromisesAreKept, Promised
<1>5. SweepIsSafe'
  BY DEF Reports!Deliver, Reports!rowVars, Reports!reportVars, Reports!writerVars,
     Reports!sweepVars, ReportInv, Assessing, SweepIsSafe, Reports!NobodyWrites
<1>6. Reports!ReadersArePermitted'
  <2>1. CASE ~Reports!Permitted
    BY <2>1 DEF Reports!Deliver, ReportInv, Reports!ReadersArePermitted
  <2>2. CASE Reports!Permitted
    <3> DEFINE d == [to |-> reader.mode, member |-> reading, paid |-> paid[reader.of],
                     retained |-> Reports!Retained(reader.of)]
    <3>1. delivered' = delivered \cup {d}
      BY <2>2 DEF Reports!Deliver
    <3>2. d.retained
      BY <2>2 DEF Reports!Permitted, Reports!ReportAccess
    <3>3. d.to = "ORGANIZATION" => d.member /\ d.paid
      BY <2>2 DEF Reports!Permitted, Reports!ReportAccess
    <3> HIDE DEF d
    <3> QED BY <3>1, <3>2, <3>3 DEF ReportInv, Reports!ReadersArePermitted
  <2> QED BY <2>1, <2>2
<1> QED BY <1>1, <1>2, <1>3, <1>4, <1>5, <1>6 DEF ReportInv

\* Request keeps the reports' invariant.
LEMMA RequestKeepsReports ==
  ASSUME ReportInv, NEW mode \in Reports!Side, NEW c \in Claim, Reports!Request(mode, c)
  PROVE  ReportInv'
<1>1. ReportTypes'
  BY DEF Reports!Request, Reports!rowVars, Reports!reportVars, Reports!fileVars,
     Reports!writerVars, Reports!sweepVars, ReportInv, ReportTypes, ReaderWork
<1>2. NamesAreOwn'
  BY DEF Reports!Request, Reports!reportVars, Reports!fileVars, Reports!writerVars, ReportInv,
     NamesAreOwn, NameIsOwn, Assessing
<1>3. WritesHold'
  BY DEF Reports!Request, Reports!rowVars, Reports!reportVars, Reports!fileVars,
     Reports!writerVars, ReportInv, WritesHold, WriteHolds, Assessing
<1>4. PromisesAreKept'
  BY DEF Reports!Request, Reports!rowVars, Reports!reportVars, Reports!fileVars, ReportInv,
     PromisesAreKept, Promised
<1>5. SweepIsSafe'
  BY DEF Reports!Request, Reports!rowVars, Reports!reportVars, Reports!writerVars,
     Reports!sweepVars, ReportInv, Assessing, SweepIsSafe, Reports!NobodyWrites
<1>6. Reports!ReadersArePermitted'
  BY DEF Reports!Request, Reports!ReadersArePermitted
<1> QED BY <1>1, <1>2, <1>3, <1>4, <1>5, <1>6 DEF ReportInv

\* SweepRetention keeps the reports' invariant.
LEMMA SweepRetentionKeepsReports ==
  ASSUME ReportInv, Reports!SweepRetention
  PROVE  ReportInv'
<1>1. ReportTypes'
  BY DEF Reports!SweepRetention, Reports!Work, Reports!reportVars, Reports!fileVars,
     Reports!writerVars, Reports!readerVars, ReportInv, ReportTypes, SweepStage, SweepWork
<1>2. NamesAreOwn'
  BY DEF Reports!SweepRetention, Reports!reportVars, Reports!fileVars, Reports!writerVars,
     ReportInv, NamesAreOwn, NameIsOwn, Assessing
<1>3. WritesHold'
  BY DEF Reports!SweepRetention, Reports!NobodyWrites, Reports!writerVars, WritesHold, WriteHolds,
     Assessing
<1>4. PromisesAreKept'
  BY DEF Reports!SweepRetention, Reports!reportVars, Reports!fileVars, ReportInv, PromisesAreKept,
     Promised
<1>5. SweepIsSafe'
  BY DEF Reports!SweepRetention, Reports!NobodyWrites, Reports!Work, Reports!writerVars,
     SweepIsSafe, OfUpload, OfReport
<1>6. Reports!ReadersArePermitted'
  BY DEF Reports!SweepRetention, Reports!readerVars, ReportInv, Reports!ReadersArePermitted
<1> QED BY <1>1, <1>2, <1>3, <1>4, <1>5, <1>6 DEF ReportInv

\* MarkUpload keeps the reports' invariant.
LEMMA MarkUploadKeepsReports ==
  ASSUME ReportInv, Reports!MarkUpload
  PROVE  ReportInv'
<1>1. ReportTypes'
  BY DEF Reports!MarkUpload, Reports!Work, Reports!reportVars, Reports!fileVars,
     Reports!writerVars, Reports!readerVars, ReportInv, ReportTypes, SweepStage, SweepWork,
     OfUpload, Reports!UploadState, Reports!JobState
<1>2. NamesAreOwn'
  BY DEF Reports!MarkUpload, Reports!reportVars, Reports!fileVars, Reports!writerVars, ReportInv,
     NamesAreOwn, NameIsOwn, Assessing
<1>3. WritesHold'
  BY DEF Reports!MarkUpload, Reports!writerVars, ReportInv, WritesHold, WriteHolds, Assessing,
     SweepIsSafe, Reports!Removing, Reports!NobodyWrites
<1>4. PromisesAreKept'
  BY DEF Reports!MarkUpload, Reports!EvidenceIsDue, Reports!reportVars, Reports!fileVars,
     ReportInv, ReportTypes, PromisesAreKept, Promised
<1>5. SweepIsSafe'
  BY DEF Reports!MarkUpload, Reports!Work, Reports!writerVars, ReportInv, ReportTypes,
     SweepIsSafe, OfUpload, OfReport, Reports!Removing, Reports!NobodyWrites
<1>6. Reports!ReadersArePermitted'
  BY DEF Reports!MarkUpload, Reports!readerVars, ReportInv, Reports!ReadersArePermitted
<1> QED BY <1>1, <1>2, <1>3, <1>4, <1>5, <1>6 DEF ReportInv

\* RemoveUpload keeps the reports' invariant.
LEMMA RemoveUploadKeepsReports ==
  ASSUME ReportInv, Reports!RemoveUpload
  PROVE  ReportInv'
<1>1. ReportTypes'
  <2>1. sweep' \in SweepWork
    BY DEF Reports!RemoveUpload, Reports!Continue, Reports!Work, Reports!NoWork, SweepWork,
       SweepStage, OfUpload, ReportInv, ReportTypes
  <2>2. evidence' \in [Claim -> Reports!Age]
    BY DEF Reports!RemoveUpload, Reports!Age, ReportInv, ReportTypes
  <2> QED BY <2>1, <2>2 DEF Reports!RemoveUpload, Reports!rowVars, Reports!reportVars,
             Reports!writerVars, Reports!readerVars, ReportInv, ReportTypes
<1>2. NamesAreOwn'
  BY DEF Reports!RemoveUpload, Reports!reportVars, Reports!writerVars, ReportInv, NamesAreOwn,
     NameIsOwn, Assessing
<1>3. WritesHold'
  BY DEF Reports!RemoveUpload, Reports!rowVars, Reports!reportVars, Reports!writerVars, ReportInv,
     WritesHold, WriteHolds, Assessing, SweepIsSafe
<1>4. PromisesAreKept'
  BY DEF Reports!RemoveUpload, Reports!rowVars, Reports!reportVars, ReportInv, PromisesAreKept,
     Promised, SweepIsSafe
<1>5. SweepIsSafe'
  BY DEF Reports!RemoveUpload, Reports!Continue, Reports!Work, Reports!NoWork, Reports!rowVars,
     Reports!writerVars, ReportInv, SweepIsSafe, OfUpload, OfReport, Reports!NobodyWrites
<1>6. Reports!ReadersArePermitted'
  BY DEF Reports!RemoveUpload, Reports!readerVars, ReportInv, Reports!ReadersArePermitted
<1> QED BY <1>1, <1>2, <1>3, <1>4, <1>5, <1>6 DEF ReportInv

\* UploadDeleted keeps the reports' invariant.
LEMMA UploadDeletedKeepsReports ==
  ASSUME ReportInv, Reports!UploadDeleted
  PROVE  ReportInv'
<1>1. ReportTypes'
  <2>1. sweep' \in SweepWork
    BY DEF Reports!UploadDeleted, Reports!Work, SweepWork, SweepStage
  <2>2. upload' \in [Claim -> Reports!UploadState]
    BY DEF Reports!UploadDeleted, Reports!UploadState, ReportInv, ReportTypes
  <2> QED BY <2>1, <2>2 DEF Reports!UploadDeleted, Reports!reportVars, Reports!fileVars,
             Reports!writerVars, Reports!readerVars, ReportInv, ReportTypes
<1>2. NamesAreOwn'
  BY DEF Reports!UploadDeleted, Reports!reportVars, Reports!fileVars, Reports!writerVars,
     ReportInv, NamesAreOwn, NameIsOwn, Assessing
<1>3. WritesHold'
  BY DEF Reports!UploadDeleted, Reports!reportVars, Reports!fileVars, Reports!writerVars,
     ReportInv, WritesHold, WriteHolds, Assessing, SweepIsSafe
<1>4. PromisesAreKept'
  BY DEF Reports!UploadDeleted, Reports!reportVars, Reports!fileVars, ReportInv, PromisesAreKept,
     Promised, SweepIsSafe
<1>5. SweepIsSafe'
  BY DEF Reports!UploadDeleted, Reports!Work, Reports!writerVars, ReportInv, SweepIsSafe,
     OfUpload, OfReport, Reports!Removing, Reports!NobodyWrites
<1>6. Reports!ReadersArePermitted'
  BY DEF Reports!UploadDeleted, Reports!readerVars, ReportInv, Reports!ReadersArePermitted
<1> QED BY <1>1, <1>2, <1>3, <1>4, <1>5, <1>6 DEF ReportInv

\* MarkReport keeps the reports' invariant.
LEMMA MarkReportKeepsReports ==
  ASSUME ReportInv, Reports!MarkReport
  PROVE  ReportInv'
<1>1. ReportTypes'
  BY DEF Reports!MarkReport, Reports!Work, Reports!rowVars, Reports!fileVars, Reports!writerVars,
     Reports!readerVars, ReportInv, ReportTypes, SweepStage, SweepWork, OfReport,
     Reports!ReportState
<1>2. NamesAreOwn'
  BY DEF Reports!MarkReport, Reports!ReportIsDue, Reports!fileVars, Reports!writerVars, ReportInv,
     ReportTypes, NamesAreOwn, NameIsOwn, Assessing
<1>3. WritesHold'
  BY DEF Reports!MarkReport, Reports!ReportIsDue, Reports!rowVars, Reports!fileVars,
     Reports!writerVars, ReportInv, ReportTypes, WritesHold, WriteHolds, Assessing
<1>4. PromisesAreKept'
  BY DEF Reports!MarkReport, Reports!ReportIsDue, Reports!rowVars, Reports!fileVars, ReportInv,
     ReportTypes, PromisesAreKept, Promised
<1>5. SweepIsSafe'
  BY DEF Reports!MarkReport, Reports!Work, Reports!writerVars, ReportInv, ReportTypes,
     SweepIsSafe, OfUpload, OfReport, Reports!Removing, Reports!NobodyWrites
<1>6. Reports!ReadersArePermitted'
  BY DEF Reports!MarkReport, Reports!readerVars, ReportInv, Reports!ReadersArePermitted
<1> QED BY <1>1, <1>2, <1>3, <1>4, <1>5, <1>6 DEF ReportInv

\* RemoveFirst keeps the reports' invariant.
LEMMA RemoveFirstKeepsReports ==
  ASSUME ReportInv, Reports!RemoveFirst
  PROVE  ReportInv'
<1>1. ReportTypes'
  <2>1. sweep' \in SweepWork
    BY DEF Reports!RemoveFirst, Reports!Work, SweepWork, SweepStage, OfReport, ReportInv,
       ReportTypes
  <2>2. copy' \in [Reports!Copy -> Reports!Age]
    BY DEF Reports!RemoveFirst, Reports!Age, ReportInv, ReportTypes
  <2> QED BY <2>1, <2>2 DEF Reports!RemoveFirst, Reports!rowVars, Reports!reportVars,
             Reports!writerVars, Reports!readerVars, ReportInv, ReportTypes
<1>2. NamesAreOwn'
  BY DEF Reports!RemoveFirst, Reports!reportVars, Reports!writerVars, ReportInv, NamesAreOwn,
     NameIsOwn, Assessing
<1>3. WritesHold'
  BY DEF Reports!RemoveFirst, Reports!rowVars, Reports!reportVars, Reports!writerVars, ReportInv,
     WritesHold, WriteHolds, NamesAreOwn, NameIsOwn, Assessing, SweepIsSafe, OfReport
<1>4. PromisesAreKept'
  <2>0. /\ sweep.of \in Claim /\ report[sweep.of] = "DELETING" /\ key[sweep.of] \in ReportId
        /\ copy' = [copy EXCEPT ![<<key[sweep.of], "ORGANIZATION">>] = "NONE"]
        /\ UNCHANGED <<upload, evidenceDue, claimJob, evidence, report, key, hold>>
    BY DEF Reports!RemoveFirst, Reports!rowVars, Reports!reportVars, ReportInv, ReportTypes,
       SweepIsSafe, OfReport, NamesAreOwn, NameIsOwn
  <2> SUFFICES ASSUME NEW d \in Claim PROVE Promised(d)'
    BY DEF PromisesAreKept
  <2>1. Promised(d)
    BY DEF ReportInv, PromisesAreKept
  <2>2. ASSUME report[d] \in {"SEALED", "AVAILABLE"}, NEW s \in Reports!Side
        PROVE  copy'[<<key[d], s>>] = copy[<<key[d], s>>]
    <3>1. d # sweep.of /\ key[d] # key[sweep.of] /\ key[d] \in ReportId
      BY <2>0, <2>2 DEF ReportInv, ReportTypes, NamesAreOwn, NameIsOwn
    <3>2. <<key[d], s>> \in Reports!Copy /\ <<key[d], s>> # <<key[sweep.of], "ORGANIZATION">>
      BY <3>1, Copies
    <3> QED BY <2>0, <3>2
  <2> QED BY <2>0, <2>1, <2>2 DEF Promised, Reports!Side
<1>5. SweepIsSafe'
  BY DEF Reports!RemoveFirst, Reports!Work, Reports!reportVars, Reports!writerVars, ReportInv,
     SweepIsSafe, OfReport, Reports!Removing, Reports!NobodyWrites
<1>6. Reports!ReadersArePermitted'
  BY DEF Reports!RemoveFirst, Reports!readerVars, ReportInv, Reports!ReadersArePermitted
<1> QED BY <1>1, <1>2, <1>3, <1>4, <1>5, <1>6 DEF ReportInv

\* RemoveSecond keeps the reports' invariant.
LEMMA RemoveSecondKeepsReports ==
  ASSUME ReportInv, Reports!RemoveSecond
  PROVE  ReportInv'
<1>1. ReportTypes'
  <2>1. sweep' \in SweepWork
    BY DEF Reports!RemoveSecond, Reports!Continue, Reports!Work, Reports!NoWork, SweepWork,
       SweepStage, OfReport, ReportInv, ReportTypes
  <2>2. copy' \in [Reports!Copy -> Reports!Age]
    BY DEF Reports!RemoveSecond, Reports!Age, ReportInv, ReportTypes
  <2> QED BY <2>1, <2>2 DEF Reports!RemoveSecond, Reports!rowVars, Reports!reportVars,
             Reports!writerVars, Reports!readerVars, ReportInv, ReportTypes
<1>2. NamesAreOwn'
  BY DEF Reports!RemoveSecond, Reports!reportVars, Reports!writerVars, ReportInv, NamesAreOwn,
     NameIsOwn, Assessing
<1>3. WritesHold'
  BY DEF Reports!RemoveSecond, Reports!rowVars, Reports!reportVars, Reports!writerVars, ReportInv,
     WritesHold, WriteHolds, NamesAreOwn, NameIsOwn, Assessing, SweepIsSafe, OfReport
<1>4. PromisesAreKept'
  <2>0. /\ sweep.of \in Claim /\ report[sweep.of] = "DELETING" /\ key[sweep.of] \in ReportId
        /\ copy' = [copy EXCEPT ![<<key[sweep.of], "RESEARCHER">>] = "NONE"]
        /\ UNCHANGED <<upload, evidenceDue, claimJob, evidence, report, key, hold>>
    BY DEF Reports!RemoveSecond, Reports!rowVars, Reports!reportVars, ReportInv, ReportTypes,
       SweepIsSafe, OfReport, NamesAreOwn, NameIsOwn
  <2> SUFFICES ASSUME NEW d \in Claim PROVE Promised(d)'
    BY DEF PromisesAreKept
  <2>1. Promised(d)
    BY DEF ReportInv, PromisesAreKept
  <2>2. ASSUME report[d] \in {"SEALED", "AVAILABLE"}, NEW s \in Reports!Side
        PROVE  copy'[<<key[d], s>>] = copy[<<key[d], s>>]
    <3>1. d # sweep.of /\ key[d] # key[sweep.of] /\ key[d] \in ReportId
      BY <2>0, <2>2 DEF ReportInv, ReportTypes, NamesAreOwn, NameIsOwn
    <3>2. <<key[d], s>> \in Reports!Copy /\ <<key[d], s>> # <<key[sweep.of], "RESEARCHER">>
      BY <3>1, Copies
    <3> QED BY <2>0, <3>2
  <2> QED BY <2>0, <2>1, <2>2 DEF Promised, Reports!Side
<1>5. SweepIsSafe'
  BY DEF Reports!RemoveSecond, Reports!Continue, Reports!Work, Reports!NoWork, Reports!reportVars,
     Reports!writerVars, ReportInv, SweepIsSafe, OfUpload, OfReport, Reports!NobodyWrites
<1>6. Reports!ReadersArePermitted'
  BY DEF Reports!RemoveSecond, Reports!readerVars, ReportInv, Reports!ReadersArePermitted
<1> QED BY <1>1, <1>2, <1>3, <1>4, <1>5, <1>6 DEF ReportInv

\* ReportDeleted keeps the reports' invariant.
LEMMA ReportDeletedKeepsReports ==
  ASSUME ReportInv, Reports!ReportDeleted
  PROVE  ReportInv'
<1>1. ReportTypes'
  <2>1. sweep' \in SweepWork
    BY DEF Reports!ReportDeleted, Reports!Work, SweepWork, SweepStage
  <2>2. report' \in [Claim -> Reports!ReportState]
    BY DEF Reports!ReportDeleted, Reports!ReportState, ReportInv, ReportTypes
  <2> QED BY <2>1, <2>2 DEF Reports!ReportDeleted, Reports!rowVars, Reports!fileVars,
             Reports!writerVars, Reports!readerVars, ReportInv, ReportTypes
<1>2. NamesAreOwn'
  <2>0. /\ sweep.of \in Claim /\ report[sweep.of] = "DELETING"
        /\ report' = [report EXCEPT ![sweep.of] = "DELETED"]
        /\ UNCHANGED <<key, writer, naming, used, copy>>
    BY DEF Reports!ReportDeleted, Reports!fileVars, Reports!writerVars, ReportInv, SweepIsSafe,
       OfReport
  <2>1. \A d \in Claim : report'[d] # "NONE" => report[d] # "NONE"
    BY <2>0
  <2> QED BY <2>0, <2>1 DEF ReportInv, NamesAreOwn, NameIsOwn, Assessing
<1>3. WritesHold'
  BY DEF Reports!ReportDeleted, Reports!rowVars, Reports!fileVars, Reports!writerVars, ReportInv,
     WritesHold, WriteHolds, Assessing, SweepIsSafe
<1>4. PromisesAreKept'
  BY DEF Reports!ReportDeleted, Reports!rowVars, Reports!fileVars, ReportInv, PromisesAreKept,
     Promised, SweepIsSafe
<1>5. SweepIsSafe'
  BY DEF Reports!ReportDeleted, Reports!Work, Reports!writerVars, ReportInv, SweepIsSafe,
     OfUpload, OfReport, Reports!Removing, Reports!NobodyWrites
<1>6. Reports!ReadersArePermitted'
  BY DEF Reports!ReportDeleted, Reports!readerVars, ReportInv, Reports!ReadersArePermitted
<1> QED BY <1>1, <1>2, <1>3, <1>4, <1>5, <1>6 DEF ReportInv

\* ListFiles keeps the reports' invariant.
LEMMA ListFilesKeepsReports ==
  ASSUME ReportInv, Reports!ListFiles
  PROVE  ReportInv'
<1>1. ReportTypes'
  BY DEF Reports!ListFiles, Reports!Work, Reports!rowVars, Reports!reportVars, Reports!fileVars,
     Reports!writerVars, Reports!readerVars, ReportInv, ReportTypes, SweepStage, SweepWork
<1>2. NamesAreOwn'
  BY DEF Reports!ListFiles, Reports!reportVars, Reports!fileVars, Reports!writerVars, ReportInv,
     NamesAreOwn, NameIsOwn, Assessing
<1>3. WritesHold'
  BY DEF Reports!ListFiles, Reports!rowVars, Reports!reportVars, Reports!fileVars,
     Reports!writerVars, ReportInv, WritesHold, WriteHolds, Assessing
<1>4. PromisesAreKept'
  BY DEF Reports!ListFiles, Reports!rowVars, Reports!reportVars, Reports!fileVars, ReportInv,
     PromisesAreKept, Promised
<1>5. SweepIsSafe'
  BY DEF Reports!ListFiles, Reports!Work, Reports!writerVars, ReportInv, SweepIsSafe, OfUpload,
     OfReport, Reports!Removing, Reports!NobodyWrites
<1>6. Reports!ReadersArePermitted'
  BY DEF Reports!ListFiles, Reports!readerVars, ReportInv, Reports!ReadersArePermitted
<1> QED BY <1>1, <1>2, <1>3, <1>4, <1>5, <1>6 DEF ReportInv

\* Unlink keeps the reports' invariant.
LEMMA UnlinkKeepsReports ==
  ASSUME ReportInv, Reports!Unlink
  PROVE  ReportInv'
<1>1. ReportTypes'
  BY DEF Reports!Unlink, Reports!Continue, Reports!Work, Reports!NoWork, Reports!rowVars,
     Reports!reportVars, Reports!writerVars, Reports!readerVars, ReportInv, ReportTypes,
     SweepStage, SweepWork, Reports!Age
<1>2. NamesAreOwn'
  BY DEF Reports!Unlink, Reports!reportVars, Reports!writerVars, ReportInv, ReportTypes,
     NamesAreOwn, NameIsOwn, Assessing
<1>3. WritesHold'
  BY Copies DEF Reports!Unlink, Reports!rowVars, Reports!reportVars, Reports!writerVars,
     ReportInv, ReportTypes, WritesHold, WriteHolds, NamesAreOwn, NameIsOwn, Assessing,
     SweepIsSafe, Reports!Side
<1>4. PromisesAreKept'
  BY Copies DEF Reports!Unlink, Reports!rowVars, Reports!reportVars, ReportInv, ReportTypes,
     PromisesAreKept, Promised, NamesAreOwn, NameIsOwn, SweepIsSafe, Reports!Side
<1>5. SweepIsSafe'
  BY DEF Reports!Unlink, Reports!Continue, Reports!Work, Reports!NoWork, Reports!writerVars,
     ReportInv, SweepIsSafe, OfUpload, OfReport, Reports!NobodyWrites
<1>6. Reports!ReadersArePermitted'
  BY DEF Reports!Unlink, Reports!readerVars, ReportInv, Reports!ReadersArePermitted
<1> QED BY <1>1, <1>2, <1>3, <1>4, <1>5, <1>6 DEF ReportInv

\* SweepDone keeps the reports' invariant.
LEMMA SweepDoneKeepsReports ==
  ASSUME ReportInv, Reports!SweepDone
  PROVE  ReportInv'
<1>1. ReportTypes'
  <2>1. sweep' \in SweepWork
    BY DEF Reports!SweepDone, Reports!NoWork, SweepWork, SweepStage
  <2> QED BY <2>1 DEF Reports!SweepDone, Reports!rowVars, Reports!reportVars, Reports!fileVars,
             Reports!writerVars, Reports!readerVars, ReportInv, ReportTypes
<1>2. NamesAreOwn'
  BY DEF Reports!SweepDone, Reports!reportVars, Reports!fileVars, Reports!writerVars, ReportInv,
     NamesAreOwn, NameIsOwn, Assessing
<1>3. WritesHold'
  BY DEF Reports!SweepDone, Reports!rowVars, Reports!reportVars, Reports!fileVars,
     Reports!writerVars, ReportInv, WritesHold, WriteHolds, Assessing
<1>4. PromisesAreKept'
  BY DEF Reports!SweepDone, Reports!rowVars, Reports!reportVars, Reports!fileVars, ReportInv,
     PromisesAreKept, Promised
<1>5. SweepIsSafe'
  BY DEF Reports!SweepDone, Reports!NoWork, SweepIsSafe, OfUpload, OfReport
<1>6. Reports!ReadersArePermitted'
  BY DEF Reports!SweepDone, Reports!readerVars, ReportInv, Reports!ReadersArePermitted
<1> QED BY <1>1, <1>2, <1>3, <1>4, <1>5, <1>6 DEF ReportInv

\* LoseConnection keeps the reports' invariant.
LEMMA LoseConnectionKeepsReports ==
  ASSUME ReportInv, Reports!LoseConnection
  PROVE  ReportInv'
<1>1. ReportTypes'
  <2>1. sweep' \in SweepWork
    BY DEF Reports!LoseConnection, Reports!NoWork, SweepWork, SweepStage, ReportInv, ReportTypes
  <2> QED BY <2>1 DEF Reports!LoseConnection, Reports!rowVars, Reports!reportVars,
             Reports!fileVars, Reports!writerVars, Reports!readerVars, ReportInv, ReportTypes
<1>2. NamesAreOwn'
  BY DEF Reports!LoseConnection, Reports!reportVars, Reports!fileVars, Reports!writerVars,
     ReportInv, NamesAreOwn, NameIsOwn, Assessing
<1>3. WritesHold'
  BY DEF Reports!LoseConnection, Reports!writerVars, ReportInv, WritesHold, WriteHolds, Assessing,
     SweepIsSafe, Reports!NobodyWrites
<1>4. PromisesAreKept'
  BY DEF Reports!LoseConnection, Reports!rowVars, Reports!reportVars, Reports!fileVars, ReportInv,
     PromisesAreKept, Promised
<1>5. SweepIsSafe'
  BY DEF Reports!LoseConnection, Reports!NoWork, Reports!rowVars, Reports!reportVars,
     Reports!writerVars, ReportInv, Assessing, SweepIsSafe, OfUpload, OfReport
<1>6. Reports!ReadersArePermitted'
  BY DEF Reports!LoseConnection, Reports!readerVars, ReportInv, Reports!ReadersArePermitted
<1> QED BY <1>1, <1>2, <1>3, <1>4, <1>5, <1>6 DEF ReportInv

\* Crash keeps the reports' invariant.
LEMMA CrashKeepsReports ==
  ASSUME ReportInv, Reports!Crash
  PROVE  ReportInv'
<1>1. ReportTypes'
  <2>1. sweep' \in SweepWork
    BY DEF Reports!Crash, Reports!NoWork, SweepWork, SweepStage
  <2> QED BY <2>1 DEF Reports!Crash, Reports!rowVars, Reports!reportVars, Reports!fileVars,
             Reports!writerVars, Reports!readerVars, ReportInv, ReportTypes
<1>2. NamesAreOwn'
  BY DEF Reports!Crash, Reports!reportVars, Reports!fileVars, Reports!writerVars, ReportInv,
     NamesAreOwn, NameIsOwn, Assessing
<1>3. WritesHold'
  BY DEF Reports!Crash, Reports!rowVars, Reports!reportVars, Reports!fileVars, Reports!writerVars,
     ReportInv, WritesHold, WriteHolds, Assessing
<1>4. PromisesAreKept'
  BY DEF Reports!Crash, Reports!rowVars, Reports!reportVars, Reports!fileVars, ReportInv,
     PromisesAreKept, Promised
<1>5. SweepIsSafe'
  BY DEF Reports!Crash, Reports!NoWork, SweepIsSafe, OfUpload, OfReport
<1>6. Reports!ReadersArePermitted'
  BY DEF Reports!Crash, Reports!readerVars, ReportInv, Reports!ReadersArePermitted
<1> QED BY <1>1, <1>2, <1>3, <1>4, <1>5, <1>6 DEF ReportInv

\* ChooseUpload keeps the reports' invariant.
LEMMA ChooseUploadKeepsReports ==
  ASSUME ReportInv, NEW c \in Claim, Reports!ChooseUpload(c)
  PROVE  ReportInv'
<1>1. ReportTypes'
  BY DEF Reports!ChooseUpload, Reports!Work, Reports!rowVars, Reports!reportVars,
     Reports!fileVars, Reports!writerVars, Reports!readerVars, ReportInv, ReportTypes, SweepStage,
     SweepWork, OfUpload
<1>2. NamesAreOwn'
  BY DEF Reports!ChooseUpload, Reports!reportVars, Reports!fileVars, Reports!writerVars,
     ReportInv, NamesAreOwn, NameIsOwn, Assessing
<1>3. WritesHold'
  BY DEF Reports!ChooseUpload, Reports!writerVars, ReportInv, WritesHold, WriteHolds, Assessing,
     SweepIsSafe, Reports!Removing, Reports!NobodyWrites
<1>4. PromisesAreKept'
  BY DEF Reports!ChooseUpload, Reports!rowVars, Reports!reportVars, Reports!fileVars, ReportInv,
     PromisesAreKept, Promised
<1>5. SweepIsSafe'
  BY DEF Reports!ChooseUpload, Reports!Work, Reports!writerVars, ReportInv, SweepIsSafe,
     Reports!Removing, Reports!NobodyWrites
<1>6. Reports!ReadersArePermitted'
  BY DEF Reports!ChooseUpload, Reports!readerVars, ReportInv, Reports!ReadersArePermitted
<1> QED BY <1>1, <1>2, <1>3, <1>4, <1>5, <1>6 DEF ReportInv

\* ChooseReport keeps the reports' invariant.
LEMMA ChooseReportKeepsReports ==
  ASSUME ReportInv, NEW c \in Claim, Reports!ChooseReport(c)
  PROVE  ReportInv'
<1>1. ReportTypes'
  BY DEF Reports!ChooseReport, Reports!Work, Reports!rowVars, Reports!reportVars,
     Reports!fileVars, Reports!writerVars, Reports!readerVars, ReportInv, ReportTypes, SweepStage,
     SweepWork, OfReport
<1>2. NamesAreOwn'
  BY DEF Reports!ChooseReport, Reports!reportVars, Reports!fileVars, Reports!writerVars,
     ReportInv, NamesAreOwn, NameIsOwn, Assessing
<1>3. WritesHold'
  BY DEF Reports!ChooseReport, Reports!writerVars, ReportInv, WritesHold, WriteHolds, Assessing,
     SweepIsSafe, Reports!Removing, Reports!NobodyWrites
<1>4. PromisesAreKept'
  BY DEF Reports!ChooseReport, Reports!rowVars, Reports!reportVars, Reports!fileVars, ReportInv,
     PromisesAreKept, Promised
<1>5. SweepIsSafe'
  BY DEF Reports!ChooseReport, Reports!Work, Reports!writerVars, ReportInv, SweepIsSafe,
     Reports!Removing, Reports!NobodyWrites
<1>6. Reports!ReadersArePermitted'
  BY DEF Reports!ChooseReport, Reports!readerVars, ReportInv, Reports!ReadersArePermitted
<1> QED BY <1>1, <1>2, <1>3, <1>4, <1>5, <1>6 DEF ReportInv

\* InspectEvidence keeps the reports' invariant.
LEMMA InspectEvidenceKeepsReports ==
  ASSUME ReportInv, NEW c \in Claim, Reports!InspectEvidence(c)
  PROVE  ReportInv'
<1>1. ReportTypes'
  BY DEF Reports!InspectEvidence, Reports!Work, Reports!rowVars, Reports!reportVars,
     Reports!fileVars, Reports!writerVars, Reports!readerVars, ReportInv, ReportTypes, SweepStage,
     SweepWork, OfUpload
<1>2. NamesAreOwn'
  BY DEF Reports!InspectEvidence, Reports!reportVars, Reports!fileVars, Reports!writerVars,
     ReportInv, NamesAreOwn, NameIsOwn, Assessing
<1>3. WritesHold'
  BY DEF Reports!InspectEvidence, Reports!rowVars, Reports!reportVars, Reports!fileVars,
     Reports!writerVars, ReportInv, WritesHold, WriteHolds, Assessing
<1>4. PromisesAreKept'
  BY DEF Reports!InspectEvidence, Reports!rowVars, Reports!reportVars, Reports!fileVars,
     ReportInv, PromisesAreKept, Promised
<1>5. SweepIsSafe'
  BY DEF Reports!InspectEvidence, Reports!Work, Reports!rowVars, Reports!writerVars, ReportInv,
     SweepIsSafe, Reports!Removing, Reports!NobodyWrites
<1>6. Reports!ReadersArePermitted'
  BY DEF Reports!InspectEvidence, Reports!readerVars, ReportInv, Reports!ReadersArePermitted
<1> QED BY <1>1, <1>2, <1>3, <1>4, <1>5, <1>6 DEF ReportInv

\* InspectCopy keeps the reports' invariant.
LEMMA InspectCopyKeepsReports ==
  ASSUME ReportInv, NEW o \in Reports!Copy, Reports!InspectCopy(o)
  PROVE  ReportInv'
<1>1. ReportTypes'
  BY DEF Reports!InspectCopy, Reports!Work, Reports!rowVars, Reports!reportVars, Reports!fileVars,
     Reports!writerVars, Reports!readerVars, ReportInv, ReportTypes, SweepStage, SweepWork
<1>2. NamesAreOwn'
  BY DEF Reports!InspectCopy, Reports!reportVars, Reports!fileVars, Reports!writerVars, ReportInv,
     NamesAreOwn, NameIsOwn, Assessing
<1>3. WritesHold'
  BY DEF Reports!InspectCopy, Reports!rowVars, Reports!reportVars, Reports!fileVars,
     Reports!writerVars, ReportInv, WritesHold, WriteHolds, Assessing
<1>4. PromisesAreKept'
  BY DEF Reports!InspectCopy, Reports!rowVars, Reports!reportVars, Reports!fileVars, ReportInv,
     PromisesAreKept, Promised
<1>5. SweepIsSafe'
  BY DEF Reports!InspectCopy, Reports!Work, Reports!Restored, Reports!Orphan, Reports!reportVars,
     Reports!writerVars, ReportInv, NamesAreOwn, NameIsOwn, Assessing, SweepIsSafe, OfUpload,
     OfReport, Reports!Removing, Reports!NobodyWrites
<1>6. Reports!ReadersArePermitted'
  BY DEF Reports!InspectCopy, Reports!readerVars, ReportInv, Reports!ReadersArePermitted
<1> QED BY <1>1, <1>2, <1>3, <1>4, <1>5, <1>6 DEF ReportInv

\* At the beginning there is no claim.
LEMMA ReportInit == Reports!Init => ReportInv
<1> SUFFICES ASSUME Reports!Init PROVE ReportInv
  OBVIOUS
<1>1. ReportTypes
  BY DEF Reports!Init, Reports!NoWork, Reports!NoReader, ReportTypes, WriteStage, SweepStage,
     SweepWork, ReaderWork, Reports!UploadState, Reports!JobState, Reports!ReportState,
     Reports!Age
<1>2. NamesAreOwn /\ WritesHold /\ PromisesAreKept
  BY DEF Reports!Init, NamesAreOwn, NameIsOwn, Assessing, WritesHold, WriteHolds, PromisesAreKept,
     Promised
<1>3. SweepIsSafe /\ Reports!ReadersArePermitted
  BY DEF Reports!Init, Reports!NoWork, SweepIsSafe, OfUpload, OfReport, Reports!ReadersArePermitted
<1> QED BY <1>1, <1>2, <1>3 DEF ReportInv

\* Every step of the claims, the downloads and the sweep keeps the invariant.
LEMMA ReportNext == ReportInv /\ [Reports!Next]_reportVars => ReportInv'
<1> SUFFICES ASSUME ReportInv, [Reports!Next]_reportVars PROVE ReportInv'
  OBVIOUS
<1>1. CASE UNCHANGED reportVars
  BY <1>1 DEF reportVars, ReportInv, ReportTypes, NamesAreOwn, NameIsOwn, Assessing, WritesHold,
     WriteHolds, PromisesAreKept, Promised, SweepIsSafe, Reports!NobodyWrites,
     Reports!ReadersArePermitted
<1>2. ASSUME NEW c \in Claim, Reports!Claims(c) PROVE ReportInv'
  <2>1. ASSUME NEW b \in Bounty \ Slot, Reports!PrepareUpload(c, b) PROVE ReportInv'
    BY <2>1, PrepareUploadKeepsReports
  <2>2. ASSUME NEW b \in Slot, Reports!SubmitFinding(c, b) PROVE ReportInv'
    BY <2>2, SubmitFindingKeepsReports
  <2>3. CASE Reports!BeginPut(c) \/ Reports!PutEvidence(c) \/ Reports!CommitPut(c)
    BY <2>3, BeginPutKeepsReports, PutEvidenceKeepsReports, CommitPutKeepsReports
  <2>4. CASE Reports!BeginAssess(c) \/ Reports!PutOrganization(c) \/ Reports!PutResearcher(c)
    BY <2>4, BeginAssessKeepsReports, PutOrganizationKeepsReports, PutResearcherKeepsReports
  <2>5. ASSUME NEW qualifies \in BOOLEAN, Reports!CommitAssess(c, qualifies) PROVE ReportInv'
    BY <2>5, CommitAssessKeepsReports
  <2>6. CASE Reports!Abort(c) \/ Reports!Settle(c) \/ Reports!Pay(c) \/ Reports!RecordExpiry(c)
    BY <2>6, AbortKeepsReports, SettleKeepsReports, PayKeepsReports, RecordExpiryKeepsReports
  <2>7. CASE Reports!Elapse(c) \/ Reports!ReleaseReport(c) \/ Reports!Restore(c)
    BY <2>7, ElapseKeepsReports, ReleaseReportKeepsReports, RestoreKeepsReports
  <2> QED BY <1>2, <2>1, <2>2, <2>3, <2>4, <2>5, <2>6, <2>7 DEF Reports!Claims
<1>3. CASE Reports!Grow
  BY <1>3, GrowKeepsReports
<1>4. CASE Reports!Downloads
  <2>1. CASE Reports!RemoveMember \/ Reports!Read \/ Reports!Deliver
    BY <2>1, RemoveMemberKeepsReports, ReadKeepsReports, DeliverKeepsReports
  <2>2. ASSUME NEW mode \in Reports!Side, NEW c \in Claim, Reports!Request(mode, c) PROVE ReportInv'
    BY <2>2, RequestKeepsReports
  <2> QED BY <1>4, <2>1, <2>2 DEF Reports!Downloads
<1>5. CASE Reports!Sweeps
  <2>1. CASE Reports!SweepRetention \/ Reports!MarkUpload \/ Reports!RemoveUpload \/ Reports!UploadDeleted
    BY <2>1, SweepRetentionKeepsReports, MarkUploadKeepsReports, RemoveUploadKeepsReports,
       UploadDeletedKeepsReports
  <2>2. CASE Reports!MarkReport \/ Reports!RemoveFirst \/ Reports!RemoveSecond \/ Reports!ReportDeleted
    BY <2>2, MarkReportKeepsReports, RemoveFirstKeepsReports, RemoveSecondKeepsReports,
       ReportDeletedKeepsReports
  <2>3. CASE \/ Reports!ListFiles \/ Reports!Unlink \/ Reports!SweepDone
             \/ Reports!LoseConnection \/ Reports!Crash
    BY <2>3, ListFilesKeepsReports, UnlinkKeepsReports, SweepDoneKeepsReports,
       LoseConnectionKeepsReports, CrashKeepsReports
  <2>4. ASSUME NEW c \in Claim,
               Reports!ChooseUpload(c) \/ Reports!ChooseReport(c) \/ Reports!InspectEvidence(c)
        PROVE  ReportInv'
    BY <2>4, ChooseUploadKeepsReports, ChooseReportKeepsReports, InspectEvidenceKeepsReports
  <2>5. ASSUME NEW o \in Reports!Copy, Reports!InspectCopy(o) PROVE ReportInv'
    BY <2>5, InspectCopyKeepsReports
  <2> QED BY <1>5, <2>1, <2>2, <2>3, <2>4, <2>5 DEF Reports!Sweeps
<1> QED BY <1>1, <1>2, <1>3, <1>4, <1>5 DEF Reports!Next

\* The invariant gives the type invariant.
LEMMA ReportTypesOK == ReportInv => Reports!TypeOK
<1> SUFFICES ASSUME ReportInv PROVE Reports!TypeOK
  OBVIOUS
<1>1. DOMAIN sweep = {"at", "of"} /\ DOMAIN reader = {"at", "mode", "of"}
  BY DEF ReportInv, ReportTypes, SweepWork, ReaderWork
<1> QED BY <1>1 DEF ReportInv, ReportTypes, WriteStage, Reports!TypeOK

\* The invariant gives the property of the runs.
LEMMA ReportsSafe == ReportInv => Reports!ReportsAreSafe
BY DEF ReportInv, PromisesAreKept, Promised, Reports!ReportsAreSafe, Reports!FilesAreKept,
   Reports!Side

-----------------------------------------------------------------------------
(* Transfers: a transaction is known, mined or reported by a page only when  *)
(* it is the one the transfer has saved, and a saved one never changes.      *)

PageStage == {"IDLE", "SIGNED", "MATCHED", "FORWARD", "ANSWER", "STORE", "RECONCILE", "RECORD"}
Mining == {"NO", "PAID", "REVERTED", "PAID_FINAL", "REVERTED_FINAL"}
TransferRow == [state : Transfers!TransferState, nonce : Nat, variant : Variant \cup {0}]
PageRow == [at : PageStage, of : Transfer \cup {0}, variant : Variant \cup {0}, seen : Transfers!TransferState]

TransferTypes ==
  /\ transfer \in [Transfer -> TransferRow]
  /\ pages \in [Tab -> PageRow]
  /\ cached \in [Transfer -> Variant \cup {0}]
  /\ known \subseteq Transfers!Transaction
  /\ mined \in [Transfers!Transaction -> Mining]
  /\ sent \in Nat

\* What the network knows of a transfer is its saved transaction, and one that
\* is mined has used its nonce.
NetworkFollows ==
  \A x \in Transfers!Transaction :
    /\ x \in known => transfer[x[1]].variant = x[2]
    /\ mined[x] # "NO" => transfer[x[1]].variant = x[2] /\ transfer[x[1]].nonce < sent

TransferFollows(t) ==
  /\ transfer[t].variant # 0 => transfer[t].state # "NONE"
  /\ cached[t] # 0 => transfer[t].variant = cached[t]
  /\ transfer[t].state \in {"CONFIRMED", "FAILED"} => transfer[t].variant # 0
  /\ transfer[t].state = "CONFIRMED" => mined[<<t, transfer[t].variant>>] = "PAID_FINAL"
  /\ transfer[t].state = "FAILED" => mined[<<t, transfer[t].variant>>] = "REVERTED_FINAL"

SavedFollows == \A t \in Transfer : TransferFollows(t)

PageFollows(p) ==
  /\ pages[p].of \in Transfer /\ pages[p].variant \in Variant
  /\ transfer[pages[p].of].state # "NONE"
  /\ pages[p].at \notin {"SIGNED", "MATCHED"} => transfer[pages[p].of].variant = pages[p].variant
  /\ pages[p].at = "RECORD" =>
       /\ pages[p].seen \in {"BROADCAST", "CONFIRMED", "FAILED"}
       /\ pages[p].seen = "CONFIRMED" => mined[<<pages[p].of, pages[p].variant>>] = "PAID_FINAL"
       /\ pages[p].seen = "FAILED" => mined[<<pages[p].of, pages[p].variant>>] = "REVERTED_FINAL"

PagesFollow == \A p \in Tab : pages[p].at # "IDLE" => PageFollows(p)

NoncesDiffer ==
  \A t, u \in Transfer :
    t # u /\ transfer[t].state # "NONE" /\ transfer[u].state # "NONE" => transfer[t].nonce # transfer[u].nonce

TransferInv == TransferTypes /\ NetworkFollows /\ SavedFollows /\ PagesFollow /\ NoncesDiffer

\* A transaction is a transfer with one of its variants.
LEMMA Transactions ==
  /\ \A x \in Transfers!Transaction : x[1] \in Transfer /\ x[2] \in Variant /\ x = <<x[1], x[2]>>
  /\ \A t \in Transfer : \A v \in Variant :
       <<t, v>> \in Transfers!Transaction /\ <<t, v>>[1] = t /\ <<t, v>>[2] = v
BY DEF Transfers!Transaction

\* A page that moves on keeps the rest of its row.
LEMMA PageMoves ==
  ASSUME pages \in [Tab -> PageRow], NEW p \in Tab, NEW at \in PageStage, Transfers!Goto(p, at)
  PROVE  /\ pages' \in [Tab -> PageRow]
         /\ pages'[p].at = at /\ pages'[p].of = pages[p].of
         /\ pages'[p].variant = pages[p].variant /\ pages'[p].seen = pages[p].seen
         /\ \A q \in Tab : q # p => pages'[q] = pages[q]
<1>1. pages[p] \in PageRow
  OBVIOUS
<1>2. [pages[p] EXCEPT !.at = at] \in PageRow
  BY <1>1 DEF PageRow
<1>3. pages' = [pages EXCEPT ![p] = [pages[p] EXCEPT !.at = at]]
  BY DEF Transfers!Goto
<1> QED BY <1>1, <1>2, <1>3

\* A transaction that is known or mined stays the one its transfer has saved
\* when the transfers only keep or set what they have saved.

\* SendElsewhere keeps the transfers' invariant.
LEMMA SendElsewhereKeepsTransfers ==
  ASSUME TransferInv, Transfers!SendElsewhere
  PROVE  TransferInv'
<1>1. TransferTypes'
  BY DEF Transfers!SendElsewhere, TransferInv, TransferTypes
<1>2. NetworkFollows'
  BY Transactions DEF Transfers!SendElsewhere, TransferInv, TransferTypes, TransferRow,
     NetworkFollows
<1>3. SavedFollows'
  BY DEF Transfers!SendElsewhere, TransferInv, SavedFollows, TransferFollows
<1>4. PagesFollow'
  BY DEF Transfers!SendElsewhere, TransferInv, PagesFollow, PageFollows
<1>5. NoncesDiffer'
  BY DEF Transfers!SendElsewhere, TransferInv, NoncesDiffer
<1> QED BY <1>1, <1>2, <1>3, <1>4, <1>5 DEF TransferInv

\* Finalize keeps the transfers' invariant.
LEMMA FinalizeKeepsTransfers ==
  ASSUME TransferInv, NEW x \in Transfers!Transaction, Transfers!Finalize(x)
  PROVE  TransferInv'
<1>1. TransferTypes'
  BY DEF Transfers!Finalize, TransferInv, TransferTypes, Mining
<1>2. NetworkFollows'
  BY DEF Transfers!Finalize, TransferInv, NetworkFollows
<1>3. SavedFollows'
  BY DEF Transfers!Finalize, TransferInv, SavedFollows, TransferFollows
<1>4. PagesFollow'
  BY DEF Transfers!Finalize, TransferInv, PagesFollow, PageFollows
<1>5. NoncesDiffer'
  BY DEF Transfers!Finalize, TransferInv, NoncesDiffer
<1> QED BY <1>1, <1>2, <1>3, <1>4, <1>5 DEF TransferInv

\* Drop keeps the transfers' invariant.
LEMMA DropKeepsTransfers ==
  ASSUME TransferInv, NEW x \in Transfers!Transaction, Transfers!Drop(x)
  PROVE  TransferInv'
<1>1. TransferTypes'
  BY DEF Transfers!Drop, TransferInv, TransferTypes
<1>2. NetworkFollows'
  BY DEF Transfers!Drop, TransferInv, NetworkFollows
<1>3. SavedFollows'
  BY DEF Transfers!Drop, TransferInv, SavedFollows, TransferFollows
<1>4. PagesFollow'
  BY DEF Transfers!Drop, TransferInv, PagesFollow, PageFollows
<1>5. NoncesDiffer'
  BY DEF Transfers!Drop, TransferInv, NoncesDiffer
<1> QED BY <1>1, <1>2, <1>3, <1>4, <1>5 DEF TransferInv

\* Mine keeps the transfers' invariant.
LEMMA MineKeepsTransfers ==
  ASSUME TransferInv, NEW x \in Transfers!Transaction, NEW outcome \in {"PAID", "REVERTED"}, Transfers!Mine(x, outcome)
  PROVE  TransferInv'
<1>1. TransferTypes'
  BY DEF Transfers!Mine, TransferInv, TransferTypes, Mining
<1>2. NetworkFollows'
  BY Transactions DEF Transfers!Mine, TransferInv, TransferTypes, TransferRow,
     NetworkFollows
<1>3. SavedFollows'
  BY DEF Transfers!Mine, TransferInv, SavedFollows, TransferFollows
<1>4. PagesFollow'
  BY DEF Transfers!Mine, TransferInv, PagesFollow, PageFollows
<1>5. NoncesDiffer'
  BY DEF Transfers!Mine, TransferInv, NoncesDiffer
<1> QED BY <1>1, <1>2, <1>3, <1>4, <1>5 DEF TransferInv

\* PrepareTransfer keeps the transfers' invariant.
LEMMA PrepareTransferKeepsTransfers ==
  ASSUME TransferInv, NEW t \in Transfer, Transfers!PrepareTransfer(t)
  PROVE  TransferInv'
<1>1. TransferTypes'
  BY DEF Transfers!PrepareTransfer, Transfers!PendingCount, TransferInv, TransferTypes,
     TransferRow, Transfers!TransferState, Transfers!PendingState
<1>2. NetworkFollows'
  BY OperationsAssumption, Transactions DEF Transfers!PrepareTransfer, TransferInv,
     NetworkFollows, SavedFollows, TransferFollows
<1>3. SavedFollows'
  BY DEF Transfers!PrepareTransfer, TransferInv, TransferTypes, SavedFollows,
     TransferFollows
<1>4. PagesFollow'
  BY DEF Transfers!PrepareTransfer, TransferInv, PagesFollow, PageFollows
<1>5. NoncesDiffer'
  <2>1. \A u \in Transfer : transfer[u].state # "NONE" => transfer[u].nonce < sent
    <3> SUFFICES ASSUME NEW u \in Transfer, transfer[u].state # "NONE" PROVE transfer[u].nonce < sent
      OBVIOUS
    <3>1. transfer[u].state \in {"CONFIRMED", "FAILED"} /\ transfer[u].variant \in Variant
      BY DEF Transfers!PrepareTransfer, Transfers!IsPending, Transfers!TransferState, TransferInv,
         TransferTypes, TransferRow, SavedFollows, TransferFollows
    <3>2. mined[<<u, transfer[u].variant>>] # "NO"
      BY <3>1 DEF TransferInv, SavedFollows, TransferFollows
    <3> QED BY <3>1, <3>2, Transactions DEF TransferInv, NetworkFollows
  <2>2. Transfers!PendingCount \in Nat /\ Transfers!PendingCount >= sent
    BY DEF Transfers!PendingCount, TransferInv, TransferTypes
  <2>3. transfer \in [Transfer -> TransferRow] /\ sent \in Nat
        /\ \A u \in Transfer : transfer[u].nonce \in Nat
    BY DEF TransferInv, TransferTypes, TransferRow
  <2>4. transfer'[t].nonce = Transfers!PendingCount /\ \A u \in Transfer : u # t => transfer'[u] = transfer[u]
    BY <2>3 DEF Transfers!PrepareTransfer
  <2> HIDE DEF Transfers!PendingCount
  <2> QED BY <2>1, <2>2, <2>3, <2>4 DEF TransferInv, NoncesDiffer
<1> QED BY <1>1, <1>2, <1>3, <1>4, <1>5 DEF TransferInv

\* CheckConfirmation keeps the transfers' invariant.
LEMMA CheckConfirmationKeepsTransfers ==
  ASSUME TransferInv, NEW p \in Tab, NEW t \in Transfer, Transfers!CheckConfirmation(p, t)
  PROVE  TransferInv'
<1>0. pages' \in [Tab -> PageRow] /\ \A q \in Tab : q # p => pages'[q] = pages[q]
  <2>1. pages'[p] \in PageRow
    BY DEF Transfers!CheckConfirmation, Transfers!Idle, TransferInv, TransferTypes, TransferRow,
       PageRow, PageStage, Transfers!TransferState
  <2> QED BY <2>1 DEF TransferInv, TransferTypes, Transfers!CheckConfirmation
<1>1. TransferTypes'
  BY <1>0 DEF Transfers!CheckConfirmation, TransferInv, TransferTypes
<1>2. NetworkFollows'
  BY <1>0 DEF Transfers!CheckConfirmation, TransferInv, NetworkFollows
<1>3. SavedFollows'
  BY <1>0 DEF Transfers!CheckConfirmation, TransferInv, SavedFollows, TransferFollows
<1>4. PagesFollow'
  BY <1>0 DEF Transfers!CheckConfirmation, TransferInv, TransferTypes, TransferRow,
     PagesFollow, PageFollows
<1>5. NoncesDiffer'
  BY <1>0 DEF Transfers!CheckConfirmation, TransferInv, NoncesDiffer
<1> QED BY <1>1, <1>2, <1>3, <1>4, <1>5 DEF TransferInv

\* Send keeps the transfers' invariant.
LEMMA SendKeepsTransfers ==
  ASSUME TransferInv, NEW p \in Tab, NEW t \in Transfer, NEW v \in Variant, Transfers!Send(p, t, v)
  PROVE  TransferInv'
<1>0. pages' \in [Tab -> PageRow] /\ \A q \in Tab : q # p => pages'[q] = pages[q]
  <2>1. pages'[p] \in PageRow
    BY DEF Transfers!Send, Transfers!Idle, TransferInv, TransferTypes, PageRow, PageStage,
       Transfers!TransferState
  <2> QED BY <2>1 DEF TransferInv, TransferTypes, Transfers!Send
<1>1. TransferTypes'
  BY <1>0 DEF Transfers!Send, TransferInv, TransferTypes
<1>2. NetworkFollows'
  BY <1>0 DEF Transfers!Send, TransferInv, NetworkFollows
<1>3. SavedFollows'
  BY <1>0 DEF Transfers!Send, TransferInv, SavedFollows, TransferFollows
<1>4. PagesFollow'
  <2>1. transfer[t].state # "NONE"
    BY DEF Transfers!Send
  <2>2. CASE cached[t] # 0
    <3>1. cached[t] \in Variant /\ transfer[t].variant = cached[t]
      BY <2>2 DEF TransferInv, TransferTypes, SavedFollows, TransferFollows
    <3>2. pages'[p].at = "RECONCILE" /\ pages'[p].of = t /\ pages'[p].variant = cached[t]
      BY <2>2 DEF Transfers!Send, TransferInv, TransferTypes
    <3>3. PageFollows(p)'
      <4>1. UNCHANGED <<transfer, mined>>
        BY DEF Transfers!Send
      <4> QED BY <2>1, <3>1, <3>2, <4>1 DEF PageFollows
    <3> QED BY <1>0, <3>3 DEF Transfers!Send, TransferInv, PagesFollow, PageFollows
  <2>3. CASE cached[t] = 0
    <3>1. pages'[p].at = "SIGNED" /\ pages'[p].of = t /\ pages'[p].variant = v
      BY <2>3 DEF Transfers!Send, TransferInv, TransferTypes
    <3>2. PageFollows(p)'
      <4>1. UNCHANGED <<transfer, mined>>
        BY DEF Transfers!Send
      <4> QED BY <2>1, <3>1, <4>1 DEF PageFollows
    <3> QED BY <1>0, <3>2 DEF Transfers!Send, TransferInv, PagesFollow, PageFollows
  <2> QED BY <2>2, <2>3
<1>5. NoncesDiffer'
  BY <1>0 DEF Transfers!Send, TransferInv, NoncesDiffer
<1> QED BY <1>1, <1>2, <1>3, <1>4, <1>5 DEF TransferInv

\* Store keeps the transfers' invariant.
LEMMA StoreKeepsTransfers ==
  ASSUME TransferInv, NEW p \in Tab, Transfers!Store(p)
  PROVE  TransferInv'
<1>0. /\ pages' \in [Tab -> PageRow]
      /\ pages'[p].at = "RECONCILE" /\ pages'[p].of = pages[p].of
      /\ pages'[p].variant = pages[p].variant /\ pages'[p].seen = pages[p].seen
      /\ \A q \in Tab : q # p => pages'[q] = pages[q]
  BY PageMoves DEF Transfers!Store, TransferInv, TransferTypes, PageStage
<1>7. PageFollows(p) /\ pages[p].at = "STORE"
  BY DEF Transfers!Store, TransferInv, PagesFollow
<1>8. /\ cached' \in [Transfer -> Variant \cup {0}] /\ cached'[pages[p].of] = pages[p].variant
      /\ \A t \in Transfer : t # pages[p].of => cached'[t] = cached[t]
  BY <1>7 DEF Transfers!Store, TransferInv, TransferTypes, PageFollows
<1>1. TransferTypes'
  BY <1>0, <1>8 DEF Transfers!Store, TransferInv, TransferTypes
<1>2. NetworkFollows'
  BY <1>0 DEF Transfers!Store, TransferInv, NetworkFollows
<1>3. SavedFollows'
  BY <1>7, <1>8 DEF Transfers!Store, TransferInv, SavedFollows, TransferFollows, PageFollows
<1>4. PagesFollow'
  BY <1>0 DEF Transfers!Store, TransferInv, PagesFollow, PageFollows
<1>5. NoncesDiffer'
  BY <1>0 DEF Transfers!Store, TransferInv, NoncesDiffer
<1> QED BY <1>1, <1>2, <1>3, <1>4, <1>5 DEF TransferInv

\* GiveUp keeps the transfers' invariant.
LEMMA GiveUpKeepsTransfers ==
  ASSUME TransferInv, NEW p \in Tab, Transfers!GiveUp(p)
  PROVE  TransferInv'
<1>0. pages' \in [Tab -> PageRow] /\ \A q \in Tab : q # p => pages'[q] = pages[q]
  <2>1. pages'[p] \in PageRow
    BY DEF Transfers!GiveUp, Transfers!Idle, TransferInv, TransferTypes, PageRow, PageStage,
       Transfers!TransferState
  <2> QED BY <2>1 DEF TransferInv, TransferTypes, Transfers!GiveUp
<1>1. TransferTypes'
  BY <1>0 DEF Transfers!GiveUp, TransferInv, TransferTypes
<1>2. NetworkFollows'
  BY <1>0 DEF Transfers!GiveUp, TransferInv, NetworkFollows
<1>3. SavedFollows'
  BY <1>0 DEF Transfers!GiveUp, TransferInv, SavedFollows, TransferFollows
<1>4. PagesFollow'
  BY <1>0 DEF Transfers!GiveUp, Transfers!Idle, TransferInv, PagesFollow, PageFollows
<1>5. NoncesDiffer'
  BY <1>0 DEF Transfers!GiveUp, TransferInv, NoncesDiffer
<1> QED BY <1>1, <1>2, <1>3, <1>4, <1>5 DEF TransferInv

\* RpcMatch keeps the transfers' invariant.
LEMMA RpcMatchKeepsTransfers ==
  ASSUME TransferInv, NEW p \in Tab, Transfers!RpcMatch(p)
  PROVE  TransferInv'
<1>0. /\ pages' \in [Tab -> PageRow]
      /\ pages'[p].at = "MATCHED" /\ pages'[p].of = pages[p].of
      /\ pages'[p].variant = pages[p].variant /\ pages'[p].seen = pages[p].seen
      /\ \A q \in Tab : q # p => pages'[q] = pages[q]
  BY PageMoves DEF Transfers!RpcMatch, TransferInv, TransferTypes, PageStage
<1>1. TransferTypes'
  BY <1>0 DEF Transfers!RpcMatch, TransferInv, TransferTypes
<1>2. NetworkFollows'
  BY <1>0 DEF Transfers!RpcMatch, TransferInv, NetworkFollows
<1>3. SavedFollows'
  BY <1>0 DEF Transfers!RpcMatch, TransferInv, SavedFollows, TransferFollows
<1>4. PagesFollow'
  BY <1>0 DEF Transfers!RpcMatch, TransferInv, PagesFollow, PageFollows
<1>5. NoncesDiffer'
  BY <1>0 DEF Transfers!RpcMatch, TransferInv, NoncesDiffer
<1> QED BY <1>1, <1>2, <1>3, <1>4, <1>5 DEF TransferInv

\* RpcSave keeps the transfers' invariant.
LEMMA RpcSaveKeepsTransfers ==
  ASSUME TransferInv, NEW p \in Tab, Transfers!RpcSave(p)
  PROVE  TransferInv'
<1>0. /\ pages' \in [Tab -> PageRow]
      /\ pages'[p].at = "FORWARD" /\ pages'[p].of = pages[p].of
      /\ pages'[p].variant = pages[p].variant /\ pages'[p].seen = pages[p].seen
      /\ \A q \in Tab : q # p => pages'[q] = pages[q]
  BY PageMoves DEF Transfers!RpcSave, TransferInv, TransferTypes, PageStage
<1>7. PageFollows(p) /\ pages[p].at = "MATCHED" /\ transfer[pages[p].of].variant \in {0, pages[p].variant}
  BY DEF Transfers!RpcSave, Transfers!Matches, TransferInv, PagesFollow
<1>8. PICK state \in {"BROADCAST", "SUBMITTED"} :
        transfer' = [transfer EXCEPT ![pages[p].of] =
                       [transfer[pages[p].of] EXCEPT !.variant = pages[p].variant, !.state = state]]
  BY <1>7 DEF Transfers!RpcSave
<1>9. /\ transfer' \in [Transfer -> TransferRow]
      /\ transfer'[pages[p].of].state = state /\ transfer'[pages[p].of].variant = pages[p].variant
      /\ transfer'[pages[p].of].nonce = transfer[pages[p].of].nonce
      /\ \A t \in Transfer : t # pages[p].of => transfer'[t] = transfer[t]
  <2>1. pages[p].of \in Transfer /\ transfer[pages[p].of] \in TransferRow /\ pages[p].variant \in Variant
    BY <1>7 DEF TransferInv, TransferTypes, PageFollows
  <2>2. [transfer[pages[p].of] EXCEPT !.variant = pages[p].variant, !.state = state] \in TransferRow
    BY <2>1 DEF TransferRow, Transfers!TransferState, Transfers!PendingState
  <2> QED BY <1>8, <2>1, <2>2 DEF TransferInv, TransferTypes
<1>1. TransferTypes'
  BY <1>0, <1>9 DEF Transfers!RpcSave, TransferInv, TransferTypes
<1>2. NetworkFollows'
  BY <1>7, <1>9, Transactions, OperationsAssumption DEF Transfers!RpcSave, TransferInv,
     NetworkFollows
<1>3. SavedFollows'
  <2>1. UNCHANGED <<cached, mined>>
    BY DEF Transfers!RpcSave
  <2>2. ASSUME NEW t \in Transfer, t # pages[p].of PROVE TransferFollows(t)'
    BY <1>9, <2>1, <2>2 DEF TransferInv, SavedFollows, TransferFollows
  <2>3. ASSUME NEW t \in Transfer, t = pages[p].of PROVE TransferFollows(t)'
    BY <1>7, <1>9, <2>1, <2>3 DEF TransferInv, SavedFollows, TransferFollows
  <2> QED BY <2>2, <2>3 DEF SavedFollows
<1>4. PagesFollow'
  BY <1>0, <1>7, <1>9, OperationsAssumption DEF Transfers!RpcSave, TransferInv, PagesFollow,
     PageFollows
<1>5. NoncesDiffer'
  BY <1>7, <1>9 DEF TransferInv, NoncesDiffer, PageFollows
<1> QED BY <1>1, <1>2, <1>3, <1>4, <1>5 DEF TransferInv

\* RpcForward keeps the transfers' invariant.
LEMMA RpcForwardKeepsTransfers ==
  ASSUME TransferInv, NEW p \in Tab, Transfers!RpcForward(p)
  PROVE  TransferInv'
<1>0. /\ pages' \in [Tab -> PageRow]
      /\ pages'[p].at = "ANSWER" /\ pages'[p].of = pages[p].of
      /\ pages'[p].variant = pages[p].variant /\ pages'[p].seen = pages[p].seen
      /\ \A q \in Tab : q # p => pages'[q] = pages[q]
  BY PageMoves DEF Transfers!RpcForward, TransferInv, TransferTypes, PageStage
<1>1. TransferTypes'
  BY <1>0 DEF Transfers!RpcForward, TransferInv, TransferTypes, PagesFollow,
     PageFollows, Transfers!Transaction
<1>2. NetworkFollows'
  BY <1>0 DEF Transfers!RpcForward, TransferInv, NetworkFollows, PagesFollow, PageFollows
<1>3. SavedFollows'
  BY <1>0 DEF Transfers!RpcForward, TransferInv, SavedFollows, TransferFollows
<1>4. PagesFollow'
  BY <1>0 DEF Transfers!RpcForward, TransferInv, PagesFollow, PageFollows
<1>5. NoncesDiffer'
  BY <1>0 DEF Transfers!RpcForward, TransferInv, NoncesDiffer
<1> QED BY <1>1, <1>2, <1>3, <1>4, <1>5 DEF TransferInv

\* RpcAnswer keeps the transfers' invariant.
LEMMA RpcAnswerKeepsTransfers ==
  ASSUME TransferInv, NEW p \in Tab, Transfers!RpcAnswer(p)
  PROVE  TransferInv'
<1>0. /\ pages' \in [Tab -> PageRow]
      /\ pages'[p].at = "STORE" /\ pages'[p].of = pages[p].of
      /\ pages'[p].variant = pages[p].variant /\ pages'[p].seen = pages[p].seen
      /\ \A q \in Tab : q # p => pages'[q] = pages[q]
  BY PageMoves DEF Transfers!RpcAnswer, TransferInv, TransferTypes, PageStage
<1>7. PageFollows(p)
  BY DEF Transfers!RpcAnswer, TransferInv, PagesFollow
<1>8. transfer' \in [Transfer -> TransferRow]
  <2>1. pages[p].of \in Transfer /\ transfer[pages[p].of] \in TransferRow
    BY <1>7 DEF TransferInv, TransferTypes, PageFollows
  <2>2. [transfer[pages[p].of] EXCEPT !.state = "BROADCAST"] \in TransferRow
    BY <2>1 DEF TransferRow, Transfers!TransferState, Transfers!PendingState
  <2> QED BY <2>1, <2>2 DEF Transfers!RpcAnswer, TransferInv, TransferTypes
<1>1. TransferTypes'
  BY <1>0, <1>8 DEF Transfers!RpcAnswer, TransferInv, TransferTypes
<1>2. NetworkFollows'
  BY <1>0 DEF Transfers!RpcAnswer, TransferInv, NetworkFollows
<1>3. SavedFollows'
  BY <1>0 DEF Transfers!RpcAnswer, TransferInv, SavedFollows, TransferFollows
<1>4. PagesFollow'
  BY <1>0 DEF Transfers!RpcAnswer, TransferInv, PagesFollow, PageFollows
<1>5. NoncesDiffer'
  BY <1>0 DEF Transfers!RpcAnswer, TransferInv, NoncesDiffer
<1> QED BY <1>1, <1>2, <1>3, <1>4, <1>5 DEF TransferInv

\* ReadTransaction keeps the transfers' invariant.
LEMMA ReadTransactionKeepsTransfers ==
  ASSUME TransferInv, NEW p \in Tab, Transfers!ReadTransaction(p)
  PROVE  TransferInv'
<1>0. pages' \in [Tab -> PageRow] /\ \A q \in Tab : q # p => pages'[q] = pages[q]
  <2>1. pages[p] \in PageRow
    BY DEF TransferInv, TransferTypes
  <2>2. Transfers!StateOf(<<pages[p].of, pages[p].variant>>) \in Transfers!TransferState
    BY DEF Transfers!StateOf, Transfers!TransferState, Transfers!PendingState
  <2>3. [pages[p] EXCEPT !.at = "RECORD", !.seen = Transfers!StateOf(<<pages[p].of, pages[p].variant>>)] \in PageRow
    BY <2>1, <2>2 DEF PageRow, PageStage
  <2>4. pages' = [pages EXCEPT ![p] = [pages[p] EXCEPT
                    !.at = "RECORD", !.seen = Transfers!StateOf(<<pages[p].of, pages[p].variant>>)]]
    BY <2>1 DEF Transfers!ReadTransaction
  <2> QED BY <2>3, <2>4 DEF TransferInv, TransferTypes
<1>1. TransferTypes'
  BY <1>0 DEF Transfers!ReadTransaction, TransferInv, TransferTypes
<1>2. NetworkFollows'
  BY <1>0 DEF Transfers!ReadTransaction, TransferInv, NetworkFollows
<1>3. SavedFollows'
  BY <1>0 DEF Transfers!ReadTransaction, TransferInv, SavedFollows, TransferFollows
<1>4. PagesFollow'
  BY <1>0, OperationsAssumption, Transactions DEF Transfers!ReadTransaction,
     Transfers!StateOf, TransferInv, TransferTypes, TransferRow, PageRow, PageStage, Mining,
     NetworkFollows, SavedFollows, TransferFollows, PagesFollow, PageFollows, NoncesDiffer,
     Transfers!Transaction, Transfers!TransferState, Transfers!PendingState
<1>5. NoncesDiffer'
  BY <1>0 DEF Transfers!ReadTransaction, TransferInv, NoncesDiffer
<1> QED BY <1>1, <1>2, <1>3, <1>4, <1>5 DEF TransferInv

\* RecordBroadcast keeps the transfers' invariant.
LEMMA RecordBroadcastKeepsTransfers ==
  ASSUME TransferInv, NEW p \in Tab, Transfers!RecordBroadcast(p)
  PROVE  TransferInv'
<1>0. pages' \in [Tab -> PageRow] /\ \A q \in Tab : q # p => pages'[q] = pages[q]
  <2>1. pages'[p] \in PageRow
    BY DEF Transfers!RecordBroadcast, Transfers!Idle, TransferInv, TransferTypes, PageRow,
       PageStage, Transfers!TransferState
  <2> QED BY <2>1 DEF TransferInv, TransferTypes, Transfers!RecordBroadcast
<1>7. /\ PageFollows(p) /\ pages[p].at = "RECORD"
      /\ pages[p].seen \in {"BROADCAST", "CONFIRMED", "FAILED"}
  BY DEF Transfers!RecordBroadcast, TransferInv, PagesFollow, PageFollows
<1>8. transfer' \in [Transfer -> TransferRow] /\ cached' \in [Transfer -> Variant \cup {0}]
  <2>1. pages[p].of \in Transfer /\ transfer[pages[p].of] \in TransferRow /\ pages[p].variant \in Variant
    BY <1>7 DEF TransferInv, TransferTypes, PageFollows
  <2>2. [transfer[pages[p].of] EXCEPT !.variant = pages[p].variant, !.state = pages[p].seen] \in TransferRow
    BY <1>7, <2>1 DEF TransferRow, Transfers!TransferState, Transfers!PendingState
  <2>3. transfer' = [transfer EXCEPT ![pages[p].of] =
                       [transfer[pages[p].of] EXCEPT !.variant = pages[p].variant, !.state = pages[p].seen]]
    BY <2>1 DEF Transfers!RecordBroadcast
  <2> QED BY <2>1, <2>2, <2>3 DEF Transfers!RecordBroadcast, TransferInv, TransferTypes
<1>1. TransferTypes'
  BY <1>0, <1>8 DEF Transfers!RecordBroadcast, TransferInv, TransferTypes
<1>2. NetworkFollows'
  BY <1>0, OperationsAssumption, Transactions DEF Transfers!RecordBroadcast,
     Transfers!Matches, TransferInv, TransferTypes, NetworkFollows
<1>3. SavedFollows'
  BY <1>0 DEF Transfers!RecordBroadcast, TransferInv, TransferTypes, TransferRow,
     SavedFollows, TransferFollows, PagesFollow, PageFollows
<1>4. PagesFollow'
  BY <1>0, OperationsAssumption DEF Transfers!RecordBroadcast, Transfers!Idle,
     Transfers!Matches, TransferInv, TransferTypes, TransferRow, PagesFollow, PageFollows
<1>5. NoncesDiffer'
  BY <1>0 DEF Transfers!RecordBroadcast, TransferInv, TransferTypes, TransferRow,
     NoncesDiffer
<1> QED BY <1>1, <1>2, <1>3, <1>4, <1>5 DEF TransferInv

\* At the beginning there is no transfer, and the pages are idle.
LEMMA TransferInit == Transfers!Init => TransferInv
<1> SUFFICES ASSUME Transfers!Init PROVE TransferInv
  OBVIOUS
<1>1. TransferTypes
  BY DEF Transfers!Init, Transfers!Idle, TransferTypes, TransferRow, PageRow, PageStage, Mining,
     Transfers!TransferState
<1>2. NetworkFollows /\ NoncesDiffer
  BY DEF Transfers!Init, NetworkFollows, NoncesDiffer
<1>3. SavedFollows
  BY DEF Transfers!Init, SavedFollows, TransferFollows
<1>4. PagesFollow
  BY DEF Transfers!Init, Transfers!Idle, PagesFollow
<1> QED BY <1>1, <1>2, <1>3, <1>4 DEF TransferInv

\* Every step of the wallet, its pages and the network keeps the invariant.
LEMMA TransferNext == TransferInv /\ [Transfers!Next]_transferVars => TransferInv'
<1> SUFFICES ASSUME TransferInv, [Transfers!Next]_transferVars PROVE TransferInv'
  OBVIOUS
<1>1. CASE UNCHANGED transferVars
  BY <1>1 DEF transferVars, TransferInv, TransferTypes, NetworkFollows, SavedFollows,
     TransferFollows, PagesFollow, PageFollows, NoncesDiffer
<1>2. CASE Transfers!SendElsewhere
  BY <1>2, SendElsewhereKeepsTransfers
<1>3. ASSUME NEW x \in Transfers!Transaction,
             Transfers!Finalize(x) \/ Transfers!Drop(x)
               \/ \E outcome \in {"PAID", "REVERTED"} : Transfers!Mine(x, outcome)
      PROVE  TransferInv'
  BY <1>3, FinalizeKeepsTransfers, DropKeepsTransfers, MineKeepsTransfers
<1>4. ASSUME NEW t \in Transfer, Transfers!PrepareTransfer(t) PROVE TransferInv'
  BY <1>4, PrepareTransferKeepsTransfers
<1>5. ASSUME NEW p \in Tab, NEW t \in Transfer,
             Transfers!CheckConfirmation(p, t) \/ \E v \in Variant : Transfers!Send(p, t, v)
      PROVE  TransferInv'
  BY <1>5, CheckConfirmationKeepsTransfers, SendKeepsTransfers
<1>6. ASSUME NEW p \in Tab,
             \/ Transfers!Store(p) \/ Transfers!GiveUp(p)
             \/ Transfers!RpcMatch(p) \/ Transfers!RpcSave(p) \/ Transfers!RpcForward(p)
             \/ Transfers!RpcAnswer(p) \/ Transfers!ReadTransaction(p) \/ Transfers!RecordBroadcast(p)
      PROVE  TransferInv'
  BY <1>6, StoreKeepsTransfers, GiveUpKeepsTransfers, RpcMatchKeepsTransfers,
     RpcSaveKeepsTransfers, RpcForwardKeepsTransfers, RpcAnswerKeepsTransfers,
     ReadTransactionKeepsTransfers, RecordBroadcastKeepsTransfers
<1> QED BY <1>1, <1>2, <1>3, <1>4, <1>5, <1>6 DEF Transfers!Next

\* The invariant gives the type invariant.
LEMMA TransferTypesOK == TransferInv => Transfers!TypeOK
BY DEF TransferInv, TransferTypes, TransferRow, PageRow, Transfers!TypeOK

\* The wallet counts as the library does.
LEMMA TransfersCount == \A S : Transfers!Cardinality(S) = Cardinality(S)
BY DEF Transfers!Cardinality, Cardinality

\* And what is promised: one payment for each transfer, whose outcome is final.
LEMMA TransfersSafe == TransferInv => Transfers!TransfersAreSafe
<1> SUFFICES ASSUME TransferInv PROVE Transfers!TransfersAreSafe
  OBVIOUS
<1>1. ASSUME NEW t \in Transfer PROVE Cardinality({v \in Variant : mined[<<t, v>>] # "NO"}) <= 1
  <2> DEFINE S == {v \in Variant : mined[<<t, v>>] # "NO"}
  <2>1. \A v \in S : v = transfer[t].variant
    BY Transactions DEF TransferInv, NetworkFollows
  <2> HIDE DEF S
  <2>2. S = {} => Cardinality(S) <= 1
    BY FS_EmptySet
  <2>3. ASSUME NEW v \in S PROVE Cardinality(S) <= 1
    <3>1. S = {v}
      BY <2>1
    <3>2. Cardinality({v}) = 1
      BY FS_Singleton
    <3> QED BY <3>1, <3>2
  <2>4. Cardinality(S) <= 1
    BY <2>2, <2>3
  <2> QED BY <2>4 DEF S
<1>2. Transfers!PaidOnce
  BY <1>1, TransfersCount DEF TransferInv, NoncesDiffer, Transfers!PaidOnce
<1>3. Transfers!OutcomeIsFinal
  <2>1. ASSUME NEW t \in Transfer, NEW v \in Variant, <<t, v>> \in known PROVE v = transfer[t].variant
    BY <2>1, Transactions DEF TransferInv, NetworkFollows
  <2>2. ASSUME NEW t \in Transfer
        PROVE  /\ transfer[t].state = "CONFIRMED" => mined[<<t, transfer[t].variant>>] = "PAID_FINAL"
               /\ transfer[t].state = "FAILED" => mined[<<t, transfer[t].variant>>] = "REVERTED_FINAL"
    BY DEF TransferInv, SavedFollows, TransferFollows
  <2> QED BY <2>1, <2>2 DEF Transfers!OutcomeIsFinal
<1> QED BY <1>2, <1>3 DEF Transfers!TransfersAreSafe

-----------------------------------------------------------------------------
(* Requests: the argument is that of ApiTransactionsProofs, whose           *)
(* definitions are the part's own.                                          *)

RequestsProofs == INSTANCE ApiTransactionsProofs

RequestInv == RequestsProofs!IInv /\ RequestsProofs!OwnerRemains /\ RequestsProofs!Bounded

\* Both count as the library does.
LEMMA RequestsCount ==
  \A S : /\ Requests!Cardinality(S) = Cardinality(S) /\ RequestsProofs!Cardinality(S) = Cardinality(S)
         /\ RequestsProofs!IsFiniteSet(S) <=> IsFiniteSet(S)
BY DEF Requests!Cardinality, RequestsProofs!Cardinality, Cardinality, RequestsProofs!IsFiniteSet,
   IsFiniteSet

\* Both have the same requests, and say the same of their states.
LEMMA SameRequests ==
  /\ RequestsProofs!Request = Requests!Request
  /\ Requests!Init => RequestsProofs!Init
  /\ \A c \in Connection : Requests!Active(c) <=> RequestsProofs!Active(c)
BY DEF RequestsProofs!Request, Requests!Request, RequestsProofs!Input, Requests!Input,
       RequestsProofs!Init, Requests!Init, RequestsProofs!NoMember, Requests!NoMember,
       RequestsProofs!Free, Requests!Free, RequestsProofs!RecordKey, Requests!RecordKey,
       RequestsProofs!Active, Requests!Active, RequestsProofs!At, Requests!At

\* Both accept the same requests.
LEMMA SameAccepted == \A r : RequestsProofs!Accepted(r) <=> Requests!Accepted(r)
BY RequestsCount
   DEF RequestsProofs!Accepted, Requests!Accepted, RequestsProofs!NoMember, Requests!NoMember,
       RequestsProofs!LastOwner, Requests!LastOwner, RequestsProofs!Owners, Requests!Owners,
       RequestsProofs!IsOwner, Requests!IsOwner

\* Every step of the one is the same step of the other.
LEMMA SameSteps ==
  ASSUME NEW c \in Connection
  PROVE  /\ \A r : Requests!Begin(c, r) => RequestsProofs!Begin(c, r)
         /\ Requests!Authorize(c) => RequestsProofs!Authorize(c)
         /\ Requests!Lookup(c) => RequestsProofs!Lookup(c)
         /\ Requests!Commit(c) => RequestsProofs!Commit(c)
         /\ Requests!Abort(c) => RequestsProofs!Abort(c)
<1> USE DEF RequestsProofs!At, Requests!At, RequestsProofs!Goto, Requests!Goto,
            RequestsProofs!Rollback, Requests!Rollback, RequestsProofs!Free, Requests!Free,
            RequestsProofs!Record, Requests!Record, RequestsProofs!Route, Requests!Route,
            RequestsProofs!LocksRow, Requests!LocksRow, RequestsProofs!Active, Requests!Active
<1>1. \A r : Requests!Begin(c, r) => RequestsProofs!Begin(c, r)
  BY DEF RequestsProofs!Begin, Requests!Begin, RequestsProofs!KeyIsFree, Requests!KeyIsFree
<1>2. Requests!Authorize(c) => RequestsProofs!Authorize(c)
  BY DEF RequestsProofs!Authorize, Requests!Authorize, RequestsProofs!RowIsFree, Requests!RowIsFree,
         RequestsProofs!IsOwner, Requests!IsOwner
<1>3. Requests!Lookup(c) => RequestsProofs!Lookup(c)
  BY SameAccepted DEF RequestsProofs!Lookup, Requests!Lookup
<1>4. Requests!Commit(c) => RequestsProofs!Commit(c)
  BY DEF RequestsProofs!Commit, Requests!Commit, RequestsProofs!Changed, Requests!Changed,
         RequestsProofs!NoMember, Requests!NoMember
<1>5. Requests!Abort(c) => RequestsProofs!Abort(c)
  BY DEF RequestsProofs!Abort, Requests!Abort
<1> QED BY <1>1, <1>2, <1>3, <1>4, <1>5

\* At the beginning some users are owners, and nothing is recorded.
LEMMA RequestInit == Requests!Init => RequestInv
BY SameRequests, RequestsProofs!InitIInv, RequestsProofs!OwnerInit, RequestsProofs!BoundedInit,
   RequestsCount, OperationsAssumption DEF RequestInv

\* Every step of a connection keeps the invariant.
LEMMA RequestNext == RequestInv /\ [Requests!Next]_requestVars => RequestInv'
<1> SUFFICES ASSUME RequestInv, [Requests!Next]_requestVars PROVE RequestInv'
  OBVIOUS
<1>1. [RequestsProofs!Next]_RequestsProofs!vars
  BY SameSteps, SameRequests DEF requestVars, RequestsProofs!vars, Requests!Next,
     RequestsProofs!Next
<1>2. RequestsProofs!IsFiniteSet(User)
  BY RequestsCount, OperationsAssumption
<1> QED BY <1>1, <1>2, RequestsProofs!NextIInv, RequestsProofs!OwnerNext,
           RequestsProofs!BoundedNext, OperationsAssumption DEF RequestInv

\* The invariant gives the type invariant.
LEMMA RequestTypesOK == RequestInv => Requests!TypeOK
<1>1. Requests!TypeOK <=> RequestsProofs!TypeOK
  BY SameRequests
     DEF Requests!TypeOK, RequestsProofs!TypeOK, Requests!Role, RequestsProofs!Role,
         Requests!RecordKey, RequestsProofs!RecordKey
<1> QED BY <1>1, RequestsProofs!TypesSuffice DEF RequestInv

\* And what is promised: a key is executed once, no version is overwritten and
\* an owner remains.
LEMMA RequestsSafe == RequestInv => Requests!RequestsAreSafe
<1> SUFFICES ASSUME RequestInv PROVE Requests!RequestsAreSafe
  OBVIOUS
<1> USE DEF RequestInv, RequestsProofs!IInv, RequestsProofs!Types
<1>1. Requests!ExecutedOnce
  <2>1. RequestsProofs!ExecutedOnce
    BY DEF RequestsProofs!ExecutedOnce, RequestsProofs!Decided
  <2> QED BY <2>1
     DEF Requests!ExecutedOnce, RequestsProofs!ExecutedOnce, Requests!RecordKey,
         RequestsProofs!RecordKey, RequestsProofs!At, Requests!At,
         RequestsProofs!Record, Requests!Record, RequestsProofs!Route, Requests!Route
<1>2. Requests!OwnerRemains
  BY DEF Requests!OwnerRemains, RequestsProofs!OwnerRemains, RequestsProofs!Owners, Requests!Owners,
         RequestsProofs!IsOwner, Requests!IsOwner
<1>3. Requests!NothingIsOverwritten
  BY DEF Requests!NothingIsOverwritten
<1> QED BY <1>1, <1>2, <1>3 DEF Requests!RequestsAreSafe

-----------------------------------------------------------------------------
(* Drafts: a form's saved draft is the one its page would ask for again, and *)
(* every draft was checked as a whole.                                      *)

FormStage == {"IDLE", "KEY", "MANIFEST", "SIGN", "DRAFT", "ERROR"}
FormPage == [at : FormStage, form : 0 .. MaxForms, flow : Drafts!Flow, vault : Vault \cup {0},
             terms : Drafts!Terms \cup {0}, prepared : BOOLEAN, deadline : Nat]
DraftPolicy == [deadline : Nat, settlement : Nat, duration : Nat, reward : Nat]
DraftRow == [form : Drafts!Form, flow : Drafts!Flow, deadline : Nat, policy : DraftPolicy,
             status : {"DRAFT", "APPROVED"}, version : {1, 2}]

DraftTypes ==
  /\ now \in Nat /\ reportKey \in BOOLEAN
  /\ manifest \in [Drafts!Form -> {"NONE", "PREPARED", "SIGNED"}]
  /\ page \in FormPage /\ draft \subseteq DraftRow /\ conflict \in BOOLEAN

\* An input is saved for a form that was begun.
SavedIsUsed ==
  \A s \in saved :
    s.form \in 1 .. page.form /\ s = [form |-> s.form, step |-> s.step, body |-> s.body]

\* What the form is about to send is what it sent before.
Resent == [terms |-> page.terms, deadline |-> page.deadline]

FormRemembers ==
  page.at # "IDLE" =>
    /\ page.form \in Drafts!Form /\ page.terms \in Drafts!Terms
    /\ page.at = "SIGN" \/ (page.at = "DRAFT" /\ page.flow = "COVERAGE") => page.prepared
    /\ \A s \in saved : s.form = page.form /\ s.step = "draft" /\ page.flow = "COVERAGE" =>
         page.prepared /\ s.body = Resent

DraftIsSaved == \A d \in draft : \E s \in saved : s.form = d.form /\ s.step = "draft"

DraftIsValid(d) == d.policy.deadline = d.deadline /\ Drafts!ValidPolicy(d.policy)

DraftsAreValid == \A d \in draft : DraftIsValid(d)

DraftInv ==
  /\ DraftTypes /\ SavedIsUsed /\ FormRemembers /\ DraftIsSaved /\ DraftsAreValid
  /\ Drafts!OneDraftPerForm

\* A form that ends, and one that begins.
LEMMA FormEnds ==
  ASSUME NEW form \in 0 .. MaxForms
  PROVE  [Drafts!NoPage EXCEPT !.form = form] \in FormPage
BY DEF FormPage, FormStage, Drafts!NoPage, Drafts!Flow

\* Tick keeps the drafts' invariant.
LEMMA TickKeepsDrafts ==
  ASSUME DraftInv, Drafts!Tick
  PROVE  DraftInv'
<1>1. DraftTypes'
  BY DEF Drafts!Tick, DraftInv, DraftTypes, DraftRow
<1>2. SavedIsUsed'
  BY DEF Drafts!Tick, DraftInv, SavedIsUsed
<1>3. FormRemembers'
  BY DEF Drafts!Tick, DraftInv, FormRemembers, Resent
<1>4. DraftIsSaved'
  BY DEF Drafts!Tick, DraftInv, DraftIsSaved
<1>5. DraftsAreValid'
  BY DEF Drafts!Tick, DraftInv, DraftsAreValid
<1>6. Drafts!OneDraftPerForm'
  BY DEF Drafts!Tick, DraftInv, Drafts!OneDraftPerForm
<1> QED BY <1>1, <1>2, <1>3, <1>4, <1>5, <1>6 DEF DraftInv

\* Fail keeps the drafts' invariant.
LEMMA FailKeepsDrafts ==
  ASSUME DraftInv, Drafts!Fail
  PROVE  DraftInv'
<1>1. DraftTypes'
  BY DEF Drafts!Fail, DraftInv, DraftTypes, FormPage, FormStage
<1>2. SavedIsUsed'
  BY DEF Drafts!Fail, DraftInv, SavedIsUsed
<1>3. FormRemembers'
  BY DEF Drafts!Fail, DraftInv, FormRemembers, Resent
<1>4. DraftIsSaved'
  BY DEF Drafts!Fail, DraftInv, DraftIsSaved
<1>5. DraftsAreValid'
  BY DEF Drafts!Fail, DraftInv, DraftsAreValid
<1>6. Drafts!OneDraftPerForm'
  BY DEF Drafts!Fail, DraftInv, Drafts!OneDraftPerForm
<1> QED BY <1>1, <1>2, <1>3, <1>4, <1>5, <1>6 DEF DraftInv

\* PrepareManifest keeps the drafts' invariant.
LEMMA PrepareManifestKeepsDrafts ==
  ASSUME DraftInv, Drafts!PrepareManifest
  PROVE  DraftInv'
<1> DEFINE next == [page EXCEPT !.at = "SIGN", !.prepared = TRUE]
           error == [page EXCEPT !.at = "ERROR"]
<1>0. page \in FormPage /\ page.at = "MANIFEST" /\ (page' = next \/ page' = error)
  BY DEF Drafts!PrepareManifest, Drafts!Answer, Drafts!Refuse, DraftInv, DraftTypes
<1>7. /\ page' \in FormPage /\ page'.at \in {"SIGN", "ERROR"}
      /\ page'.form = page.form /\ page'.flow = page.flow /\ page'.terms = page.terms
      /\ page'.deadline = page.deadline
      /\ page'.at = "SIGN" => page'.prepared
      /\ page.prepared => page'.prepared
  <2>1. next \in FormPage /\ error \in FormPage
    BY <1>0 DEF FormPage, FormStage
  <2> QED BY <1>0, <2>1 DEF FormPage
<1>8. saved' = saved \/ saved' = saved \cup {Drafts!Input("manifest", page.vault)}
  BY DEF Drafts!PrepareManifest, Drafts!Refuse, Drafts!Save
<1>9. UNCHANGED <<now, reportKey, draft>> /\ ~conflict' /\ conflict' \in BOOLEAN
  <2>1. UNCHANGED <<now, reportKey, draft>> /\ (UNCHANGED conflict \/ (~page.prepared /\ Drafts!Refuse))
    BY DEF Drafts!PrepareManifest, Drafts!Refuse
  <2>2. ~page.prepared /\ Drafts!Refuse => ~conflict' /\ conflict' \in BOOLEAN
    BY DEF Drafts!Refuse, DraftInv, Drafts!OneDraftPerForm
  <2> QED BY <2>1, <2>2 DEF DraftInv, DraftTypes, Drafts!OneDraftPerForm
<1>1. DraftTypes'
  <2>1. page.form \in Drafts!Form
    BY <1>0 DEF DraftInv, FormRemembers
  <2>2. manifest' \in [Drafts!Form -> {"NONE", "PREPARED", "SIGNED"}]
    BY <2>1 DEF Drafts!PrepareManifest, Drafts!Refuse, DraftInv, DraftTypes
  <2> QED BY <1>7, <1>9, <2>2 DEF DraftInv, DraftTypes
<1>2. SavedIsUsed'
  BY <1>0, <1>7, <1>8 DEF DraftInv, SavedIsUsed, FormRemembers, Drafts!Input, Drafts!Form
<1>3. FormRemembers'
  BY <1>0, <1>7, <1>8 DEF DraftInv, FormRemembers, Resent, Drafts!Input
<1>4. DraftIsSaved'
  BY <1>8, <1>9 DEF DraftInv, DraftIsSaved
<1>5. DraftsAreValid'
  BY <1>9 DEF DraftInv, DraftsAreValid
<1>6. Drafts!OneDraftPerForm'
  BY <1>9 DEF DraftInv, Drafts!OneDraftPerForm
<1> QED BY <1>1, <1>2, <1>3, <1>4, <1>5, <1>6 DEF DraftInv

\* SignManifest keeps the drafts' invariant.
LEMMA SignManifestKeepsDrafts ==
  ASSUME DraftInv, Drafts!SignManifest
  PROVE  DraftInv'
<1>0. page' \in FormPage /\ page.form \in Drafts!Form
  <2>1. page' = [page EXCEPT !.at = "DRAFT"] \/ page' = [page EXCEPT !.at = "ERROR"]
    BY DEF Drafts!SignManifest, Drafts!Answer
  <2>2. page \in FormPage
    BY DEF DraftInv, DraftTypes
  <2>3. page.form \in Drafts!Form
    BY DEF Drafts!SignManifest, DraftInv, FormRemembers
  <2>4. [page EXCEPT !.at = "DRAFT"] \in FormPage /\ [page EXCEPT !.at = "ERROR"] \in FormPage
    BY <2>2 DEF FormPage, FormStage
  <2> QED BY <2>1, <2>3, <2>4
<1>1. DraftTypes'
  BY <1>0 DEF Drafts!SignManifest, DraftInv, DraftTypes
<1>2. SavedIsUsed'
  BY DEF Drafts!SignManifest, Drafts!Input, Drafts!Save, Drafts!Answer, DraftInv,
     SavedIsUsed, DraftTypes, FormPage, FormRemembers, Drafts!Form
<1>3. FormRemembers'
  BY DEF Drafts!SignManifest, Drafts!Input, Drafts!Save, Drafts!Answer, DraftInv,
     FormRemembers, DraftTypes, FormPage, Resent
<1>4. DraftIsSaved'
  BY DEF Drafts!SignManifest, Drafts!Save, DraftInv, DraftIsSaved
<1>5. DraftsAreValid'
  BY DEF Drafts!SignManifest, DraftInv, DraftsAreValid
<1>6. Drafts!OneDraftPerForm'
  BY DEF Drafts!SignManifest, DraftInv, Drafts!OneDraftPerForm
<1> QED BY <1>1, <1>2, <1>3, <1>4, <1>5, <1>6 DEF DraftInv

\* CreateDraft keeps the drafts' invariant.
LEMMA CreateDraftKeepsDrafts ==
  ASSUME DraftInv, Drafts!CreateDraft
  PROVE  DraftInv'
<1>0. page \in FormPage /\ page.at = "DRAFT" /\ page.form \in Drafts!Form /\ page.terms \in Drafts!Terms
  BY DEF Drafts!CreateDraft, DraftInv, DraftTypes, FormRemembers
<1>7. page' \in FormPage
  <2>1. page' = [page EXCEPT !.at = "ERROR"] \/ page' = [Drafts!NoPage EXCEPT !.form = page.form]
    BY DEF Drafts!CreateDraft, Drafts!Answer, Drafts!Refuse
  <2>2. page.form \in 0 .. MaxForms
    BY <1>0 DEF FormPage
  <2>3. [page EXCEPT !.at = "ERROR"] \in FormPage
    BY <1>0 DEF FormPage, FormStage
  <2> QED BY <2>1, <2>2, <2>3, FormEnds
<1> DEFINE policy == Drafts!PolicyOf(page.terms, page.deadline)
           new == [form |-> page.form, flow |-> page.flow, deadline |-> page.deadline,
                   policy |-> policy, status |-> "DRAFT", version |-> 1]
<1>8. draft' = draft \/ (draft' = draft \cup {new} /\ ~Drafts!IsSaved("draft"))
  BY DEF Drafts!CreateDraft, Drafts!Refuse
<1>9. new \in DraftRow
  <2>1. page.terms \in [duration : Nat, grace : Nat, reward : Nat] /\ page.deadline \in Nat
    BY <1>0, OperationsAssumption DEF Drafts!Terms, FormPage
  <2>2. policy \in DraftPolicy
    BY <2>1 DEF DraftPolicy, Drafts!PolicyOf
  <2> QED BY <1>0, <2>1, <2>2 DEF DraftRow, FormPage
<1>1. DraftTypes'
  BY <1>7, <1>8, <1>9 DEF Drafts!CreateDraft, Drafts!Refuse, DraftInv, DraftTypes
<1>2. SavedIsUsed'
  BY DEF Drafts!CreateDraft, Drafts!Input, Drafts!Refuse, Drafts!Save, Drafts!Answer,
     Drafts!NoPage, DraftInv, SavedIsUsed, DraftTypes, FormPage, FormRemembers, Drafts!Form
<1>3. FormRemembers'
  BY DEF Drafts!CreateDraft, Drafts!Input, Drafts!Refuse, Drafts!Save, Drafts!Answer,
     Drafts!NoPage, DraftInv, FormRemembers, DraftTypes, FormPage, Resent
<1>4. DraftIsSaved'
  BY DEF Drafts!CreateDraft, Drafts!Replayed, Drafts!Input, Drafts!Refuse, Drafts!Save,
     DraftInv, DraftIsSaved
<1>5. DraftsAreValid'
  BY DEF Drafts!CreateDraft, Drafts!Refuse, Drafts!PolicyOf, Drafts!ValidTerms, DraftInv,
     DraftsAreValid, DraftIsValid
<1>6. Drafts!OneDraftPerForm'
  <2>1. \A d \in draft : ~Drafts!IsSaved("draft") => d.form # page.form
    BY DEF DraftInv, DraftIsSaved, Drafts!IsSaved
  <2>2. \A d, e \in draft' : d.form = e.form => d = e
    BY <1>8, <2>1 DEF DraftInv, Drafts!OneDraftPerForm
  <2>3. ASSUME page.flow = "COVERAGE" PROVE ~Drafts!Refused("draft", Resent)
    <3>1. \A s \in saved : s.form = page.form /\ s.step = "draft" => s.body = Resent
      BY <1>0, <2>3 DEF DraftInv, FormRemembers
    <3>2. \A s \in saved : s = [form |-> s.form, step |-> s.step, body |-> s.body]
      BY DEF DraftInv, SavedIsUsed
    <3> QED BY <3>1, <3>2 DEF Drafts!Refused, Drafts!IsSaved, Drafts!Replayed, Drafts!Input
  <2>4. ~conflict'
    BY <2>3 DEF Drafts!CreateDraft, Drafts!Refuse, Resent, DraftInv, Drafts!OneDraftPerForm
  <2> QED BY <2>2, <2>4 DEF Drafts!OneDraftPerForm
<1> QED BY <1>1, <1>2, <1>3, <1>4, <1>5, <1>6 DEF DraftInv

\* Reload keeps the drafts' invariant.
LEMMA ReloadKeepsDrafts ==
  ASSUME DraftInv, Drafts!Reload
  PROVE  DraftInv'
<1>0. page' \in FormPage
  BY FormEnds DEF Drafts!Reload, DraftInv, DraftTypes, FormPage
<1>1. DraftTypes'
  BY <1>0 DEF Drafts!Reload, DraftInv, DraftTypes
<1>2. SavedIsUsed'
  BY DEF Drafts!Reload, DraftInv, SavedIsUsed
<1>3. FormRemembers'
  BY DEF Drafts!Reload, Drafts!NoPage, FormRemembers
<1>4. DraftIsSaved'
  BY DEF Drafts!Reload, DraftInv, DraftIsSaved
<1>5. DraftsAreValid'
  BY DEF Drafts!Reload, DraftInv, DraftsAreValid
<1>6. Drafts!OneDraftPerForm'
  BY DEF Drafts!Reload, DraftInv, Drafts!OneDraftPerForm
<1> QED BY <1>1, <1>2, <1>3, <1>4, <1>5, <1>6 DEF DraftInv

\* Begin keeps the drafts' invariant.
LEMMA BeginKeepsDrafts ==
  ASSUME DraftInv, NEW flow \in Drafts!Flow, NEW vault \in Vault, NEW terms \in Drafts!Terms, Drafts!Begin(flow, vault, terms)
  PROVE  DraftInv'
<1>0. page' \in FormPage
  <2>1. page.form + 1 \in 0 .. MaxForms
    BY OperationsAssumption DEF Drafts!Begin, DraftInv, DraftTypes, FormPage
  <2> QED BY <2>1 DEF Drafts!Begin, FormPage, FormStage, Drafts!NoPage
<1>1. DraftTypes'
  BY <1>0 DEF Drafts!Begin, DraftInv, DraftTypes
<1>2. SavedIsUsed'
  BY DEF Drafts!Begin, DraftInv, SavedIsUsed, DraftTypes, FormPage
<1>3. FormRemembers'
  BY OperationsAssumption DEF Drafts!Begin, DraftInv, FormRemembers, DraftTypes,
     FormPage, SavedIsUsed, Drafts!Form
<1>4. DraftIsSaved'
  BY DEF Drafts!Begin, DraftInv, DraftIsSaved
<1>5. DraftsAreValid'
  BY DEF Drafts!Begin, DraftInv, DraftsAreValid
<1>6. Drafts!OneDraftPerForm'
  BY DEF Drafts!Begin, DraftInv, Drafts!OneDraftPerForm
<1> QED BY <1>1, <1>2, <1>3, <1>4, <1>5, <1>6 DEF DraftInv

\* Again keeps the drafts' invariant.
LEMMA AgainKeepsDrafts ==
  ASSUME DraftInv, NEW vault \in Vault, Drafts!Again(vault)
  PROVE  DraftInv'
<1>0. page' \in FormPage
  <2>1. page \in FormPage /\ page' = [page EXCEPT !.at = "KEY", !.vault = vault]
    BY DEF Drafts!Again, DraftInv, DraftTypes
  <2> QED BY <2>1 DEF FormPage, FormStage
<1>1. DraftTypes'
  BY <1>0 DEF Drafts!Again, DraftInv, DraftTypes
<1>2. SavedIsUsed'
  BY DEF Drafts!Again, DraftInv, SavedIsUsed
<1>3. FormRemembers'
  BY DEF Drafts!Again, DraftInv, FormRemembers, Resent
<1>4. DraftIsSaved'
  BY DEF Drafts!Again, DraftInv, DraftIsSaved
<1>5. DraftsAreValid'
  BY DEF Drafts!Again, DraftInv, DraftsAreValid
<1>6. Drafts!OneDraftPerForm'
  BY DEF Drafts!Again, DraftInv, Drafts!OneDraftPerForm
<1> QED BY <1>1, <1>2, <1>3, <1>4, <1>5, <1>6 DEF DraftInv

\* ReportKey keeps the drafts' invariant.
LEMMA ReportKeyKeepsDrafts ==
  ASSUME DraftInv, NEW window \in Window, Drafts!ReportKey(window)
  PROVE  DraftInv'
<1>0. page' \in FormPage
  <2> DEFINE deadline == IF Drafts!KeepDeadline THEN page.deadline ELSE now + window
             at == IF page.flow = "COVERAGE" THEN "MANIFEST" ELSE "DRAFT"
  <2>1. page \in FormPage /\ deadline \in Nat /\ at \in FormStage
    BY OperationsAssumption DEF DraftInv, DraftTypes, FormPage, FormStage
  <2>2. page' = [page EXCEPT !.at = at, !.deadline = deadline]
    BY DEF Drafts!ReportKey, Drafts!SetDeadline
  <2> HIDE DEF deadline, at
  <2> QED BY <2>1, <2>2 DEF FormPage
<1>1. DraftTypes'
  BY <1>0 DEF Drafts!ReportKey, DraftInv, DraftTypes
<1>2. SavedIsUsed'
  BY DEF Drafts!ReportKey, Drafts!SetDeadline, DraftInv, SavedIsUsed
<1>3. FormRemembers'
  BY DEF Drafts!ReportKey, Drafts!SetDeadline, Drafts!KeepDeadline, DraftInv,
     FormRemembers, Resent
<1>4. DraftIsSaved'
  BY DEF Drafts!ReportKey, DraftInv, DraftIsSaved
<1>5. DraftsAreValid'
  BY DEF Drafts!ReportKey, DraftInv, DraftsAreValid
<1>6. Drafts!OneDraftPerForm'
  BY DEF Drafts!ReportKey, DraftInv, Drafts!OneDraftPerForm
<1> QED BY <1>1, <1>2, <1>3, <1>4, <1>5, <1>6 DEF DraftInv

\* ApproveDraft keeps the drafts' invariant.
LEMMA ApproveDraftKeepsDrafts ==
  ASSUME DraftInv, NEW d \in draft, Drafts!ApproveDraft(d)
  PROVE  DraftInv'
<1> DEFINE new == [d EXCEPT !.status = "APPROVED", !.version = 2]
<1>0. /\ draft' = (draft \ {d}) \cup {new} /\ d \in DraftRow /\ new \in DraftRow
      /\ UNCHANGED <<now, reportKey, page, saved, manifest, conflict>>
      /\ new.form = d.form /\ new.deadline = d.deadline /\ new.policy = d.policy
  <2>1. d \in DraftRow
    BY DEF DraftInv, DraftTypes
  <2> QED BY <2>1 DEF Drafts!ApproveDraft, DraftRow
<1> HIDE DEF new
<1>1. DraftTypes'
  BY <1>0 DEF DraftInv, DraftTypes
<1>2. SavedIsUsed'
  BY <1>0 DEF DraftInv, SavedIsUsed
<1>3. FormRemembers'
  BY <1>0 DEF DraftInv, FormRemembers, Resent
<1>4. DraftIsSaved'
  BY <1>0 DEF DraftInv, DraftIsSaved
<1>5. DraftsAreValid'
  BY <1>0 DEF DraftInv, DraftsAreValid, DraftIsValid
<1>6. Drafts!OneDraftPerForm'
  BY <1>0 DEF DraftInv, Drafts!OneDraftPerForm
<1> QED BY <1>1, <1>2, <1>3, <1>4, <1>5, <1>6 DEF DraftInv

\* At the beginning there is no form and no draft.
LEMMA DraftInit == Drafts!Init => DraftInv
<1> SUFFICES ASSUME Drafts!Init PROVE DraftInv
  OBVIOUS
<1>1. DraftTypes
  <2>1. 0 \in 0 .. MaxForms
    BY OperationsAssumption
  <2>2. Drafts!NoPage \in FormPage
    BY <2>1 DEF Drafts!NoPage, FormPage, FormStage, Drafts!Flow
  <2> QED BY <2>2 DEF Drafts!Init, DraftTypes
<1>2. SavedIsUsed /\ FormRemembers /\ DraftIsSaved /\ DraftsAreValid
  BY DEF Drafts!Init, Drafts!NoPage, SavedIsUsed, FormRemembers, DraftIsSaved, DraftsAreValid
<1>3. Drafts!OneDraftPerForm
  BY DEF Drafts!Init, Drafts!OneDraftPerForm
<1> QED BY <1>1, <1>2, <1>3 DEF DraftInv

\* Every step of the form and of the API keeps the invariant.
LEMMA DraftNext == DraftInv /\ [Drafts!Next]_draftVars => DraftInv'
<1> SUFFICES ASSUME DraftInv, [Drafts!Next]_draftVars PROVE DraftInv'
  OBVIOUS
<1>1. CASE UNCHANGED draftVars
  BY <1>1 DEF draftVars, DraftInv, DraftTypes, SavedIsUsed, FormRemembers, Resent, DraftIsSaved,
     DraftsAreValid, DraftIsValid, Drafts!ValidPolicy, Drafts!OneDraftPerForm
<1>2. CASE \/ Drafts!Tick \/ Drafts!Fail \/ Drafts!PrepareManifest \/ Drafts!SignManifest
           \/ Drafts!CreateDraft \/ Drafts!Reload
  BY <1>2, TickKeepsDrafts, FailKeepsDrafts, PrepareManifestKeepsDrafts, SignManifestKeepsDrafts,
     CreateDraftKeepsDrafts, ReloadKeepsDrafts
<1>3. ASSUME NEW flow \in Drafts!Flow, NEW vault \in Vault, NEW terms \in Drafts!Terms,
             Drafts!Begin(flow, vault, terms)
      PROVE  DraftInv'
  BY <1>3, BeginKeepsDrafts
<1>4. ASSUME NEW vault \in Vault, Drafts!Again(vault) PROVE DraftInv'
  BY <1>4, AgainKeepsDrafts
<1>5. ASSUME NEW window \in Window, Drafts!ReportKey(window) PROVE DraftInv'
  BY <1>5, ReportKeyKeepsDrafts
<1>6. ASSUME NEW d \in draft, Drafts!ApproveDraft(d) PROVE DraftInv'
  BY <1>6, ApproveDraftKeepsDrafts
<1> QED BY <1>1, <1>2, <1>3, <1>4, <1>5, <1>6 DEF Drafts!Next

\* The invariant gives the type invariant.
LEMMA DraftTypesOK == DraftInv => Drafts!TypeOK
BY DEF DraftInv, DraftTypes, FormPage, DraftRow, Drafts!TypeOK

\* And what is promised: a draft that was checked as a whole is one the escrow
\* accepts until its deadline, and a form makes one of them.
LEMMA DraftsSafe == DraftInv => Drafts!DraftsAreSafe
<1> SUFFICES ASSUME DraftInv, NEW d \in draft, now < d.deadline
             PROVE  Drafts!CreateAndFundAccepts(d.policy)
  BY DEF DraftInv, Drafts!DraftsAreSafe, Drafts!ApprovedIsFundable
<1>1. d.policy \in DraftPolicy /\ d.deadline \in Nat /\ now \in Nat
  BY DEF DraftInv, DraftTypes, DraftRow
<1>2. d.policy.deadline = d.deadline /\ Drafts!ValidPolicy(d.policy)
  BY DEF DraftInv, DraftsAreValid, DraftIsValid
<1>3. ASSUME NEW p \in DraftPolicy, Drafts!ValidPolicy(p), now < p.deadline
      PROVE  Drafts!CreateAndFundAccepts(p)
  <2>1. p.deadline \in Nat /\ p.settlement \in Nat /\ p.duration \in Nat /\ p.reward \in Nat
    BY DEF DraftPolicy
  <2>2. p.duration >= 60
    BY <1>3, <2>1 DEF Drafts!ValidPolicy
  <2>5. p.duration <= 1800
    BY <1>3, <2>1 DEF Drafts!ValidPolicy
  <2>3. p.settlement >= p.deadline + p.duration
    BY <1>3, <2>1 DEF Drafts!ValidPolicy
  <2>4. p.deadline > now /\ p.reward # 0
    BY <1>1, <1>3, <2>1 DEF Drafts!ValidPolicy
  <2> QED BY <2>2, <2>3, <2>4, <2>5 DEF Drafts!CreateAndFundAccepts
<1> QED BY <1>1, <1>2, <1>3

-----------------------------------------------------------------------------
(* Treasury setup: what the provider made is remembered or saved as long as  *)
(* anything is missing.                                                     *)

SetupStage == {"IDLE", "POLICY", "SAVE_POLICY", "WALLET", "SAVE_WALLET", "VERIFY", "READY"}
SetupRow == [state : {"NONE", "QUEUED", "PROVISIONING", "VERIFYING", "READY", "NEEDS_RECONCILIATION"},
             policy : WalletId \cup {None}, wallet : WalletId \cup {None}]

SetupTypes ==
  /\ setup \in SetupRow /\ age \in -1 .. 2 /\ runs \in 0 .. MaxRuns
  /\ setupJob \in [at : SetupStage, id : WalletId \cup {None}]
  /\ rules \in [WalletId -> Setup!Rules \cup {"NONE"}]
  /\ under \in [WalletId -> WalletId \cup {None}]
  /\ remembered \in [policy : WalletId \cup {None}, wallet : WalletId \cup {None}]

\* One policy and one wallet are made, and for a day the provider remembers
\* them.
OneIsMade ==
  /\ \A p, q \in WalletId : rules[p] # "NONE" /\ rules[q] # "NONE" => p = q
  /\ \A v, w \in WalletId : under[v] # None /\ under[w] # None => v = w
  /\ age # 2 => \A p \in WalletId : rules[p] # "NONE" => remembered.policy = p
  /\ age # 2 => \A w \in WalletId : under[w] # None => remembered.wallet = w

MadeIsKnown ==
  /\ remembered.policy # None => rules[remembered.policy] # "NONE"
  /\ remembered.wallet # None => under[remembered.wallet] # None
  /\ setup.policy # None => rules[setup.policy] # "NONE"
  /\ setup.wallet # None => under[setup.wallet] # None

\* A run that has something to make began within a day of the first.
RunIsInTime ==
  setupJob.at # "IDLE" =>
    /\ setup.state # "READY" /\ age # -1
    /\ age = 0 \/ (setup.policy # None /\ setup.wallet # None)
    /\ setupJob.at = "SAVE_POLICY" => setupJob.id # None /\ rules[setupJob.id] # "NONE"
    /\ setupJob.at \notin {"POLICY", "SAVE_POLICY"} => setup.policy # None
    /\ setupJob.at = "SAVE_WALLET" => setupJob.id # None /\ under[setupJob.id] # None
    /\ setupJob.at \in {"VERIFY", "READY"} => setup.wallet # None
    /\ setupJob.at = "READY" => under[setup.wallet] = setup.policy /\ rules[setup.policy] = "SIGN"

SetupInv ==
  SetupTypes /\ OneIsMade /\ MadeIsKnown /\ RunIsInTime /\ Setup!ReadyIsControlled

\* RequestSetup keeps the setup's invariant.
LEMMA RequestSetupKeepsSetup ==
  ASSUME SetupInv, Setup!RequestSetup
  PROVE  SetupInv'
<1>1. SetupTypes'
  BY DEF Setup!RequestSetup, Setup!providerVars, SetupInv, SetupTypes, SetupRow
<1>2. OneIsMade'
  BY DEF Setup!RequestSetup, Setup!providerVars, SetupInv, OneIsMade
<1>3. MadeIsKnown'
  BY DEF Setup!RequestSetup, Setup!providerVars, SetupInv, MadeIsKnown
<1>4. RunIsInTime'
  BY DEF Setup!RequestSetup, Setup!providerVars, SetupInv, RunIsInTime
<1>5. Setup!ReadyIsControlled'
  BY DEF Setup!RequestSetup, Setup!ReadyIsControlled
<1> QED BY <1>1, <1>2, <1>3, <1>4, <1>5 DEF SetupInv

\* Dispatch keeps the setup's invariant.
LEMMA DispatchKeepsSetup ==
  ASSUME SetupInv, Setup!Dispatch
  PROVE  SetupInv'
<1>1. SetupTypes'
  BY OperationsAssumption DEF Setup!Dispatch, Setup!providerVars, SetupInv, SetupTypes
<1>2. OneIsMade'
  BY DEF Setup!Dispatch, Setup!providerVars, SetupInv, OneIsMade
<1>3. MadeIsKnown'
  BY DEF Setup!Dispatch, Setup!providerVars, SetupInv, MadeIsKnown
<1>4. RunIsInTime'
  BY DEF Setup!Dispatch, Setup!providerVars, SetupInv, RunIsInTime
<1>5. Setup!ReadyIsControlled'
  BY DEF Setup!Dispatch, Setup!providerVars, SetupInv, Setup!ReadyIsControlled
<1> QED BY <1>1, <1>2, <1>3, <1>4, <1>5 DEF SetupInv

\* BeginRun keeps the setup's invariant.
LEMMA BeginRunKeepsSetup ==
  ASSUME SetupInv, Setup!BeginRun
  PROVE  SetupInv'
<1>1. SetupTypes'
  BY OperationsAssumption DEF Setup!BeginRun, Setup!Goto, Setup!Return, Setup!Idle,
     Setup!providerVars, SetupInv, SetupTypes, SetupStage, SetupRow
<1>2. OneIsMade'
  BY DEF Setup!BeginRun, Setup!providerVars, SetupInv, OneIsMade
<1>3. MadeIsKnown'
  BY DEF Setup!BeginRun, Setup!providerVars, SetupInv, MadeIsKnown, SetupTypes, SetupRow
<1>4. RunIsInTime'
  BY DEF Setup!BeginRun, Setup!Goto, Setup!Return, Setup!Idle, Setup!IsOverdue, SetupInv,
     RunIsInTime, SetupTypes, SetupRow
<1>5. Setup!ReadyIsControlled'
  BY DEF Setup!BeginRun, SetupInv, Setup!ReadyIsControlled, SetupTypes, SetupRow
<1> QED BY <1>1, <1>2, <1>3, <1>4, <1>5 DEF SetupInv

\* CreatePolicy keeps the setup's invariant.
LEMMA CreatePolicyKeepsSetup ==
  ASSUME SetupInv, Setup!CreatePolicy
  PROVE  SetupInv'
<1>1. SetupTypes'
  BY DEF Setup!CreatePolicy, Setup!Goto, Setup!queueVars, Setup!providerVars, Setup!Answer,
     Setup!NewPolicy, SetupInv, SetupTypes, SetupStage, Setup!Rules
<1>2. OneIsMade'
  BY OperationsAssumption DEF Setup!CreatePolicy, Setup!At, Setup!providerVars, Setup!Answer,
     SetupInv, OneIsMade, SetupTypes, RunIsInTime
<1>3. MadeIsKnown'
  BY DEF Setup!CreatePolicy, Setup!providerVars, Setup!Answer, Setup!NewPolicy, SetupInv,
     MadeIsKnown, SetupTypes
<1>4. RunIsInTime'
  BY OperationsAssumption DEF Setup!CreatePolicy, Setup!At, Setup!Goto, Setup!Answer,
     Setup!NewPolicy, SetupInv, RunIsInTime, SetupTypes
<1>5. Setup!ReadyIsControlled'
  BY DEF Setup!CreatePolicy, Setup!At, SetupInv, Setup!ReadyIsControlled, RunIsInTime
<1> QED BY <1>1, <1>2, <1>3, <1>4, <1>5 DEF SetupInv

\* SavePolicy keeps the setup's invariant.
LEMMA SavePolicyKeepsSetup ==
  ASSUME SetupInv, Setup!SavePolicy
  PROVE  SetupInv'
<1>1. SetupTypes'
  BY DEF Setup!SavePolicy, Setup!Goto, Setup!queueVars, Setup!providerVars, SetupInv, SetupTypes,
     SetupStage, SetupRow
<1>2. OneIsMade'
  BY DEF Setup!SavePolicy, Setup!providerVars, SetupInv, OneIsMade
<1>3. MadeIsKnown'
  BY DEF Setup!SavePolicy, Setup!At, Setup!providerVars, SetupInv, MadeIsKnown, RunIsInTime
<1>4. RunIsInTime'
  BY DEF Setup!SavePolicy, Setup!At, Setup!Goto, SetupInv, RunIsInTime
<1>5. Setup!ReadyIsControlled'
  BY DEF Setup!SavePolicy, Setup!At, SetupInv, Setup!ReadyIsControlled, RunIsInTime
<1> QED BY <1>1, <1>2, <1>3, <1>4, <1>5 DEF SetupInv

\* CreateWallet keeps the setup's invariant.
LEMMA CreateWalletKeepsSetup ==
  ASSUME SetupInv, Setup!CreateWallet
  PROVE  SetupInv'
<1>1. SetupTypes'
  BY DEF Setup!CreateWallet, Setup!Goto, Setup!queueVars, Setup!providerVars, Setup!Answer,
     Setup!NewWallet, SetupInv, SetupTypes, SetupStage, SetupRow
<1>2. OneIsMade'
  BY OperationsAssumption DEF Setup!CreateWallet, Setup!At, Setup!providerVars, Setup!Answer,
     SetupInv, OneIsMade, SetupTypes, RunIsInTime
<1>3. MadeIsKnown'
  BY DEF Setup!CreateWallet, Setup!At, Setup!providerVars, Setup!Answer, Setup!NewWallet,
     SetupInv, MadeIsKnown, SetupTypes, RunIsInTime
<1>4. RunIsInTime'
  BY OperationsAssumption DEF Setup!CreateWallet, Setup!At, Setup!Goto, Setup!Answer,
     Setup!NewWallet, SetupInv, RunIsInTime, SetupTypes
<1>5. Setup!ReadyIsControlled'
  BY DEF Setup!CreateWallet, Setup!At, SetupInv, Setup!ReadyIsControlled, RunIsInTime
<1> QED BY <1>1, <1>2, <1>3, <1>4, <1>5 DEF SetupInv

\* SaveWallet keeps the setup's invariant.
LEMMA SaveWalletKeepsSetup ==
  ASSUME SetupInv, Setup!SaveWallet
  PROVE  SetupInv'
<1>1. SetupTypes'
  <2>1. setup \in SetupRow /\ setupJob \in [at : SetupStage, id : WalletId \cup {None}]
    BY DEF SetupInv, SetupTypes
  <2>2. [setup EXCEPT !.wallet = setupJob.id, !.state = "VERIFYING"] \in SetupRow
    BY <2>1 DEF SetupRow
  <2>3. [setupJob EXCEPT !.at = "VERIFY"] \in [at : SetupStage, id : WalletId \cup {None}]
    BY <2>1 DEF SetupStage
  <2> QED BY <2>2, <2>3 DEF Setup!SaveWallet, Setup!Goto, Setup!queueVars, Setup!providerVars,
             SetupInv, SetupTypes
<1>2. OneIsMade'
  BY DEF Setup!SaveWallet, Setup!providerVars, SetupInv, OneIsMade
<1>3. MadeIsKnown'
  BY DEF Setup!SaveWallet, Setup!At, Setup!providerVars, SetupInv, MadeIsKnown, RunIsInTime
<1>4. RunIsInTime'
  BY DEF Setup!SaveWallet, Setup!At, Setup!Goto, SetupInv, RunIsInTime
<1>5. Setup!ReadyIsControlled'
  BY DEF Setup!SaveWallet, Setup!ReadyIsControlled
<1> QED BY <1>1, <1>2, <1>3, <1>4, <1>5 DEF SetupInv

\* Verify keeps the setup's invariant.
LEMMA VerifyKeepsSetup ==
  ASSUME SetupInv, Setup!Verify
  PROVE  SetupInv'
<1>1. SetupTypes'
  BY DEF Setup!Verify, Setup!Goto, Setup!Return, Setup!Idle, Setup!queueVars, SetupInv,
     SetupTypes, SetupStage, Setup!Rules
<1>2. OneIsMade'
  BY OperationsAssumption DEF Setup!Verify, SetupInv, OneIsMade, SetupTypes, MadeIsKnown
<1>3. MadeIsKnown'
  BY DEF Setup!Verify, SetupInv, MadeIsKnown, SetupTypes
<1>4. RunIsInTime'
  BY DEF Setup!Verify, Setup!At, Setup!Goto, Setup!Return, Setup!Idle, Setup!Verified, SetupInv,
     RunIsInTime, SetupTypes, SetupRow
<1>5. Setup!ReadyIsControlled'
  BY DEF Setup!Verify, Setup!Verified, SetupInv, Setup!ReadyIsControlled
<1> QED BY <1>1, <1>2, <1>3, <1>4, <1>5 DEF SetupInv

\* Finish keeps the setup's invariant.
LEMMA FinishKeepsSetup ==
  ASSUME SetupInv, Setup!Finish
  PROVE  SetupInv'
<1>1. SetupTypes'
  BY OperationsAssumption DEF Setup!Finish, Setup!Idle, Setup!Completed, Setup!providerVars,
     SetupInv, SetupTypes, SetupStage, SetupRow
<1>2. OneIsMade'
  BY DEF Setup!Finish, Setup!providerVars, SetupInv, OneIsMade
<1>3. MadeIsKnown'
  BY DEF Setup!Finish, Setup!providerVars, SetupInv, MadeIsKnown
<1>4. RunIsInTime'
  BY DEF Setup!Finish, Setup!Idle, Setup!Completed, RunIsInTime
<1>5. Setup!ReadyIsControlled'
  BY DEF Setup!Finish, Setup!At, Setup!providerVars, SetupInv, Setup!ReadyIsControlled, RunIsInTime
<1> QED BY <1>1, <1>2, <1>3, <1>4, <1>5 DEF SetupInv

\* Fail keeps the setup's invariant.
LEMMA FailKeepsSetup ==
  ASSUME SetupInv, Setup!Fail
  PROVE  SetupInv'
<1>1. SetupTypes'
  BY DEF Setup!Fail, Setup!Return, Setup!Idle, Setup!queueVars, Setup!providerVars, SetupInv,
     SetupTypes, SetupStage
<1>2. OneIsMade'
  BY DEF Setup!Fail, Setup!providerVars, SetupInv, OneIsMade
<1>3. MadeIsKnown'
  BY DEF Setup!Fail, Setup!providerVars, SetupInv, MadeIsKnown
<1>4. RunIsInTime'
  BY DEF Setup!Fail, Setup!Return, Setup!Idle, RunIsInTime
<1>5. Setup!ReadyIsControlled'
  BY DEF Setup!Fail, Setup!providerVars, SetupInv, Setup!ReadyIsControlled
<1> QED BY <1>1, <1>2, <1>3, <1>4, <1>5 DEF SetupInv

\* Elapse keeps the setup's invariant.
LEMMA ElapseKeepsSetup ==
  ASSUME SetupInv, Setup!Elapse
  PROVE  SetupInv'
<1>1. SetupTypes'
  BY DEF Setup!Elapse, Setup!queueVars, SetupInv, SetupTypes
<1>2. OneIsMade'
  BY DEF Setup!Elapse, SetupInv, OneIsMade
<1>3. MadeIsKnown'
  BY DEF Setup!Elapse, SetupInv, MadeIsKnown
<1>4. RunIsInTime'
  BY DEF Setup!Elapse, Setup!At, RunIsInTime
<1>5. Setup!ReadyIsControlled'
  BY DEF Setup!Elapse, SetupInv, Setup!ReadyIsControlled
<1> QED BY <1>1, <1>2, <1>3, <1>4, <1>5 DEF SetupInv

\* ChangeMembership keeps the setup's invariant.
LEMMA ChangeMembershipKeepsSetup ==
  ASSUME SetupInv, Setup!ChangeMembership
  PROVE  SetupInv'
<1>1. SetupTypes'
  BY DEF Setup!ChangeMembership, Setup!queueVars, Setup!providerVars, SetupInv, SetupTypes
<1>2. OneIsMade'
  BY DEF Setup!ChangeMembership, Setup!providerVars, SetupInv, OneIsMade
<1>3. MadeIsKnown'
  BY DEF Setup!ChangeMembership, Setup!providerVars, SetupInv, MadeIsKnown
<1>4. RunIsInTime'
  BY DEF Setup!ChangeMembership, Setup!providerVars, SetupInv, RunIsInTime
<1>5. Setup!ReadyIsControlled'
  BY DEF Setup!ChangeMembership, Setup!providerVars, SetupInv, Setup!ReadyIsControlled
<1> QED BY <1>1, <1>2, <1>3, <1>4, <1>5 DEF SetupInv

\* ReplaceRules keeps the setup's invariant.
LEMMA ReplaceRulesKeepsSetup ==
  ASSUME SetupInv, Setup!ReplaceRules
  PROVE  SetupInv'
<1>1. SetupTypes'
  BY DEF Setup!ReplaceRules, Setup!queueVars, SetupInv, SetupTypes
<1>2. OneIsMade'
  BY DEF Setup!ReplaceRules, SetupInv, OneIsMade
<1>3. MadeIsKnown'
  BY DEF Setup!ReplaceRules, SetupInv, MadeIsKnown, Setup!Rules
<1>4. RunIsInTime'
  BY DEF Setup!ReplaceRules, Setup!At, RunIsInTime
<1>5. Setup!ReadyIsControlled'
  BY DEF Setup!ReplaceRules, Setup!ReadyIsControlled
<1> QED BY <1>1, <1>2, <1>3, <1>4, <1>5 DEF SetupInv

\* At the beginning nothing is made.
LEMMA SetupInit == Setup!Init => SetupInv
BY OperationsAssumption DEF Setup!Init, Setup!NoSetup, Setup!Idle, SetupInv, SetupTypes,
   SetupStage, SetupRow, OneIsMade, MadeIsKnown, RunIsInTime, Setup!ReadyIsControlled

\* Every step of the job, the provider and the environment keeps the invariant.
LEMMA SetupNext == SetupInv /\ [Setup!Next]_setupVars => SetupInv'
<1> SUFFICES ASSUME SetupInv, [Setup!Next]_setupVars PROVE SetupInv'
  OBVIOUS
<1>1. CASE UNCHANGED setupVars
  BY <1>1 DEF setupVars, SetupInv, SetupTypes, OneIsMade, MadeIsKnown, RunIsInTime,
     Setup!ReadyIsControlled
<1>2. CASE Setup!RequestSetup \/ Setup!Dispatch \/ Setup!BeginRun
  BY <1>2, RequestSetupKeepsSetup, DispatchKeepsSetup, BeginRunKeepsSetup
<1>3. CASE Setup!CreatePolicy \/ Setup!SavePolicy \/ Setup!CreateWallet \/ Setup!SaveWallet
  BY <1>3, CreatePolicyKeepsSetup, SavePolicyKeepsSetup, CreateWalletKeepsSetup,
     SaveWalletKeepsSetup
<1>4. CASE Setup!Verify \/ Setup!Finish \/ Setup!Fail
  BY <1>4, VerifyKeepsSetup, FinishKeepsSetup, FailKeepsSetup
<1>5. CASE Setup!Elapse \/ Setup!ChangeMembership \/ Setup!ReplaceRules
  BY <1>5, ElapseKeepsSetup, ChangeMembershipKeepsSetup, ReplaceRulesKeepsSetup
<1> QED BY <1>1, <1>2, <1>3, <1>4, <1>5 DEF Setup!Next

\* The invariant gives the type invariant.
LEMMA SetupTypesOK == SetupInv => Setup!TypeOK
BY DEF SetupInv, SetupTypes, SetupRow, Setup!Age, Setup!TypeOK

\* The setup counts as the library does.
LEMMA SetupCounts == \A S : Setup!Cardinality(S) = Cardinality(S)
BY DEF Setup!Cardinality, Cardinality

\* And what is promised: one policy and one wallet, ready only under control.
LEMMA SetupSafe == SetupInv => Setup!SetupIsSafe
<1> SUFFICES ASSUME SetupInv PROVE Setup!SetupIsSafe
  OBVIOUS
<1>1. ASSUME NEW S, \A p, q \in S : p = q PROVE Cardinality(S) <= 1
  <2>1. CASE S = {}
    BY <2>1, FS_EmptySet
  <2>2. ASSUME NEW p \in S PROVE Cardinality(S) <= 1
    <3>1. S = {p}
      BY <1>1
    <3>2. Cardinality({p}) = 1
      BY FS_Singleton
    <3> QED BY <3>1, <3>2
  <2> QED BY <2>1, <2>2
<1>2. \A p, q \in WalletId \ Setup!NewPolicy : p = q
  BY DEF SetupInv, OneIsMade, Setup!NewPolicy
<1>3. \A v, w \in WalletId \ Setup!NewWallet : v = w
  BY DEF SetupInv, OneIsMade, Setup!NewWallet
<1>4. Setup!MadeOnce
  BY <1>1, <1>2, <1>3, SetupCounts DEF Setup!MadeOnce
<1> QED BY <1>4 DEF SetupInv, Setup!SetupIsSafe

-----------------------------------------------------------------------------
(* Exports: what a run of the job found is still true when it is saved.     *)

ExportJob == [at : {"IDLE", "CHECK", "SAVE"}, attempts : Nat, checked : SUBSET Receipt]

ExportTypes ==
  /\ scope \in {"ORGANIZATION", "RESEARCHER"} /\ wrong \subseteq Receipt
  /\ export \in [state : Export!Over \cup {"NONE", "QUEUED", "RUNNING", "RETRYING"}, attempts : Nat]
  /\ exportJob \in ExportJob
  /\ exporter \in BOOLEAN /\ entitled \in BOOLEAN /\ downloaded \in BOOLEAN
  /\ exportFaults \in Nat

\* Only a run that crashes is not counted against the limit.
AttemptsAreCounted ==
  /\ export.attempts <= MaxAttempts + 1 + exportFaults
  /\ exportJob.at = "IDLE" /\ export.state \notin Export!Over => export.attempts <= MaxAttempts + exportFaults
  /\ exportJob.at # "IDLE" =>
       /\ export.state = "RUNNING" /\ export.attempts = exportJob.attempts + 1
       /\ exportJob.attempts <= MaxAttempts + exportFaults

\* The records compared agree with the chain, and a requester who has the role
\* now had it after the last of them.
ChecksAreTrue ==
  exportJob.at # "IDLE" =>
    /\ exportJob.checked \cap wrong = {}
    /\ exporter => entitled
    /\ exportJob.at = "SAVE" => wrong = {} /\ (entitled \/ scope = "RESEARCHER")

DownloadedIsReady == downloaded => export.state = "READY"

ExportInv ==
  ExportTypes /\ AttemptsAreCounted /\ ChecksAreTrue /\ DownloadedIsReady /\ Export!ExportIsSafe

\* RequestExport keeps the export's invariant.
LEMMA RequestExportKeepsExport ==
  ASSUME ExportInv, Export!RequestExport
  PROVE  ExportInv'
<1>1. ExportTypes'
  BY DEF Export!RequestExport, Export!SetState, ExportInv, ExportTypes
<1>2. AttemptsAreCounted'
  BY DEF Export!RequestExport, Export!SetState, ExportInv, AttemptsAreCounted, Export!Over
<1>3. ChecksAreTrue'
  BY DEF Export!RequestExport, ExportInv, ChecksAreTrue
<1>4. DownloadedIsReady'
  BY DEF Export!RequestExport, ExportInv, DownloadedIsReady
<1>5. Export!ExportIsSafe'
  BY DEF Export!RequestExport, Export!SetState, ExportInv, Export!ExportIsSafe,
     Export!ReadyIsChecked, Export!FailedIsFinal
<1> QED BY <1>1, <1>2, <1>3, <1>4, <1>5 DEF ExportInv

\* Dispatch keeps the export's invariant.
LEMMA DispatchKeepsExport ==
  ASSUME ExportInv, Export!Dispatch
  PROVE  ExportInv'
<1>1. ExportTypes'
  BY DEF Export!Dispatch, ExportInv, ExportTypes
<1>2. AttemptsAreCounted'
  BY DEF Export!Dispatch, ExportInv, AttemptsAreCounted
<1>3. ChecksAreTrue'
  BY DEF Export!Dispatch, ExportInv, ChecksAreTrue
<1>4. DownloadedIsReady'
  BY DEF Export!Dispatch, ExportInv, DownloadedIsReady
<1>5. Export!ExportIsSafe'
  BY DEF Export!Dispatch, ExportInv, Export!ExportIsSafe, Export!ReadyIsChecked,
     Export!FailedIsFinal
<1> QED BY <1>1, <1>2, <1>3, <1>4, <1>5 DEF ExportInv

\* Skip keeps the export's invariant.
LEMMA SkipKeepsExport ==
  ASSUME ExportInv, Export!Skip
  PROVE  ExportInv'
<1>1. ExportTypes'
  BY DEF Export!Skip, ExportInv, ExportTypes
<1>2. AttemptsAreCounted'
  BY DEF Export!Skip, ExportInv, AttemptsAreCounted
<1>3. ChecksAreTrue'
  BY DEF Export!Skip, ExportInv, ChecksAreTrue
<1>4. DownloadedIsReady'
  BY DEF Export!Skip, ExportInv, DownloadedIsReady
<1>5. Export!ExportIsSafe'
  BY DEF Export!Skip, ExportInv, Export!ExportIsSafe, Export!ReadyIsChecked, Export!FailedIsFinal
<1> QED BY <1>1, <1>2, <1>3, <1>4, <1>5 DEF ExportInv

\* BeginRun keeps the export's invariant.
LEMMA BeginRunKeepsExport ==
  ASSUME ExportInv, Export!BeginRun
  PROVE  ExportInv'
<1>1. ExportTypes'
  <2>1. exportJob \in ExportJob /\ export \in [state : Export!Over \cup {"NONE", "QUEUED", "RUNNING", "RETRYING"}, attempts : Nat]
    BY DEF ExportInv, ExportTypes
  <2>2. [at |-> "CHECK", attempts |-> export.attempts, checked |-> {}] \in ExportJob
    BY <2>1 DEF ExportJob
  <2>3. exportJob' \in ExportJob
    BY <2>1, <2>2 DEF Export!BeginRun
  <2>4. export' \in [state : Export!Over \cup {"NONE", "QUEUED", "RUNNING", "RETRYING"}, attempts : Nat]
    BY <2>1 DEF Export!BeginRun, Export!SetState, Export!Over
  <2> QED BY <2>3, <2>4 DEF Export!BeginRun, ExportInv, ExportTypes
<1>2. AttemptsAreCounted'
  BY OperationsAssumption DEF Export!BeginRun, Export!SetState, Export!At, ExportInv,
     AttemptsAreCounted, ExportTypes
<1>3. ChecksAreTrue'
  BY DEF Export!BeginRun, Export!At, ChecksAreTrue
<1>4. DownloadedIsReady'
  BY DEF Export!BeginRun, ExportInv, DownloadedIsReady, ExportTypes
<1>5. Export!ExportIsSafe'
  BY DEF Export!BeginRun, Export!SetState, ExportInv, Export!ExportIsSafe, ExportTypes,
     Export!ReadyIsChecked, Export!FailedIsFinal
<1> QED BY <1>1, <1>2, <1>3, <1>4, <1>5 DEF ExportInv

\* Check keeps the export's invariant.
LEMMA CheckKeepsExport ==
  ASSUME ExportInv, NEW r \in Receipt, Export!Check(r)
  PROVE  ExportInv'
<1>1. ExportTypes'
  <2>1. exportJob \in ExportJob /\ export \in [state : Export!Over \cup {"NONE", "QUEUED", "RUNNING", "RETRYING"}, attempts : Nat]
    BY DEF ExportInv, ExportTypes
  <2>2. exportJob' \in ExportJob
    <3>1. Export!Idle \in ExportJob
      BY DEF Export!Idle, ExportJob
    <3>2. [exportJob EXCEPT !.checked = @ \cup {r}] \in ExportJob
      BY <2>1 DEF ExportJob
    <3> QED BY <3>1, <3>2 DEF Export!Check, Export!Catch, Export!Return
  <2>3. export' \in [state : Export!Over \cup {"NONE", "QUEUED", "RUNNING", "RETRYING"}, attempts : Nat]
    BY <2>1 DEF Export!Check, Export!Catch, Export!SetState, Export!Over
  <2> QED BY <2>2, <2>3 DEF Export!Check, Export!Authorized, ExportInv, ExportTypes
<1>2. AttemptsAreCounted'
  BY OperationsAssumption DEF Export!Check, Export!SetState, Export!At, Export!Return,
     Export!Idle, Export!Catch, ExportInv, AttemptsAreCounted, ExportTypes, ExportJob, Export!Over
<1>3. ChecksAreTrue'
  BY DEF Export!Check, Export!At, Export!Return, Export!Idle, Export!Authorized, Export!Differs,
     Export!Catch, ExportInv, ChecksAreTrue, ExportTypes, ExportJob
<1>4. DownloadedIsReady'
  BY DEF Export!Check, Export!At, ExportInv, DownloadedIsReady, AttemptsAreCounted
<1>5. Export!ExportIsSafe'
  BY OperationsAssumption DEF Export!Check, Export!SetState, Export!At, Export!Differs,
     Export!Catch, ExportInv, Export!ExportIsSafe, ExportTypes, ExportJob, AttemptsAreCounted,
     DownloadedIsReady, Export!ReadyIsChecked, Export!FailedIsFinal
<1> QED BY <1>1, <1>2, <1>3, <1>4, <1>5 DEF ExportInv

\* Recheck keeps the export's invariant.
LEMMA RecheckKeepsExport ==
  ASSUME ExportInv, Export!Recheck
  PROVE  ExportInv'
<1>1. ExportTypes'
  BY DEF Export!Recheck, Export!SetState, Export!Return, Export!Idle, ExportInv, ExportTypes,
     ExportJob, Export!Over
<1>2. AttemptsAreCounted'
  BY DEF Export!Recheck, Export!SetState, Export!At, Export!Return, Export!Idle, ExportInv,
     AttemptsAreCounted, ExportTypes, ExportJob, Export!Over
<1>3. ChecksAreTrue'
  BY DEF Export!Recheck, Export!At, Export!Return, Export!Idle, Export!Authorized,
     Export!StillAuthorized, ExportInv, ChecksAreTrue, ExportTypes
<1>4. DownloadedIsReady'
  BY DEF Export!Recheck, Export!At, ExportInv, DownloadedIsReady, AttemptsAreCounted
<1>5. Export!ExportIsSafe'
  BY DEF Export!Recheck, Export!SetState, ExportInv, Export!ExportIsSafe, ExportTypes,
     Export!ReadyIsChecked, Export!FailedIsFinal
<1> QED BY <1>1, <1>2, <1>3, <1>4, <1>5 DEF ExportInv

\* Save keeps the export's invariant.
LEMMA SaveKeepsExport ==
  ASSUME ExportInv, Export!Save
  PROVE  ExportInv'
<1>1. ExportTypes'
  BY DEF Export!Save, Export!SetState, Export!Return, Export!Idle, ExportInv, ExportTypes,
     ExportJob, Export!Over
<1>2. AttemptsAreCounted'
  BY DEF Export!Save, Export!SetState, Export!Return, Export!Idle, ExportInv, AttemptsAreCounted,
     Export!Over
<1>3. ChecksAreTrue'
  BY DEF Export!Save, Export!Return, Export!Idle, ChecksAreTrue
<1>4. DownloadedIsReady'
  BY DEF Export!Save, Export!SetState, DownloadedIsReady
<1>5. Export!ExportIsSafe'
  BY DEF Export!Save, Export!SetState, Export!At, ExportInv, Export!ExportIsSafe, ChecksAreTrue,
     Export!ReadyIsChecked, Export!FailedIsFinal
<1> QED BY <1>1, <1>2, <1>3, <1>4, <1>5 DEF ExportInv

\* Download keeps the export's invariant.
LEMMA DownloadKeepsExport ==
  ASSUME ExportInv, Export!Download
  PROVE  ExportInv'
<1>1. ExportTypes'
  BY DEF Export!Download, ExportInv, ExportTypes
<1>2. AttemptsAreCounted'
  BY DEF Export!Download, ExportInv, AttemptsAreCounted
<1>3. ChecksAreTrue'
  BY DEF Export!Download, ExportInv, ChecksAreTrue
<1>4. DownloadedIsReady'
  BY DEF Export!Download, DownloadedIsReady
<1>5. Export!ExportIsSafe'
  BY DEF Export!Download, ExportInv, Export!ExportIsSafe, Export!ReadyIsChecked,
     Export!FailedIsFinal
<1> QED BY <1>1, <1>2, <1>3, <1>4, <1>5 DEF ExportInv

\* Crash keeps the export's invariant.
LEMMA CrashKeepsExport ==
  ASSUME ExportInv, Export!Crash
  PROVE  ExportInv'
<1>1. ExportTypes'
  BY DEF Export!Crash, Export!Return, Export!Idle, ExportInv, ExportTypes, ExportJob
<1>2. AttemptsAreCounted'
  BY OperationsAssumption DEF Export!Crash, Export!Return, Export!Idle, ExportInv,
     AttemptsAreCounted, ExportTypes
<1>3. ChecksAreTrue'
  BY DEF Export!Crash, Export!Return, Export!Idle, ChecksAreTrue
<1>4. DownloadedIsReady'
  BY DEF Export!Crash, ExportInv, DownloadedIsReady
<1>5. Export!ExportIsSafe'
  BY DEF Export!Crash, ExportInv, Export!ExportIsSafe, Export!ReadyIsChecked, Export!FailedIsFinal
<1> QED BY <1>1, <1>2, <1>3, <1>4, <1>5 DEF ExportInv

\* Elapse keeps the export's invariant.
LEMMA ElapseKeepsExport ==
  ASSUME ExportInv, Export!Elapse
  PROVE  ExportInv'
<1>1. ExportTypes'
  BY DEF Export!Elapse, ExportInv, ExportTypes
<1>2. AttemptsAreCounted'
  BY DEF Export!Elapse, ExportInv, AttemptsAreCounted
<1>3. ChecksAreTrue'
  BY DEF Export!Elapse, ExportInv, ChecksAreTrue
<1>4. DownloadedIsReady'
  BY DEF Export!Elapse, ExportInv, DownloadedIsReady
<1>5. Export!ExportIsSafe'
  BY DEF Export!Elapse, ExportInv, Export!ExportIsSafe, Export!ReadyIsChecked, Export!FailedIsFinal
<1> QED BY <1>1, <1>2, <1>3, <1>4, <1>5 DEF ExportInv

\* ChangeRole keeps the export's invariant.
LEMMA ChangeRoleKeepsExport ==
  ASSUME ExportInv, Export!ChangeRole
  PROVE  ExportInv'
<1>1. ExportTypes'
  BY DEF Export!ChangeRole, ExportInv, ExportTypes
<1>2. AttemptsAreCounted'
  BY OperationsAssumption DEF Export!ChangeRole, ExportInv, AttemptsAreCounted, ExportTypes,
     ExportJob
<1>3. ChecksAreTrue'
  BY DEF Export!ChangeRole, ExportInv, ChecksAreTrue, AttemptsAreCounted, Export!Over
<1>4. DownloadedIsReady'
  BY DEF Export!ChangeRole, ExportInv, DownloadedIsReady
<1>5. Export!ExportIsSafe'
  BY DEF Export!ChangeRole, ExportInv, Export!ExportIsSafe, Export!ReadyIsChecked,
     Export!FailedIsFinal
<1> QED BY <1>1, <1>2, <1>3, <1>4, <1>5 DEF ExportInv

\* At the beginning nothing is asked for.
LEMMA ExportInit == Export!Init => ExportInv
<1> SUFFICES ASSUME Export!Init PROVE ExportInv
  OBVIOUS
<1>1. ExportTypes
  BY DEF Export!Init, Export!Idle, ExportTypes, ExportJob
<1>2. AttemptsAreCounted
  BY OperationsAssumption DEF Export!Init, Export!Idle, AttemptsAreCounted
<1>3. ChecksAreTrue /\ DownloadedIsReady /\ Export!ExportIsSafe
  BY DEF Export!Init, Export!Idle, ChecksAreTrue, DownloadedIsReady, Export!ExportIsSafe,
     Export!ReadyIsChecked, Export!FailedIsFinal
<1> QED BY <1>1, <1>2, <1>3 DEF ExportInv

\* Every step of the request, the job and the page keeps the invariant.
LEMMA ExportNext == ExportInv /\ [Export!Next]_exportVars => ExportInv'
<1> SUFFICES ASSUME ExportInv, [Export!Next]_exportVars PROVE ExportInv'
  OBVIOUS
<1>1. CASE UNCHANGED exportVars
  BY <1>1 DEF exportVars, ExportInv, ExportTypes, AttemptsAreCounted, ChecksAreTrue,
     DownloadedIsReady, Export!ExportIsSafe, Export!ReadyIsChecked, Export!FailedIsFinal
<1>2. CASE Export!RequestExport \/ Export!Dispatch \/ Export!Skip \/ Export!BeginRun
  BY <1>2, RequestExportKeepsExport, DispatchKeepsExport, SkipKeepsExport, BeginRunKeepsExport
<1>3. ASSUME NEW r \in Receipt, Export!Check(r) PROVE ExportInv'
  BY <1>3, CheckKeepsExport
<1>4. CASE \/ Export!Recheck \/ Export!Save \/ Export!Download \/ Export!Crash \/ Export!Elapse
           \/ Export!ChangeRole
  BY <1>4, RecheckKeepsExport, SaveKeepsExport, DownloadKeepsExport, CrashKeepsExport,
     ElapseKeepsExport, ChangeRoleKeepsExport
<1> QED BY <1>1, <1>2, <1>3, <1>4 DEF Export!Next

\* The invariant gives the type invariant.
LEMMA ExportTypesOK == ExportInv => Export!TypeOK
BY DEF ExportInv, ExportTypes, ExportJob, AttemptsAreCounted, Export!TypeOK

-----------------------------------------------------------------------------
(* Assistant: a run whose answer came too late has an older snapshot.       *)

AssistantStage == {"IDLE", "ASK", "RECHECK", "COMPLETE", "STALE"}
AssistantRow == [state : Assistant!Active \cup {"NONE", "COMPLETE", "STALE", "FAILED", "CANCELLED"},
                 attempts : Nat, snapshot : 0 .. MaxSource]

AssistantTypes ==
  /\ source \in 0 .. MaxSource /\ asking \in [Connection -> {"IDLE", "INSERT"}]
  /\ run \in [Run -> AssistantRow] /\ runJob \in [Run -> AssistantStage]
  /\ runQueue \in [Run -> 0 .. 2]
  /\ recent \subseteq Run /\ outdated \subseteq Run

\* A job works on a run under way, and decides by the snapshot.
RunIsJudged(r) ==
  /\ run[r].snapshot <= source
  /\ r \in outdated => run[r].state # "NONE" /\ run[r].snapshot < source
  /\ runJob[r] # "IDLE" => run[r].state = "RUNNING"
  /\ runJob[r] = "COMPLETE" \/ run[r].state = "COMPLETE" => r \notin outdated

AnswersAreJudged == \A r \in Run : RunIsJudged(r)

\* One request at a time has counted the runs and not yet added its own.
RoomIsKept ==
  /\ \A c, d \in Connection : asking[c] = "INSERT" /\ asking[d] = "INSERT" => c = d
  /\ \A c \in Connection : asking[c] = "INSERT" =>
       Cardinality(recent) < MaxRecent /\ Cardinality(recent \cap Assistant!UnderWay) < MaxActive
  /\ Cardinality(recent) <= MaxRecent /\ Cardinality(recent \cap Assistant!UnderWay) <= MaxActive

AssistantInv == AssistantTypes /\ AnswersAreJudged /\ RoomIsKept

\* The assistant counts as the library does.
LEMMA AssistantCount == \A S : Assistant!Cardinality(S) = Cardinality(S)
BY DEF Assistant!Cardinality, Cardinality

\* There are finitely many runs.
LEMMA RunsAreFinite == \A S \in SUBSET Run : IsFiniteSet(S) /\ Cardinality(S) \in Nat
BY FS_Subset, FS_CardinalityType, OperationsAssumption

\* Runs that end, and hours that pass, only make room.
LEMMA RoomGrows ==
  ASSUME AssistantTypes, AssistantTypes', RoomIsKept, recent' \subseteq recent,
         recent' \cap Assistant!UnderWay' \subseteq recent \cap Assistant!UnderWay,
         \A c \in Connection : asking'[c] = "INSERT" => asking[c] = "INSERT"
  PROVE  RoomIsKept'
<1>0. /\ recent \in SUBSET Run /\ recent' \in SUBSET Run
      /\ recent \cap Assistant!UnderWay \in SUBSET Run /\ recent' \cap Assistant!UnderWay' \in SUBSET Run
  BY DEF AssistantTypes
<1>1. Cardinality(recent') <= Cardinality(recent)
  BY <1>0, RunsAreFinite, FS_Subset
<1>2. Cardinality(recent' \cap Assistant!UnderWay') <= Cardinality(recent \cap Assistant!UnderWay)
  BY <1>0, RunsAreFinite, FS_Subset
<1>3. /\ Cardinality(recent) \in Nat /\ Cardinality(recent') \in Nat
      /\ Cardinality(recent \cap Assistant!UnderWay) \in Nat
      /\ Cardinality(recent' \cap Assistant!UnderWay') \in Nat
  BY <1>0, RunsAreFinite
<1>4. MaxRecent \in Nat /\ MaxActive \in Nat
  BY OperationsAssumption
<1>5. \A c \in Connection : asking'[c] = "INSERT" =>
        Cardinality(recent') < MaxRecent /\ Cardinality(recent' \cap Assistant!UnderWay') < MaxActive
  BY <1>1, <1>2, <1>3, <1>4 DEF RoomIsKept
<1>6. Cardinality(recent') <= MaxRecent /\ Cardinality(recent' \cap Assistant!UnderWay') <= MaxActive
  BY <1>1, <1>2, <1>3, <1>4 DEF RoomIsKept
<1> QED BY <1>5, <1>6 DEF RoomIsKept

\* A request that counted the runs under the lock has room for one.
LEMMA RoomIsTaken ==
  ASSUME AssistantTypes, AssistantTypes', RoomIsKept, NEW c \in Connection, NEW r \in Run,
         asking[c] = "INSERT", recent' = recent \cup {r},
         Assistant!UnderWay' \subseteq Assistant!UnderWay \cup {r},
         \A d \in Connection : asking'[d] = "INSERT" => d # c /\ asking[d] = "INSERT"
  PROVE  RoomIsKept'
<1>0. /\ recent \in SUBSET Run /\ recent' \in SUBSET Run
      /\ recent \cap Assistant!UnderWay \in SUBSET Run /\ recent' \cap Assistant!UnderWay' \in SUBSET Run
  BY DEF AssistantTypes
<1>3. /\ Cardinality(recent) \in Nat /\ Cardinality(recent') \in Nat
      /\ Cardinality(recent \cap Assistant!UnderWay) \in Nat
      /\ Cardinality(recent' \cap Assistant!UnderWay') \in Nat
  BY <1>0, RunsAreFinite
<1>1. Cardinality(recent') <= Cardinality(recent) + 1
  BY <1>0, <1>3, RunsAreFinite, FS_AddElement
<1>2. Cardinality(recent' \cap Assistant!UnderWay') <= Cardinality(recent \cap Assistant!UnderWay) + 1
  <2> DEFINE S == recent \cap Assistant!UnderWay
             T == recent' \cap Assistant!UnderWay'
  <2>1. S \in SUBSET Run /\ S \cup {r} \in SUBSET Run /\ T \in SUBSET Run /\ T \in SUBSET (S \cup {r})
    BY <1>0
  <2> HIDE DEF S, T
  <2>2. IsFiniteSet(S) /\ IsFiniteSet(S \cup {r})
        /\ Cardinality(S) \in Nat /\ Cardinality(S \cup {r}) \in Nat /\ Cardinality(T) \in Nat
    BY <2>1, RunsAreFinite
  <2>3. Cardinality(S \cup {r}) <= Cardinality(S) + 1
    BY <2>2, FS_AddElement
  <2>4. Cardinality(T) <= Cardinality(S \cup {r})
    BY <2>1, <2>2, FS_Subset
  <2>5. Cardinality(T) <= Cardinality(S) + 1
    BY <2>2, <2>3, <2>4
  <2> QED BY <2>5 DEF S, T
<1>4. MaxRecent \in Nat /\ MaxActive \in Nat
  BY OperationsAssumption
<1>5. Cardinality(recent) < MaxRecent /\ Cardinality(recent \cap Assistant!UnderWay) < MaxActive
  BY DEF RoomIsKept
<1>6. Cardinality(recent') <= MaxRecent /\ Cardinality(recent' \cap Assistant!UnderWay') <= MaxActive
  BY <1>1, <1>2, <1>3, <1>4, <1>5
<1>7. \A d \in Connection : asking'[d] # "INSERT"
  BY DEF RoomIsKept
<1> QED BY <1>6, <1>7 DEF RoomIsKept

\* Count keeps the assistant's invariant.
LEMMA CountKeepsAssistant ==
  ASSUME AssistantInv, NEW c \in Connection, Assistant!Count(c)
  PROVE  AssistantInv'
<1>1. AssistantTypes'
  BY DEF Assistant!Count, AssistantInv, AssistantTypes
<1>2. AnswersAreJudged'
  BY DEF Assistant!Count, AssistantInv, AnswersAreJudged, RunIsJudged
<1>3. RoomIsKept'
  <2>1. /\ UNCHANGED <<recent, Assistant!UnderWay>>
        /\ \A d \in Connection : asking'[d] = "INSERT" => d = c
    BY DEF Assistant!Count, Assistant!NobodyAsks, Assistant!UnderWay
  <2>2. Cardinality(recent) < MaxRecent /\ Cardinality(recent \cap Assistant!UnderWay) < MaxActive
    BY AssistantCount DEF Assistant!Count
  <2>3. Cardinality(recent) <= MaxRecent /\ Cardinality(recent \cap Assistant!UnderWay) <= MaxActive
    BY DEF AssistantInv, RoomIsKept
  <2> QED BY <2>1, <2>2, <2>3 DEF RoomIsKept
<1> QED BY <1>1, <1>2, <1>3 DEF AssistantInv

\* Insert keeps the assistant's invariant.
LEMMA InsertKeepsAssistant ==
  ASSUME AssistantInv, NEW c \in Connection, Assistant!Insert(c)
  PROVE  AssistantInv'
<1>1. AssistantTypes'
  BY DEF Assistant!Insert, AssistantInv, AssistantTypes, AssistantRow, Assistant!Active
<1>2. AnswersAreJudged'
  BY DEF Assistant!Insert, Assistant!NoRun, AssistantInv, AnswersAreJudged, AssistantTypes,
     RunIsJudged
<1>3. RoomIsKept'
  <2>1. PICK r \in Run :
          /\ run' = [run EXCEPT ![r] = [state |-> "QUEUED", attempts |-> 0, snapshot |-> source]]
          /\ recent' = recent \cup {r}
    BY DEF Assistant!Insert
  <2>2. Assistant!UnderWay' \subseteq Assistant!UnderWay \cup {r}
    BY <2>1 DEF Assistant!UnderWay
  <2>3. asking[c] = "INSERT" /\ \A d \in Connection : asking'[d] = "INSERT" => d # c /\ asking[d] = "INSERT"
    BY DEF Assistant!Insert, AssistantInv, AssistantTypes
  <2> QED BY <1>1, <2>1, <2>2, <2>3, RoomIsTaken DEF AssistantInv
<1> QED BY <1>1, <1>2, <1>3 DEF AssistantInv

\* Abort keeps the assistant's invariant.
LEMMA AbortKeepsAssistant ==
  ASSUME AssistantInv, NEW c \in Connection, Assistant!Abort(c)
  PROVE  AssistantInv'
<1>1. AssistantTypes'
  BY DEF Assistant!Abort, AssistantInv, AssistantTypes
<1>2. AnswersAreJudged'
  BY DEF Assistant!Abort, AssistantInv, AnswersAreJudged, RunIsJudged
<1>3. RoomIsKept'
  <2>1. /\ recent' \subseteq recent /\ recent' \cap Assistant!UnderWay' \subseteq recent \cap Assistant!UnderWay
        /\ \A e \in Connection : asking'[e] = "INSERT" => asking[e] = "INSERT"
    BY DEF Assistant!Abort, Assistant!UnderWay
  <2> QED BY <1>1, <2>1, RoomGrows DEF AssistantInv
<1> QED BY <1>1, <1>2, <1>3 DEF AssistantInv

\* Dispatch keeps the assistant's invariant.
LEMMA DispatchKeepsAssistant ==
  ASSUME AssistantInv, NEW r \in Run, Assistant!Dispatch(r)
  PROVE  AssistantInv'
<1>1. AssistantTypes'
  BY DEF Assistant!Dispatch, AssistantInv, AssistantTypes
<1>2. AnswersAreJudged'
  BY DEF Assistant!Dispatch, AssistantInv, AnswersAreJudged, RunIsJudged
<1>3. RoomIsKept'
  <2>1. /\ recent' \subseteq recent /\ recent' \cap Assistant!UnderWay' \subseteq recent \cap Assistant!UnderWay
        /\ \A e \in Connection : asking'[e] = "INSERT" => asking[e] = "INSERT"
    BY DEF Assistant!Dispatch, Assistant!UnderWay
  <2> QED BY <1>1, <2>1, RoomGrows DEF AssistantInv
<1> QED BY <1>1, <1>2, <1>3 DEF AssistantInv

\* Begin keeps the assistant's invariant.
LEMMA BeginKeepsAssistant ==
  ASSUME AssistantInv, NEW r \in Run, Assistant!Begin(r)
  PROVE  AssistantInv'
<1>1. AssistantTypes'
  BY OperationsAssumption DEF Assistant!Begin, Assistant!Becomes, Assistant!Goto,
     Assistant!Current, AssistantInv, AssistantTypes, AssistantStage, AssistantRow,
     AnswersAreJudged, RunIsJudged, Assistant!Active
<1>2. AnswersAreJudged'
  BY DEF Assistant!Begin, Assistant!Becomes, AssistantInv, AnswersAreJudged, AssistantTypes,
     AssistantRow, RunIsJudged
<1>3. RoomIsKept'
  <2>1. /\ recent' \subseteq recent /\ recent' \cap Assistant!UnderWay' \subseteq recent \cap Assistant!UnderWay
        /\ \A e \in Connection : asking'[e] = "INSERT" => asking[e] = "INSERT"
    BY DEF Assistant!Begin, Assistant!Becomes, Assistant!UnderWay, AssistantInv, AssistantTypes
  <2> QED BY <1>1, <2>1, RoomGrows DEF AssistantInv
<1> QED BY <1>1, <1>2, <1>3 DEF AssistantInv

\* Collide keeps the assistant's invariant.
LEMMA CollideKeepsAssistant ==
  ASSUME AssistantInv, NEW r \in Run, Assistant!Collide(r)
  PROVE  AssistantInv'
<1>1. AssistantTypes'
  BY DEF Assistant!Collide, AssistantInv, AssistantTypes
<1>2. AnswersAreJudged'
  BY DEF Assistant!Collide, AssistantInv, AnswersAreJudged, RunIsJudged
<1>3. RoomIsKept'
  <2>1. /\ recent' \subseteq recent /\ recent' \cap Assistant!UnderWay' \subseteq recent \cap Assistant!UnderWay
        /\ \A e \in Connection : asking'[e] = "INSERT" => asking[e] = "INSERT"
    BY DEF Assistant!Collide, Assistant!UnderWay
  <2> QED BY <1>1, <2>1, RoomGrows DEF AssistantInv
<1> QED BY <1>1, <1>2, <1>3 DEF AssistantInv

\* Reject keeps the assistant's invariant.
LEMMA RejectKeepsAssistant ==
  ASSUME AssistantInv, NEW r \in Run, Assistant!Reject(r)
  PROVE  AssistantInv'
<1>1. AssistantTypes'
  BY DEF Assistant!Reject, Assistant!Becomes, Assistant!Goto, AssistantInv, AssistantTypes,
     AssistantStage, AssistantRow
<1>2. AnswersAreJudged'
  BY DEF Assistant!Reject, Assistant!Becomes, Assistant!Goto, AssistantInv, AnswersAreJudged,
     AssistantTypes, RunIsJudged
<1>3. RoomIsKept'
  <2>1. /\ recent' \subseteq recent /\ recent' \cap Assistant!UnderWay' \subseteq recent \cap Assistant!UnderWay
        /\ \A e \in Connection : asking'[e] = "INSERT" => asking[e] = "INSERT"
    BY DEF Assistant!Reject, Assistant!Becomes, Assistant!UnderWay, Assistant!Active
  <2> QED BY <1>1, <2>1, RoomGrows DEF AssistantInv
<1> QED BY <1>1, <1>2, <1>3 DEF AssistantInv

\* Answer keeps the assistant's invariant.
LEMMA AnswerKeepsAssistant ==
  ASSUME AssistantInv, NEW r \in Run, Assistant!Answer(r)
  PROVE  AssistantInv'
<1>1. AssistantTypes'
  BY DEF Assistant!Answer, Assistant!Goto, AssistantInv, AssistantTypes, AssistantStage
<1>2. AnswersAreJudged'
  BY DEF Assistant!Answer, Assistant!Goto, Assistant!Current, AssistantInv, AnswersAreJudged,
     AssistantTypes, AssistantRow, RunIsJudged
<1>3. RoomIsKept'
  <2>1. /\ recent' \subseteq recent /\ recent' \cap Assistant!UnderWay' \subseteq recent \cap Assistant!UnderWay
        /\ \A e \in Connection : asking'[e] = "INSERT" => asking[e] = "INSERT"
    BY DEF Assistant!Answer, Assistant!UnderWay
  <2> QED BY <1>1, <2>1, RoomGrows DEF AssistantInv
<1> QED BY <1>1, <1>2, <1>3 DEF AssistantInv

\* Recheck keeps the assistant's invariant.
LEMMA RecheckKeepsAssistant ==
  ASSUME AssistantInv, NEW r \in Run, Assistant!Recheck(r)
  PROVE  AssistantInv'
<1>1. AssistantTypes'
  BY DEF Assistant!Recheck, Assistant!Goto, AssistantInv, AssistantTypes, AssistantStage
<1>2. AnswersAreJudged'
  BY DEF Assistant!Recheck, Assistant!Goto, Assistant!Current, Assistant!StillCurrent,
     AssistantInv, AnswersAreJudged, AssistantTypes, RunIsJudged
<1>3. RoomIsKept'
  <2>1. /\ recent' \subseteq recent /\ recent' \cap Assistant!UnderWay' \subseteq recent \cap Assistant!UnderWay
        /\ \A e \in Connection : asking'[e] = "INSERT" => asking[e] = "INSERT"
    BY DEF Assistant!Recheck, Assistant!UnderWay
  <2> QED BY <1>1, <2>1, RoomGrows DEF AssistantInv
<1> QED BY <1>1, <1>2, <1>3 DEF AssistantInv

\* Save keeps the assistant's invariant.
LEMMA SaveKeepsAssistant ==
  ASSUME AssistantInv, NEW r \in Run, Assistant!Save(r)
  PROVE  AssistantInv'
<1>1. AssistantTypes'
  BY DEF Assistant!Save, Assistant!Becomes, Assistant!Goto, AssistantInv, AssistantTypes,
     AssistantStage, AssistantRow
<1>2. AnswersAreJudged'
  BY DEF Assistant!Save, Assistant!Becomes, Assistant!Goto, AssistantInv, AnswersAreJudged,
     AssistantTypes, RunIsJudged
<1>3. RoomIsKept'
  <2>1. /\ recent' \subseteq recent /\ recent' \cap Assistant!UnderWay' \subseteq recent \cap Assistant!UnderWay
        /\ \A e \in Connection : asking'[e] = "INSERT" => asking[e] = "INSERT"
    BY DEF Assistant!Save, Assistant!Becomes, Assistant!UnderWay, Assistant!Active
  <2> QED BY <1>1, <2>1, RoomGrows DEF AssistantInv
<1> QED BY <1>1, <1>2, <1>3 DEF AssistantInv

\* Crash keeps the assistant's invariant.
LEMMA CrashKeepsAssistant ==
  ASSUME AssistantInv, NEW r \in Run, Assistant!Crash(r)
  PROVE  AssistantInv'
<1>1. AssistantTypes'
  BY DEF Assistant!Crash, Assistant!Goto, AssistantInv, AssistantTypes, AssistantStage
<1>2. AnswersAreJudged'
  BY DEF Assistant!Crash, Assistant!Goto, AssistantInv, AnswersAreJudged, RunIsJudged
<1>3. RoomIsKept'
  <2>1. /\ recent' \subseteq recent /\ recent' \cap Assistant!UnderWay' \subseteq recent \cap Assistant!UnderWay
        /\ \A e \in Connection : asking'[e] = "INSERT" => asking[e] = "INSERT"
    BY DEF Assistant!Crash, Assistant!UnderWay
  <2> QED BY <1>1, <2>1, RoomGrows DEF AssistantInv
<1> QED BY <1>1, <1>2, <1>3 DEF AssistantInv

\* ChangeRecords keeps the assistant's invariant.
LEMMA ChangeRecordsKeepsAssistant ==
  ASSUME AssistantInv, Assistant!ChangeRecords
  PROVE  AssistantInv'
<1>1. AssistantTypes'
  BY OperationsAssumption DEF Assistant!ChangeRecords, AssistantInv, AssistantTypes
<1>2. AnswersAreJudged'
  BY DEF Assistant!ChangeRecords, AssistantInv, AnswersAreJudged, AssistantTypes, AssistantRow,
     RunIsJudged
<1>3. RoomIsKept'
  <2>1. /\ recent' \subseteq recent /\ recent' \cap Assistant!UnderWay' \subseteq recent \cap Assistant!UnderWay
        /\ \A e \in Connection : asking'[e] = "INSERT" => asking[e] = "INSERT"
    BY DEF Assistant!ChangeRecords, Assistant!UnderWay
  <2> QED BY <1>1, <2>1, RoomGrows DEF AssistantInv
<1> QED BY <1>1, <1>2, <1>3 DEF AssistantInv

\* ChangeMembership keeps the assistant's invariant.
LEMMA ChangeMembershipKeepsAssistant ==
  ASSUME AssistantInv, Assistant!ChangeMembership
  PROVE  AssistantInv'
<1>1. AssistantTypes'
  BY DEF Assistant!ChangeMembership, AssistantInv, AssistantTypes
<1>2. AnswersAreJudged'
  BY DEF Assistant!ChangeMembership, AssistantInv, AnswersAreJudged, RunIsJudged
<1>3. RoomIsKept'
  <2>1. /\ recent' \subseteq recent /\ recent' \cap Assistant!UnderWay' \subseteq recent \cap Assistant!UnderWay
        /\ \A e \in Connection : asking'[e] = "INSERT" => asking[e] = "INSERT"
    BY DEF Assistant!ChangeMembership, Assistant!UnderWay
  <2> QED BY <1>1, <2>1, RoomGrows DEF AssistantInv
<1> QED BY <1>1, <1>2, <1>3 DEF AssistantInv

\* HourPasses keeps the assistant's invariant.
LEMMA HourPassesKeepsAssistant ==
  ASSUME AssistantInv, Assistant!HourPasses
  PROVE  AssistantInv'
<1>1. AssistantTypes'
  BY DEF Assistant!HourPasses, AssistantInv, AssistantTypes
<1>2. AnswersAreJudged'
  BY DEF Assistant!HourPasses, AssistantInv, AnswersAreJudged, RunIsJudged
<1>3. RoomIsKept'
  <2>1. /\ recent' \subseteq recent /\ recent' \cap Assistant!UnderWay' \subseteq recent \cap Assistant!UnderWay
        /\ \A e \in Connection : asking'[e] = "INSERT" => asking[e] = "INSERT"
    BY DEF Assistant!HourPasses, Assistant!UnderWay
  <2> QED BY <1>1, <2>1, RoomGrows DEF AssistantInv
<1> QED BY <1>1, <1>2, <1>3 DEF AssistantInv

\* At the beginning there is no run.
LEMMA AssistantInit == Assistant!Init => AssistantInv
<1> SUFFICES ASSUME Assistant!Init PROVE AssistantInv
  OBVIOUS
<1>1. AssistantTypes
  <2>1. 0 \in 0 .. MaxSource
    BY OperationsAssumption
  <2>2. Assistant!NoRun \in AssistantRow
    BY <2>1 DEF Assistant!NoRun, AssistantRow
  <2> QED BY <2>1, <2>2 DEF Assistant!Init, AssistantTypes, AssistantStage
<1>2. AnswersAreJudged
  BY DEF Assistant!Init, Assistant!NoRun, AnswersAreJudged, RunIsJudged
<1>3. RoomIsKept
  <2>1. recent = {} /\ recent \cap Assistant!UnderWay = {} /\ \A c \in Connection : asking[c] = "IDLE"
    BY DEF Assistant!Init
  <2>2. Cardinality({}) <= MaxRecent /\ Cardinality({}) <= MaxActive
    BY FS_EmptySet, OperationsAssumption
  <2> QED BY <2>1, <2>2 DEF RoomIsKept
<1> QED BY <1>1, <1>2, <1>3 DEF AssistantInv

\* Every step of a request, of a job and of the environment keeps the invariant.
LEMMA AssistantNext == AssistantInv /\ [Assistant!Next]_assistantVars => AssistantInv'
<1> SUFFICES ASSUME AssistantInv, [Assistant!Next]_assistantVars PROVE AssistantInv'
  OBVIOUS
<1>1. CASE UNCHANGED assistantVars
  BY <1>1 DEF assistantVars, AssistantInv, AssistantTypes, AnswersAreJudged, RunIsJudged,
     RoomIsKept, Assistant!UnderWay
<1>2. ASSUME NEW c \in Connection, Assistant!Count(c) \/ Assistant!Insert(c) \/ Assistant!Abort(c)
      PROVE  AssistantInv'
  BY <1>2, CountKeepsAssistant, InsertKeepsAssistant, AbortKeepsAssistant
<1>3. ASSUME NEW r \in Run,
             \/ Assistant!Dispatch(r) \/ Assistant!Begin(r) \/ Assistant!Collide(r) \/ Assistant!Reject(r)
             \/ Assistant!Answer(r) \/ Assistant!Recheck(r) \/ Assistant!Save(r) \/ Assistant!Crash(r)
      PROVE  AssistantInv'
  BY <1>3, DispatchKeepsAssistant, BeginKeepsAssistant, CollideKeepsAssistant,
     RejectKeepsAssistant, AnswerKeepsAssistant, RecheckKeepsAssistant, SaveKeepsAssistant,
     CrashKeepsAssistant
<1>4. CASE Assistant!ChangeRecords \/ Assistant!ChangeMembership \/ Assistant!HourPasses
  BY <1>4, ChangeRecordsKeepsAssistant, ChangeMembershipKeepsAssistant, HourPassesKeepsAssistant
<1> QED BY <1>1, <1>2, <1>3, <1>4 DEF Assistant!Next

\* The invariant gives the type invariant.
LEMMA AssistantTypesOK == AssistantInv => Assistant!TypeOK
BY DEF AssistantInv, AssistantTypes, AssistantRow, AssistantStage, Assistant!TypeOK

\* And what is promised: a complete answer was current when it came, and an
\* organization keeps within its limits.
LEMMA AssistantSafe == AssistantInv => Assistant!RunsAreSafe
BY AssistantCount DEF AssistantInv, AnswersAreJudged, RunIsJudged, RoomIsKept,
   Assistant!RunsAreSafe, Assistant!CompleteIsCurrent, Assistant!LimitsHold

-----------------------------------------------------------------------------
(* The parts together: each keeps its invariant while the others stand still. *)

OperationsInv ==
  /\ active \in Part
  /\ active = "BUDGET" => AllocationInv
  /\ active = "REPORTS" => ReportInv
  /\ active = "TRANSFERS" => TransferInv
  /\ active = "REQUESTS" => RequestInv
  /\ active = "DRAFTS" => DraftInv
  /\ active = "SETUP" => SetupInv
  /\ active = "EXPORT" => ExportInv
  /\ active = "ASSISTANT" => AssistantInv

\* Automatic allocation keeps the invariant while the other parts stand still.
LEMMA AllocationIsKept ==
  ASSUME active = "BUDGET" => AllocationInv, [OperationsNext]_allVars
  PROVE  (active = "BUDGET" => AllocationInv)'
<1> SUFFICES ASSUME active' = "BUDGET" PROVE AllocationInv'
  OBVIOUS
<1>1. active = "BUDGET" /\ [Next]_vars
  BY DEF OperationsNext, Only, allVars
<1> QED BY <1>1, AllocationNext

\* Reports keep the invariant while the other parts stand still.
LEMMA ReportsAreKept ==
  ASSUME active = "REPORTS" => ReportInv, [OperationsNext]_allVars
  PROVE  (active = "REPORTS" => ReportInv)'
<1> SUFFICES ASSUME active' = "REPORTS" PROVE ReportInv'
  OBVIOUS
<1>1. active = "REPORTS" /\ [Reports!Next]_reportVars
  BY DEF OperationsNext, Only, allVars
<1> QED BY <1>1, ReportNext

\* Transfers keep the invariant while the other parts stand still.
LEMMA TransfersAreKept ==
  ASSUME active = "TRANSFERS" => TransferInv, [OperationsNext]_allVars
  PROVE  (active = "TRANSFERS" => TransferInv)'
<1> SUFFICES ASSUME active' = "TRANSFERS" PROVE TransferInv'
  OBVIOUS
<1>1. active = "TRANSFERS" /\ [Transfers!Next]_transferVars
  BY DEF OperationsNext, Only, allVars
<1> QED BY <1>1, TransferNext

\* Requests keep the invariant while the other parts stand still.
LEMMA RequestsAreKept ==
  ASSUME active = "REQUESTS" => RequestInv, [OperationsNext]_allVars
  PROVE  (active = "REQUESTS" => RequestInv)'
<1> SUFFICES ASSUME active' = "REQUESTS" PROVE RequestInv'
  OBVIOUS
<1>1. active = "REQUESTS" /\ [Requests!Next]_requestVars
  BY DEF OperationsNext, Only, allVars
<1> QED BY <1>1, RequestNext

\* Drafts keep the invariant while the other parts stand still.
LEMMA DraftsAreKept ==
  ASSUME active = "DRAFTS" => DraftInv, [OperationsNext]_allVars
  PROVE  (active = "DRAFTS" => DraftInv)'
<1> SUFFICES ASSUME active' = "DRAFTS" PROVE DraftInv'
  OBVIOUS
<1>1. active = "DRAFTS" /\ [Drafts!Next]_draftVars
  BY DEF OperationsNext, Only, allVars
<1> QED BY <1>1, DraftNext

\* The setup keeps the invariant while the other parts stand still.
LEMMA SetupIsKept ==
  ASSUME active = "SETUP" => SetupInv, [OperationsNext]_allVars
  PROVE  (active = "SETUP" => SetupInv)'
<1> SUFFICES ASSUME active' = "SETUP" PROVE SetupInv'
  OBVIOUS
<1>1. active = "SETUP" /\ [Setup!Next]_setupVars
  BY DEF OperationsNext, Only, allVars
<1> QED BY <1>1, SetupNext

\* The export keeps the invariant while the other parts stand still.
LEMMA ExportIsKept ==
  ASSUME active = "EXPORT" => ExportInv, [OperationsNext]_allVars
  PROVE  (active = "EXPORT" => ExportInv)'
<1> SUFFICES ASSUME active' = "EXPORT" PROVE ExportInv'
  OBVIOUS
<1>1. active = "EXPORT" /\ [Export!Next]_exportVars
  BY DEF OperationsNext, Only, allVars
<1> QED BY <1>1, ExportNext

\* The assistant keeps the invariant while the other parts stand still.
LEMMA AssistantIsKept ==
  ASSUME active = "ASSISTANT" => AssistantInv, [OperationsNext]_allVars
  PROVE  (active = "ASSISTANT" => AssistantInv)'
<1> SUFFICES ASSUME active' = "ASSISTANT" PROVE AssistantInv'
  OBVIOUS
<1>1. active = "ASSISTANT" /\ [Assistant!Next]_assistantVars
  BY DEF OperationsNext, Only, allVars
<1> QED BY <1>1, AssistantNext

\* The parts' invariants are inductive together.
LEMMA OperationsKeepInv == OperationsSpec => []OperationsInv
<1>1. OperationsInit => OperationsInv
  BY AllocationInit, ReportInit, TransferInit, RequestInit, DraftInit, SetupInit, ExportInit,
     AssistantInit DEF OperationsInit, OperationsInv
<1>2. OperationsInv /\ [OperationsNext]_allVars => OperationsInv'
  <2> SUFFICES ASSUME OperationsInv, [OperationsNext]_allVars PROVE OperationsInv'
    OBVIOUS
  <2>1. active' \in Part
    BY DEF OperationsInv, OperationsNext, Only, allVars
  <2> QED BY <2>1, AllocationIsKept, ReportsAreKept, TransfersAreKept, RequestsAreKept,
             DraftsAreKept, SetupIsKept, ExportIsKept, AssistantIsKept DEF OperationsInv
<1> QED BY <1>1, <1>2, PTL DEF OperationsSpec

\* An automatic allocation's action ends as what happened on chain: COMPLETE
\* with the bounty and the finally consumed approval, REJECTED without a
\* transaction, FAILED with one that finally reverted; Circle makes at most one
\* transaction of it; and what waits has an outbox row or a job
\* (services/budget/src/allocate.ts).
THEOREM AllocationsStaySafe == OperationsSpec => []AllocationsAreSafe
<1>1. OperationsInv => AllocationsAreSafe
  BY AllocationsTrue DEF AllocationsAreSafe, OperationsInv
<1> QED BY <1>1, OperationsKeepInv, PTL

\* The sweep deletes no evidence an open claim needs, no copy of a report that
\* is sealed or available and nothing held for a payment, wherever it lost its
\* lock; and no reader gets a report whose right ended before it was sent
\* (services/retention, services/report-release).
THEOREM ReportsStaySafe == OperationsSpec => []ReportsAreSafe
<1>1. OperationsInv => ReportsAreSafe
  BY ReportsSafe DEF ReportsAreSafe, OperationsInv
<1> QED BY <1>1, OperationsKeepInv, PTL

\* What users do twice is done once: a key of the API is executed once and no
\* version is overwritten (context.ts), a transfer is paid by the transaction it
\* has saved and by no other (WalletTransfer.tsx, wallet-transfers.ts), and a
\* form that is sent again gets the draft it has made (bounty-routes.ts).
THEOREM RequestsStaySafe == OperationsSpec => []RequestsAreSafe
<1>1. OperationsInv => RequestsAreSafe
  BY RequestsSafe, TransfersSafe, DraftsSafe DEF RequestsAreSafe, OperationsInv
<1> QED BY <1>1, OperationsKeepInv, PTL

\* What a worker finishes was true when it finished it: a wallet is ready under
\* the rules in force, a file of receipts agrees with the chain and its requester
\* kept the role, an answer is about the records as they were when it was saved
\* (services/wallet, services/receipts, services/assistant).
THEOREM JobsStaySafe == OperationsSpec => []JobsAreSafe
<1>1. ExportInv => Export!ExportIsSafe
  BY DEF ExportInv
<1>2. OperationsInv => JobsAreSafe
  BY <1>1, SetupSafe, AssistantSafe DEF JobsAreSafe, OperationsInv
<1> QED BY <1>2, OperationsKeepInv, PTL

\* Every part keeps the types of its variables: among them that one
\* recommendation is live and that a job of the queue works on an action that
\* is there (all eight modules).
THEOREM TypesStayOK == OperationsSpec => []TypesOK
<1>1. ASSUME OperationsInv PROVE TypesOK
  <2>1. CASE active = "BUDGET"
    BY <1>1, <2>1, AllocationTypesOK DEF OperationsInv, TypesOK
  <2>2. CASE active = "REPORTS"
    BY <1>1, <2>2, ReportTypesOK DEF OperationsInv, TypesOK
  <2>3. CASE active = "TRANSFERS"
    BY <1>1, <2>3, TransferTypesOK DEF OperationsInv, TypesOK
  <2>4. CASE active = "REQUESTS"
    BY <1>1, <2>4, RequestTypesOK DEF OperationsInv, TypesOK
  <2>5. CASE active = "DRAFTS"
    BY <1>1, <2>5, DraftTypesOK DEF OperationsInv, TypesOK
  <2>6. CASE active = "SETUP"
    BY <1>1, <2>6, SetupTypesOK DEF OperationsInv, TypesOK
  <2>7. CASE active = "EXPORT"
    BY <1>1, <2>7, ExportTypesOK DEF OperationsInv, TypesOK
  <2>8. CASE active = "ASSISTANT"
    BY <1>1, <2>8, AssistantTypesOK DEF OperationsInv, TypesOK
  <2> QED BY <1>1, <2>1, <2>2, <2>3, <2>4, <2>5, <2>6, <2>7, <2>8 DEF OperationsInv, Part
<1> QED BY <1>1, OperationsKeepInv, PTL

=============================================================================
