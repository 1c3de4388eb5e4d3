--------------------------- MODULE ClaimSettlement ---------------------------
(***************************************************************************)
(* How the claims of one bounty are settled: the worker's job for each     *)
(* claim (services/worker/src/claim-process.ts), the verifier that signs   *)
(* admissions and assessments for it (services/verifier/src/process.ts and *)
(* finding-process.ts), the relayer that sends its three transactions, the *)
(* escrow, and the recovery job that records expiries and refunds          *)
(* (services/worker/src/recovery-receipt.ts).                              *)
(*                                                                         *)
(* One action is one database transaction, one chain read or one provider  *)
(* call; between two of them the process may crash, time out, or be        *)
(* overtaken by any other.  Every service reads the chain at its finalized *)
(* block, so the chain here is the finalized one: a transaction which is   *)
(* included but not final is, to all of them, one still pending.           *)
(***************************************************************************)
EXTENDS Integers, Sequences, FiniteSets

CONSTANTS
  Claim,
  NoClaim,              \* nobody: no claim
  Adapter,              \* which verifier judges: "FIXTURE" or "FINDING"
  Reward,               \* policy.reward
  LargePayout,          \* LARGE_PAYOUT_THRESHOLD
  RequiredApprovals,    \* LARGE_PAYOUT_REQUIRED_APPROVALS
  SubmissionDeadline, SettlementDeadline, Duration,   \* of the policy
  AdmissionWindow,      \* 300 seconds in the code
  MaxTime,              \* bound on the clock
  MaxCrashes            \* bound on crashes and timeouts of the worker's jobs

Method == {"reserveClaim", "submitAssessment", "collectPayment"}

ASSUME SettlementAssumption ==
  /\ NoClaim \notin Claim
  /\ Adapter \in {"FIXTURE", "FINDING"}
  /\ Reward \in Nat \ {0} /\ LargePayout \in Nat /\ RequiredApprovals \in Nat
  /\ {SubmissionDeadline, SettlementDeadline, Duration, AdmissionWindow,
      MaxTime, MaxCrashes} \subseteq Nat
  /\ SubmissionDeadline <= SettlementDeadline

JobState == {"UPLOADING", "ADMISSION_PENDING", "RESERVING", "RESERVED", "ASSESSED",
             "SETTLEMENT_PENDING", "AWAITING_QUORUM", "RECOVERY_PENDING",
             "SETTLED", "EXPIRED", "ADMISSION_EXPIRED", "INVALID_FIXTURE"}

IntentState == {"NONE", "PREPARED", "SUBMITTED", "BROADCAST", "CONFIRMED",
                "EXPIRED", "RECONCILED"}

EventName == {"BountyFunded", "ClaimReserved", "ClaimRejected", "ClaimQualified",
              "Paid", "ReservationExpired", "BountyRefunded"}

VARIABLES
  now,          \* the finalized block's timestamp; the services' clocks follow it
  crashes,      \* crashes and timeouts so far
  escrow,       \* the bounty in BountyEscrow
  log,          \* its final transactions, one event each, in order
  tx,           \* the relayer's transaction for each claim and method
  job,          \* claims.job_state
  admission,    \* admissions: the claim's newest signed admission
  assessment,   \* assessments
  report,       \* reports: SEALED under a HELD retention or not, its expiry
                \* RESOLVED (expiry_event_ref), or AVAILABLE
  intent,       \* transaction_intents
  recorded,     \* chain_events: positions of log recorded as FINAL
  bounty,       \* bounties: chain_state and last_event_key
  signatures,   \* payout_approval_signatures, or -1 before there is an approval
  lock,         \* who holds the advisory lock claim-lifecycle:bounty
  at,           \* where the worker's job for each claim is
  row,          \* the job_state that job read before it took the lock
  requested,    \* verifier requests sent and not yet begun
  serving,      \* the verifier request being served
  seen          \* the chain as that request read it

envVars      == <<now, crashes>>
chainVars    == <<escrow, log, tx>>
verifierVars == <<requested, serving, seen>>
workerVars   == <<lock, at, row>>
dbVars       == <<job, admission, assessment, report, intent, recorded, bounty, signatures>>
vars == <<envVars, chainVars, verifierVars, workerVars, dbVars>>

Idle   == <<"idle", "none">>
Locked == <<"lock", "none">>
Step(stage, method) == <<stage, method>>

NoIntent == [state |-> "NONE", hash |-> FALSE, validUntil |-> 0]
FundedEscrow == [state |-> "FUNDED", claim |-> NoClaim, expiresAt |-> 0]
Unread == [allowed |-> FALSE, now |-> 0]
Event(name, c, amount) == [name |-> name, claim |-> c, amount |-> amount]

Init ==
  /\ now = 0 /\ crashes = 0
  /\ escrow = FundedEscrow
  /\ log = <<Event("BountyFunded", NoClaim, Reward)>>
  /\ tx = [c \in Claim |-> [m \in Method |-> "NONE"]]
  /\ job = [c \in Claim |-> "UPLOADING"]
  /\ admission = [c \in Claim |-> [state |-> "NONE", validUntil |-> 0]]
  /\ assessment = [c \in Claim |-> [outcome |-> "NONE", reward |-> 0]]
  /\ report = [c \in Claim |-> "NONE"]
  /\ intent = [c \in Claim |-> [m \in Method |-> NoIntent]]
  /\ recorded = {1}
  /\ bounty = [state |-> "FUNDED", lastEvent |-> 1]
  /\ signatures = [c \in Claim |-> -1]
  /\ lock = NoClaim
  /\ at = [c \in Claim |-> Idle]
  /\ row = [c \in Claim |-> "UPLOADING"]
  /\ requested = [c \in Claim |-> {}]
  /\ serving = [c \in Claim |-> "NONE"]
  /\ seen = [c \in Claim |-> Unread]

Lesser(m, n) == IF m <= n THEN m ELSE n

\* The index one_projected_reservation: the database refuses to put a second
\* claim of the bounty in one of these states.
Projected == {"RESERVED", "ASSESSED", "SETTLEMENT_PENDING"}

MayBecome(c, state) ==
  state \in Projected => \A d \in Claim \ {c} : job[d] \notin Projected

-----------------------------------------------------------------------------
(* The chain: BountyEscrow as this bounty's claims meet it.                *)

Emit(name, c, amount) == log' = Append(log, Event(name, c, amount))

Positions(name, c) == {i \in 1 .. Len(log) : log[i].name = name /\ log[i].claim = c}

\* Whether the escrow accepts a call when it is executed.
Succeeds(c, m) ==
  \/ /\ m = "reserveClaim"
     /\ escrow.state = "FUNDED"
     /\ Positions("ClaimReserved", c) = {}
     /\ now < SubmissionDeadline
     /\ now <= intent[c][m].validUntil
  \/ /\ m = "submitAssessment"
     /\ escrow.state = "RESERVED" /\ escrow.claim = c
     /\ now <= escrow.expiresAt
  \/ m = "collectPayment" /\ escrow.state = "QUALIFIED"

Effect(c, m) ==
  \/ /\ m = "reserveClaim"
     /\ escrow' = [state |-> "RESERVED", claim |-> c,
                   expiresAt |-> Lesser(now + Duration, SettlementDeadline)]
     /\ Emit("ClaimReserved", c, Reward)
  \/ /\ m = "submitAssessment" /\ assessment[c].outcome = "QUALIFIES"
     /\ escrow' = [escrow EXCEPT !.state = "QUALIFIED"]
     /\ Emit("ClaimQualified", c, assessment[c].reward)
  \/ /\ m = "submitAssessment" /\ assessment[c].outcome # "QUALIFIES"
     /\ escrow' = FundedEscrow
     /\ Emit("ClaimRejected", c, 0)
  \/ /\ m = "collectPayment"
     /\ escrow' = [escrow EXCEPT !.state = "PAID"]
     /\ Emit("Paid", escrow.claim, assessment[escrow.claim].reward)

Execute(c, m) ==
  /\ tx[c][m] = "PENDING"
  /\ \/ /\ Succeeds(c, m)
        /\ Effect(c, m)
        /\ tx' = [tx EXCEPT ![c][m] = "SUCCESS"]
     \/ /\ ~ Succeeds(c, m)
        /\ tx' = [tx EXCEPT ![c][m] = "REVERTED"]
        /\ UNCHANGED <<escrow, log>>
  /\ UNCHANGED <<envVars, verifierVars, workerVars, dbVars>>

\* The escrow does not ask who presents a signed call, and the message is public
\* once the relayer's transaction is broadcast: another account may be first, or
\* come after that transaction has reverted.
PresentedByOther(c, m) ==
  /\ m # "collectPayment"
  /\ tx[c][m] # "NONE"
  /\ Succeeds(c, m)
  /\ Effect(c, m)
  /\ UNCHANGED <<envVars, tx, verifierVars, workerVars, dbVars>>

\* Anybody may send these three calls, which nobody signs; the recovery job
\* sends the last two.
CollectByOther ==
  /\ escrow.state = "QUALIFIED"
  /\ escrow' = [escrow EXCEPT !.state = "PAID"]
  /\ Emit("Paid", escrow.claim, assessment[escrow.claim].reward)
  /\ UNCHANGED <<envVars, tx, verifierVars, workerVars, dbVars>>

ReservationIsOver == escrow.state = "RESERVED" /\ now > escrow.expiresAt

ExpireReservation ==
  /\ ReservationIsOver
  /\ escrow' = FundedEscrow
  /\ Emit("ReservationExpired", escrow.claim, 0)
  /\ UNCHANGED <<envVars, tx, verifierVars, workerVars, dbVars>>

\* A refund of a bounty that is still reserved expires the reservation in the
\* same transaction: the event then names the claim.
RefundExpired ==
  /\ now > SettlementDeadline
  /\ escrow.state = "FUNDED" \/ ReservationIsOver
  /\ escrow' = [FundedEscrow EXCEPT !.state = "REFUNDED"]
  /\ Emit("BountyRefunded", escrow.claim, Reward)
  /\ UNCHANGED <<envVars, tx, verifierVars, workerVars, dbVars>>

Tick ==
  /\ now < MaxTime
  /\ now' = now + 1
  /\ UNCHANGED <<crashes, chainVars, verifierVars, workerVars, dbVars>>

-----------------------------------------------------------------------------
(* The verifier: one request of a claim is served at a time, under an      *)
(* advisory lock.  A request outlives the worker's 20 second wait for it.  *)

KindOf(m) == IF m = "reserveClaim" THEN "ADMIT" ELSE "ASSESS"

WaitsFor(c, m) == at[c] = Step("verify", m)

\* The worker that waits for this very request saves the signed call it gets
\* as a prepared intent.  The request may also be one that an earlier attempt
\* gave up on, while the one the worker waits for has not begun.
Answered(c, m, validUntil) ==
  \/ /\ WaitsFor(c, m)
     /\ intent' = [intent EXCEPT ![c][m] =
                     [state |-> "PREPARED", hash |-> FALSE, validUntil |-> validUntil]]
     /\ at' = [at EXCEPT ![c] = Step("send", m)]
  \/ /\ WaitsFor(c, m) => KindOf(m) \in requested[c]
     /\ UNCHANGED <<intent, at>>

Served(c) ==
  /\ serving' = [serving EXCEPT ![c] = "NONE"]
  /\ seen' = [seen EXCEPT ![c] = Unread]

\* What the chain must say for a claim to be admitted, or assessed.
Allowed(c, kind) ==
  IF kind = "ADMIT" THEN escrow.state = "FUNDED" /\ now < SubmissionDeadline
  ELSE escrow.state = "RESERVED" /\ escrow.claim = c /\ now <= escrow.expiresAt

\* context(): the chain is read before the evidence is judged.
Serve(c, kind) ==
  /\ kind \in requested[c]
  /\ serving[c] = "NONE"
  /\ requested' = [requested EXCEPT ![c] = @ \ {kind}]
  /\ serving' = [serving EXCEPT ![c] = kind]
  /\ seen' = [seen EXCEPT ![c] = [allowed |-> Allowed(c, kind), now |-> now]]
  /\ UNCHANGED <<envVars, chainVars, workerVars, dbVars>>

SignedBefore(c) ==
  admission[c].state = "SIGNED" /\ admission[c].validUntil >= seen[c].now

AdmitAgain(c) ==
  /\ serving[c] = "ADMIT"
  /\ SignedBefore(c)
  /\ Answered(c, "reserveClaim", admission[c].validUntil)
  /\ Served(c)
  /\ UNCHANGED <<envVars, chainVars, requested, lock, row, job, admission,
                 assessment, report, recorded, bounty, signatures>>

\* A claim whose evidence was found invalid is never admitted: it still is.
Admit(c) ==
  LET validUntil == Lesser(seen[c].now + AdmissionWindow, SubmissionDeadline) IN
  /\ serving[c] = "ADMIT"
  /\ ~ SignedBefore(c)
  /\ seen[c].allowed
  /\ job[c] # "INVALID_FIXTURE"
  /\ admission' = [admission EXCEPT ![c] = [state |-> "SIGNED", validUntil |-> validUntil]]
  /\ job' = [job EXCEPT ![c] = "RESERVING"]
  /\ Answered(c, "reserveClaim", validUntil)
  /\ Served(c)
  /\ UNCHANGED <<envVars, chainVars, requested, lock, row, assessment, report,
                 recorded, bounty, signatures>>

AssessAgain(c) ==
  /\ serving[c] = "ASSESS"
  /\ assessment[c].outcome # "NONE"
  /\ Answered(c, "submitAssessment", 0)
  /\ Served(c)
  /\ UNCHANGED <<envVars, chainVars, requested, lock, row, job, admission,
                 assessment, report, recorded, bounty, signatures>>

\* The fixture verifier pays the policy's reward; the finding verifier grants
\* what it measured, within the bounds of the severity tier: its minimum is
\* positive and its maximum is the policy's reward.
Verdicts ==
  {[outcome |-> "DOES_NOT_QUALIFY", reward |-> 0],
   [outcome |-> "QUALIFIES", reward |-> Reward]}
  \cup IF Adapter = "FIXTURE" THEN {}
       ELSE [outcome : {"QUALIFIES"}, reward : 1 .. Reward]

\* A qualifying report is sealed under a retention hold.
Assess(c) ==
  /\ serving[c] = "ASSESS"
  /\ assessment[c].outcome = "NONE"
  /\ seen[c].allowed
  /\ MayBecome(c, "ASSESSED")
  /\ \E verdict \in Verdicts :
       /\ assessment' = [assessment EXCEPT ![c] = verdict]
       /\ report' = [report EXCEPT ![c] =
                       IF verdict.outcome = "QUALIFIES" THEN "HELD" ELSE "SEALED"]
  /\ job' = [job EXCEPT ![c] = "ASSESSED"]
  /\ Answered(c, "submitAssessment", 0)
  /\ Served(c)
  /\ UNCHANGED <<envVars, chainVars, requested, lock, row, admission, recorded,
                 bounty, signatures>>

-----------------------------------------------------------------------------
(* The worker's job for one claim: processClaim.                           *)

\* PUT /uploads/:id/ciphertext: the evidence is stored and the job is queued.
SubmitClaim(c) ==
  /\ job[c] = "UPLOADING"
  /\ job' = [job EXCEPT ![c] = "ADMISSION_PENDING"]
  /\ UNCHANGED <<envVars, chainVars, verifierVars, workerVars, admission, assessment,
                 report, intent, recorded, bounty, signatures>>

Goto(c, stage) == at' = [at EXCEPT ![c] = stage]

\* The job ends: its locals are gone and the lock it holds is released.
Leave(c) ==
  /\ Goto(c, Idle)
  /\ row' = [row EXCEPT ![c] = "UPLOADING"]
  /\ lock' = IF lock = c THEN NoClaim ELSE lock

\* A crash, or a wait that timed out, at any step; the queue runs the job again.
Crash(c) ==
  /\ at[c] # Idle
  /\ crashes < MaxCrashes
  /\ crashes' = crashes + 1
  /\ Leave(c)
  /\ UNCHANGED <<now, chainVars, verifierVars, dbVars>>

\* The claim's row is read first and the lock is taken afterwards.
Start(c) ==
  /\ at[c] = Idle
  /\ job[c] # "UPLOADING"
  /\ row' = [row EXCEPT ![c] = job[c]]
  /\ Goto(c, Locked)
  /\ UNCHANGED <<envVars, chainVars, verifierVars, lock, dbVars>>

\* pg_try_advisory_lock: a job that does not get it throws.
Acquire(c) ==
  /\ at[c] = Locked
  /\ lock = NoClaim
  /\ IF row[c] \in {"EXPIRED", "ADMISSION_EXPIRED", "INVALID_FIXTURE"}
       THEN Leave(c)
       ELSE /\ lock' = c
            /\ Goto(c, Step(IF row[c] = "SETTLED" THEN "release" ELSE "read", "none"))
            /\ UNCHANGED row
  /\ UNCHANGED <<envVars, chainVars, verifierVars, dbVars>>

\* A faulty variant: the last second of an admission counts as over.
AdmissionEnded(c) == now >= intent[c]["reserveClaim"].validUntil

AdmissionIsOver(c) == now > intent[c]["reserveClaim"].validUntil

\* One chain read decides what the rest of the job does.
ReadChain(c) ==
  /\ at[c] = Step("read", "none")
  /\ Goto(c,
       IF /\ escrow.state = "FUNDED"
          /\ row[c] \in {"ADMISSION_PENDING", "RESERVING"}
          /\ intent[c]["reserveClaim"].state # "NONE"
          /\ AdmissionIsOver(c)
         THEN Step("admission-expired", "none")
       ELSE IF ReservationIsOver /\ escrow.claim = c
         THEN Step("reservation-over", "none")
       ELSE Step("begin", "reserveClaim"))
  /\ UNCHANGED <<envVars, chainVars, verifierVars, lock, row, dbVars>>

RecordAdmissionExpired(c) ==
  /\ at[c] = Step("admission-expired", "none")
  /\ job' = [job EXCEPT ![c] = "ADMISSION_EXPIRED"]
  /\ intent' = [intent EXCEPT ![c]["reserveClaim"].state = "EXPIRED"]
  /\ admission' = [admission EXCEPT ![c].state = "EXPIRED"]
  /\ Leave(c)
  /\ UNCHANGED <<envVars, chainVars, verifierVars, assessment, report, recorded, bounty,
                 signatures>>

\* Recovery is queued; it runs whenever it finds an event, queued or not.
RequestRecovery(c) ==
  /\ at[c] = Step("reservation-over", "none")
  /\ job' = IF job[c] \in {"SETTLED", "EXPIRED"} THEN job
            ELSE [job EXCEPT ![c] = "RECOVERY_PENDING"]
  /\ Leave(c)
  /\ UNCHANGED <<envVars, chainVars, verifierVars, admission, assessment, report, intent,
                 recorded, bounty, signatures>>

\* A faulty variant: the job knows only the payments it sent itself.
OwnPaymentOnly(c, m) == FALSE

\* findPaid: the payment may have been collected by somebody else.
FoundPaid(c, m) == m = "collectPayment" /\ escrow.state = "PAID"

\* step(method) looks for its saved intent; without one it asks the verifier
\* for a signed call, which collectPayment does not need.
BeginStep(c, m) ==
  /\ at[c] = Step("begin", m)
  /\ IF FoundPaid(c, m)
       THEN Goto(c, Step("save-external", m)) /\ UNCHANGED <<intent, requested>>
     ELSE IF intent[c][m].hash
       THEN Goto(c, Step("receipt", m)) /\ UNCHANGED <<intent, requested>>
     ELSE IF intent[c][m].state # "NONE"
       THEN Goto(c, Step("send", m)) /\ UNCHANGED <<intent, requested>>
     ELSE IF m = "collectPayment"
       THEN /\ intent' = [intent EXCEPT ![c][m].state = "PREPARED"]
            /\ Goto(c, Step("send", m))
            /\ UNCHANGED requested
     ELSE /\ requested' = [requested EXCEPT ![c] = @ \cup {KindOf(m)}]
          /\ Goto(c, Step("verify", m))
          /\ UNCHANGED intent
  /\ UNCHANGED <<envVars, chainVars, serving, seen, lock, row, job, admission, assessment,
                 report, recorded, bounty, signatures>>

\* The intent's id is the provider's idempotency key: a second call for the
\* same intent finds the transaction of the first.
Send(c, m) ==
  /\ at[c] = Step("send", m)
  /\ intent' = [intent EXCEPT ![c][m].state = "SUBMITTED"]
  /\ tx' = [tx EXCEPT ![c][m] = IF @ = "NONE" THEN "PENDING" ELSE @]
  /\ Goto(c, Step("hash", m))
  /\ UNCHANGED <<envVars, escrow, log, verifierVars, lock, row, job, admission,
                 assessment, report, recorded, bounty, signatures>>

SaveHash(c, m) ==
  /\ at[c] = Step("hash", m)
  /\ intent' = [intent EXCEPT ![c][m] =
                  [state |-> "BROADCAST", hash |-> TRUE, validUntil |-> @.validUntil]]
  /\ Goto(c, Step("receipt", m))
  /\ UNCHANGED <<envVars, chainVars, verifierVars, lock, row, job, admission, assessment,
                 report, recorded, bounty, signatures>>

EventOf(c, m) ==
  IF m = "reserveClaim" THEN "ClaimReserved"
  ELSE IF m = "collectPayment" THEN "Paid"
  ELSE IF assessment[c].outcome = "QUALIFIES" THEN "ClaimQualified" ELSE "ClaimRejected"

\* The receipt proves the step: the event is this claim's, and a credit or a
\* payment is of the policy's whole reward.
Proves(c, m, i) ==
  /\ i \in Positions(EventOf(c, m), c)
  /\ EventOf(c, m) \in {"ClaimQualified", "Paid"} => log[i].amount = Reward

ChainStateAfter(name) ==
  IF name = "ClaimReserved" THEN "RESERVED"
  ELSE IF name = "ClaimQualified" THEN "QUALIFIED"
  ELSE IF name = "Paid" THEN "PAID"
  ELSE IF name = "BountyRefunded" THEN "REFUNDED" ELSE "FUNDED"

\* A faulty variant: the event recorded last wins.
SetBountyState(i) ==
  bounty' = [state |-> ChainStateAfter(log[i].name), lastEvent |-> i]

\* The bounty's row follows an event only past the last event it followed.
FollowEvent(i) ==
  bounty' = IF bounty.lastEvent < i
              THEN [state |-> ChainStateAfter(log[i].name), lastEvent |-> i]
              ELSE bounty

\* A faulty variant: a reservation is recorded whatever the claim's state.
JobAfterAnyState(c, name) ==
  IF name = "ClaimReserved" THEN "RESERVED"
  ELSE IF name = "ClaimQualified" THEN "SETTLEMENT_PENDING" ELSE "SETTLED"

JobAfter(c, name) ==
  IF name = "ClaimReserved"
    THEN IF job[c] \in {"ADMISSION_PENDING", "RESERVING"} THEN "RESERVED" ELSE job[c]
  ELSE IF job[c] \in {"SETTLED", "EXPIRED"} THEN job[c]
  ELSE IF name = "ClaimQualified" THEN "SETTLEMENT_PENDING" ELSE "SETTLED"

\* saveEvent: one transaction, which the index may refuse.
SaveEvent(c, i) ==
  /\ MayBecome(c, JobAfter(c, log[i].name))
  /\ recorded' = recorded \cup {i}
  /\ FollowEvent(i)
  /\ job' = [job EXCEPT ![c] = JobAfter(c, log[i].name)]

\* A rejected claim's job ends; every other step has a next one.
AfterStep(m) ==
  IF m = "reserveClaim" THEN Step("begin", "submitAssessment")
  ELSE IF m = "submitAssessment" THEN Step("quorum", "none") ELSE Step("release", "none")

SaveStep(c, m) ==
  /\ at[c] = Step("receipt", m)
  /\ tx[c][m] = "SUCCESS"
  /\ \E i \in 1 .. Len(log) : Proves(c, m, i) /\ SaveEvent(c, i)
  /\ intent' = [intent EXCEPT ![c][m].state = "CONFIRMED"]
  /\ \/ /\ m = "submitAssessment" /\ assessment[c].outcome # "QUALIFIES"
        /\ Leave(c)
     \/ /\ m = "submitAssessment" => assessment[c].outcome = "QUALIFIES"
        /\ Goto(c, AfterStep(m))
        /\ UNCHANGED <<row, lock>>
  /\ UNCHANGED <<envVars, chainVars, verifierVars, admission, assessment, report,
                 signatures>>

\* A payment the job finds is recorded without its own intent, whichever
\* transaction made it; that intent is closed afterwards.
SaveExternalPayment(c) ==
  /\ at[c] = Step("save-external", "collectPayment")
  /\ \E i \in 1 .. Len(log) : Proves(c, "collectPayment", i) /\ SaveEvent(c, i)
  /\ Goto(c, Step("reconcile", "none"))
  /\ UNCHANGED <<envVars, chainVars, verifierVars, row, lock, intent, admission,
                 assessment, report, signatures>>

CloseIntent(c) ==
  /\ at[c] = Step("reconcile", "none")
  /\ intent' = IF intent[c]["collectPayment"].state \in {"NONE", "CONFIRMED"} THEN intent
               ELSE [intent EXCEPT ![c]["collectPayment"].state = "RECONCILED"]
  /\ Goto(c, Step("release", "none"))
  /\ UNCHANGED <<envVars, chainVars, verifierVars, row, lock, job, admission, assessment,
                 report, recorded, bounty, signatures>>

NeedsQuorum(c) == assessment[c].reward >= LargePayout

HasQuorum(c) == signatures[c] >= RequiredApprovals

AwaitQuorum(c) ==
  /\ at[c] = Step("quorum", "none")
  /\ NeedsQuorum(c) /\ ~ HasQuorum(c)
  /\ signatures' = IF signatures[c] = -1 THEN [signatures EXCEPT ![c] = 0] ELSE signatures
  /\ job' = IF job[c] \in {"SETTLED", "EXPIRED"} THEN job
            ELSE [job EXCEPT ![c] = "AWAITING_QUORUM"]
  /\ Leave(c)
  /\ UNCHANGED <<envVars, chainVars, verifierVars, admission, assessment, report, intent,
                 recorded, bounty>>

\* A faulty variant: the payment does not wait for the signatures.
PassUnsigned(c) ==
  /\ at[c] = Step("quorum", "none")
  /\ Goto(c, Step("begin", "collectPayment"))
  /\ UNCHANGED <<envVars, chainVars, verifierVars, row, lock, dbVars>>

PassQuorum(c) ==
  /\ at[c] = Step("quorum", "none")
  /\ NeedsQuorum(c) => HasQuorum(c)
  /\ Goto(c, Step("begin", "collectPayment"))
  /\ UNCHANGED <<envVars, chainVars, verifierVars, row, lock, dbVars>>

\* A faulty variant: an approval can be signed after it was approved.
SignAnyApproval(c) ==
  /\ signatures[c] >= 0
  /\ signatures' = [signatures EXCEPT ![c] = @ + 1]
  /\ UNCHANGED <<envVars, chainVars, verifierVars, workerVars, job, admission, assessment,
                 report, intent, recorded, bounty>>

\* POST /payout-approvals/:id/sign by another member.
SignApproval(c) ==
  /\ signatures[c] \in 0 .. RequiredApprovals - 1
  /\ signatures' = [signatures EXCEPT ![c] = @ + 1]
  /\ UNCHANGED <<envVars, chainVars, verifierVars, workerVars, job, admission, assessment,
                 report, intent, recorded, bounty>>

PaymentRecorded(c) == recorded \cap Positions("Paid", c) # {}

\* A step that throws: the lock is busy, the transaction is not final or has
\* failed, its receipt does not prove the step, the database or the release
\* service refuses, or (after 23 hours, which this clock does not count) a
\* request without a hash is too old to send again.
Throws(c) ==
  \/ at[c] = Locked /\ lock # NoClaim
  \/ \E m \in Method :
       \/ /\ at[c] = Step("begin", m) /\ ~ FoundPaid(c, m)
          /\ intent[c][m].state # "NONE" /\ ~ intent[c][m].hash
       \/ at[c] = Step("receipt", m) /\ tx[c][m] # "SUCCESS"
  \/ \E m \in Method, s \in {"receipt", "save-external"} :
       /\ at[c] = Step(s, m)
       /\ \A i \in 1 .. Len(log) :
            Proves(c, m, i) => ~ MayBecome(c, JobAfter(c, log[i].name))
  \/ /\ at[c] = Step("release", "none")
     /\ PaymentRecorded(c) /\ report[c] = "RESOLVED"

Throw(c) ==
  /\ Throws(c)
  /\ Leave(c)
  /\ UNCHANGED <<envVars, chainVars, verifierVars, dbVars>>

\* The verifier refuses or fails: its transaction rolls back, and the worker
\* that waits for this request throws.  When the fixture verifier found the
\* evidence invalid, the worker's catch records it.
Refuse(c) ==
  /\ serving[c] # "NONE"
  /\ Served(c)
  /\ \/ /\ \E m \in Method : WaitsFor(c, m) /\ KindOf(m) = serving[c]
        /\ Leave(c)
        /\ \/ UNCHANGED job
           \/ /\ Adapter = "FIXTURE" /\ serving[c] = "ADMIT"
              /\ admission[c].state = "NONE"
              /\ job[c] \in {"ADMISSION_PENDING", "RESERVING"}
              /\ job' = [job EXCEPT ![c] = "INVALID_FIXTURE"]
     \/ /\ \A m \in Method :
             WaitsFor(c, m) /\ KindOf(m) = serving[c] => serving[c] \in requested[c]
        /\ UNCHANGED <<workerVars, job>>
  /\ UNCHANGED <<envVars, chainVars, requested, admission, assessment, report, intent,
                 recorded, bounty, signatures>>

\* A faulty variant: whatever is sealed is released.
AnySealed(c) == report[c] \in {"HELD", "SEALED"}

\* releaseIfPaid and the release service: the final Paid event opens the
\* report; the retention trigger refuses one whose expiry was resolved.
Releasable(c) == PaymentRecorded(c) /\ report[c] \in {"HELD", "SEALED"}

ReleaseIfPaid(c) ==
  /\ at[c] = Step("release", "none")
  /\ PaymentRecorded(c) => report[c] # "RESOLVED"
  /\ report' = IF Releasable(c) THEN [report EXCEPT ![c] = "AVAILABLE"] ELSE report
  /\ Leave(c)
  /\ UNCHANGED <<envVars, chainVars, verifierVars, job, admission, assessment, intent,
                 recorded, bounty, signatures>>

-----------------------------------------------------------------------------
(* reconcileRecovery: records one final expiry or refund, in one           *)
(* transaction, from the recovery job's scan of the chain or from a hash   *)
(* that was sent to the API: in any order, and more than once.             *)

\* A faulty variant: an assessment in flight is not waited for.
NeverBusy(c) == FALSE

\* The lock verifier:claim, which only the fixture verifier takes.
VerifierBusy(c) == Adapter = "FIXTURE" /\ serving[c] # "NONE"

ExpiredBy(i) ==
  IF log[i].name \in {"ReservationExpired", "BountyRefunded"} THEN log[i].claim ELSE NoClaim

\* The state of the claim contradicts its expiry: recovery stops for review.
Conflicts(c) ==
  escrow.claim = c \/ job[c] = "SETTLED" \/ report[c] = "AVAILABLE"

Reconcile(i) ==
  LET c == ExpiredBy(i) IN
  /\ log[i].name \in {"ReservationExpired", "BountyRefunded"}
  /\ lock = NoClaim
  /\ recorded' = recorded \cup {i}
  /\ IF c = NoClaim
       THEN UNCHANGED <<job, report>>
       ELSE /\ ~ Conflicts(c)
            /\ ~ VerifierBusy(c)
            /\ job' = [job EXCEPT ![c] = "EXPIRED"]
            /\ report' = [report EXCEPT ![c] =
                            IF @ \in {"HELD", "SEALED"} THEN "RESOLVED" ELSE @]
  /\ IF log[i].name = "BountyRefunded" \/ escrow.state = "FUNDED"
       THEN FollowEvent(i)
       ELSE UNCHANGED bounty
  /\ UNCHANGED <<envVars, chainVars, verifierVars, workerVars, admission, assessment,
                 intent, signatures>>

-----------------------------------------------------------------------------
VerifierStep(c) ==
  \/ \E kind \in {"ADMIT", "ASSESS"} : Serve(c, kind)
  \/ AdmitAgain(c) \/ Admit(c) \/ AssessAgain(c) \/ Assess(c) \/ Refuse(c)

WorkerStep(c) ==
  \/ Start(c) \/ Acquire(c) \/ ReadChain(c)
  \/ RecordAdmissionExpired(c) \/ RequestRecovery(c)
  \/ \E m \in Method :
       \/ BeginStep(c, m) \/ Send(c, m) \/ SaveHash(c, m)
       \/ SaveStep(c, m)
  \/ SaveExternalPayment(c) \/ CloseIntent(c)
  \/ AwaitQuorum(c) \/ PassQuorum(c) \/ ReleaseIfPaid(c)

Next ==
  \/ \E c \in Claim :
       \/ SubmitClaim(c) \/ SignApproval(c)
       \/ WorkerStep(c) \/ Throw(c) \/ Crash(c) \/ VerifierStep(c)
       \/ \E m \in Method : Execute(c, m) \/ PresentedByOther(c, m)
  \/ \E i \in 1 .. Len(log) : Reconcile(i)
  \/ CollectByOther \/ ExpireReservation \/ RefundExpired \/ Tick

Spec == Init /\ [][Next]_vars

\* What liveness assumes of the environment: the queue keeps running a job
\* that has not finished, and runs it within 23 hours of its last request; the
\* verifier answers; a transaction the relayer sent is executed.  Nothing is
\* assumed of people, of the recovery scan, or of anybody else on the chain.
Fairness ==
  \A c \in Claim :
    /\ WF_vars(WorkerStep(c) \/ Throw(c))
    /\ WF_vars(VerifierStep(c))
    /\ \A m \in Method : WF_vars(Execute(c, m)) /\ SF_vars(BeginStep(c, m))

FairSpec == Spec /\ Fairness

-----------------------------------------------------------------------------
Stage == {"idle", "lock", "read", "admission-expired", "reservation-over", "begin",
          "verify", "send", "hash", "receipt", "save-external",
          "reconcile", "quorum", "release"}

ChainState == {"FUNDED", "RESERVED", "QUALIFIED", "PAID", "REFUNDED"}

\* Every variable keeps its type: in particular nobody signs an approval that
\* is already approved (payout-approval-routes.ts, state PENDING).
TypeOK ==
  /\ now \in 0 .. MaxTime
  /\ crashes \in 0 .. MaxCrashes
  /\ escrow \in [state : ChainState, claim : Claim \cup {NoClaim}, expiresAt : Nat]
  /\ log \in Seq([name : EventName, claim : Claim \cup {NoClaim}, amount : Nat])
  /\ tx \in [Claim -> [Method -> {"NONE", "PENDING", "SUCCESS", "REVERTED"}]]
  /\ job \in [Claim -> JobState]
  /\ admission \in [Claim -> [state : {"NONE", "SIGNED", "EXPIRED"}, validUntil : Nat]]
  /\ assessment \in [Claim -> [outcome : {"NONE", "QUALIFIES", "DOES_NOT_QUALIFY"},
                               reward : 0 .. Reward]]
  /\ report \in [Claim -> {"NONE", "HELD", "SEALED", "RESOLVED", "AVAILABLE"}]
  /\ intent \in [Claim -> [Method -> [state : IntentState, hash : BOOLEAN,
                                      validUntil : Nat]]]
  /\ recorded \subseteq 1 .. Len(log)
  /\ bounty \in [state : ChainState, lastEvent : 1 .. Len(log)]
  /\ signatures \in [Claim -> -1 .. RequiredApprovals]
  /\ lock \in Claim \cup {NoClaim}
  /\ at \in [Claim -> Stage \X (Method \cup {"none"})]
  /\ row \in [Claim -> JobState]
  /\ requested \in [Claim -> SUBSET {"ADMIT", "ASSESS"}]
  /\ serving \in [Claim -> {"NONE", "ADMIT", "ASSESS"}]
  /\ seen \in [Claim -> [allowed : BOOLEAN, now : Nat]]

Final(name, c) == Positions(name, c) # {}

\* Once every final event is recorded, the bounty's row agrees with the
\* escrow, in whatever order and however often the claim jobs, the recovery
\* scan and the API recorded them (saveEvent and reconcileRecovery's ordered
\* updates of bounties.chain_state).
ViewConverges == recorded = 1 .. Len(log) => bounty.state = escrow.state

\* A report is opened only for a claim the escrow has paid, and its hold is
\* resolved only for a claim whose reservation is over without a credit: a
\* report is never both, however late the payment and the expiry are recorded
\* (releaseIfPaid, releaseReport and reconcileRecovery).
ReportFollowsChain ==
  \A c \in Claim :
    /\ report[c] = "AVAILABLE" => Final("Paid", c)
    /\ report[c] = "RESOLVED" => ~ Final("ClaimQualified", c) /\ escrow.claim # c

\* A closed transaction intent says what happened: CONFIRMED that its own
\* transaction succeeded; RECONCILED that the claim was paid by another; and
\* EXPIRED that its reservation, if it has not been made, cannot be made any
\* more (saveEvent, step's last update, and the admission's expiry).
IntentsTellTheTruth ==
  \A c \in Claim :
    /\ \A m \in Method : intent[c][m].state = "CONFIRMED" => tx[c][m] = "SUCCESS"
    /\ intent[c]["collectPayment"].state = "RECONCILED" => Final("Paid", c)
    /\ intent[c]["reserveClaim"].state = "EXPIRED" /\ tx[c]["reserveClaim"] # "SUCCESS"
         => now > intent[c]["reserveClaim"].validUntil

\* A claim whose expiry has been recorded leaves no report under a hold: the
\* recovery transaction waits for an assessment in flight, which may commit a
\* held report after the worker gave up on it (reconcileRecovery's verifier
\* lock).
HoldResolved ==
  \A c \in Claim : \A i \in recorded : ExpiredBy(i) = c => report[c] # "HELD"

\* The relayer is asked to collect a payment only after the credit is recorded
\* final and, for a large payout, after the members signed; a crash, a retry or
\* an assessment that was answered twice never skips the gate.
PayoutIsGated ==
  \A c \in Claim :
    tx[c]["collectPayment"] # "NONE" =>
      /\ recorded \cap Positions("ClaimQualified", c) # {}
      /\ NeedsQuorum(c) => HasQuorum(c)

\* The claim which holds the bounty's one projected reservation is the escrow's
\* current claim once every event is recorded; after a refund there is no next
\* one.  The exception is a claim re-admitted by a request that outlived its
\* worker: its admission is then newer than the one its intent carries.  Where
\* another account presented the assessment no job records its event, so the
\* condition stays false and nothing is promised.
SlotFollowsChain ==
  recorded = 1 .. Len(log) /\ escrow.state # "REFUNDED" =>
    \A c \in Claim :
      job[c] \in Projected =>
        escrow.claim = c \/ admission[c].validUntil # intent[c]["reserveClaim"].validUntil

\* A claim the escrow has paid, whoever collected the payment, has its report
\* opened in the end, as long as its assessment was not presented by another
\* account first and a large payout has its signatures (processClaim's findPaid
\* and releaseIfPaid).
PaidIsReleased ==
  \A c \in Claim :
    /\ Final("Paid", c)
    /\ tx[c]["submitAssessment"] = "SUCCESS"
    /\ NeedsQuorum(c) => HasQuorum(c)
    ~> report[c] = "AVAILABLE"

\* Reports are delivered "to protocols upon payout settlement" (README.md:5).
\* It does not hold for one whose assessment another account presents first: the
\* relayer's own transaction reverts, every run of the job then stops at it, and
\* nothing looks for an assessment on the chain as findPaid does for a payment.
EveryPaidReportIsReleased ==
  \A c \in Claim : Final("Paid", c) ~> report[c] = "AVAILABLE"

Slot == INSTANCE BountySlot WITH
          phase     <- escrow.state,
          holder    <- {escrow.claim} \ {NoClaim},
          expiresAt <- escrow.expiresAt,
          spent     <- {c \in Claim : Final("ClaimReserved", c)},
          granted   <- IF escrow.state \in {"QUALIFIED", "PAID"}
                         THEN assessment[escrow.claim].reward ELSE 0

\* Between the worker, its retries, the relayer and everybody else, the chain
\* does what BountySlot promises, as the contract does for each of its bounties:
\* a claim that is sent twice, assessed again or overtaken gets nothing more.
ImplementsBountySlot == Slot!SlotSpec

\* Payouts at or above the threshold "pause for a two-of-N Privy-signed quorum
\* from the organization before settling on-chain" (packages/domain/src/index.ts).
\* It does not hold: the escrow lets anybody collect a qualified claim.
LargePayoutsHaveQuorum ==
  \A c \in Claim : Final("Paid", c) /\ NeedsQuorum(c) => HasQuorum(c)
=============================================================================
