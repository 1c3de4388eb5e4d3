---------------------------- MODULE RecoveryScan ----------------------------
(***************************************************************************)
(* The recovery of one bounty (services/worker/src/recovery-process.ts):   *)
(* a job, started again every minute, that reads the final chain page by   *)
(* page for expiries and refunds, records each of them                     *)
(* (recovery-receipt.ts) and, when the slot or the bounty is overdue, has  *)
(* Circle send expireReservation or refundExpired.  A pass holds the       *)
(* advisory lock claim-lifecycle:<bounty>; the API's retry and its         *)
(* recording of a receipt take the same lock and run between two passes.   *)
(*                                                                         *)
(* One action is one database transaction with the chain reads it depends  *)
(* on, or one call of the provider.  Every read may be answered by a node  *)
(* whose finalized head is behind; logs and receipts up to that head are   *)
(* those of the chain, and final blocks do not change.  The checks of the  *)
(* saved policy and of the saved request against their hashes always hold  *)
(* here and are left out, as is observed_state, which nothing reads.       *)
(***************************************************************************)
EXTENDS Integers, Sequences, FiniteSets

CONSTANTS
  Claim,        \* claims that reserve the bounty, numbers in that order
  Duration,     \* reservationDurationSeconds
  Deadline,     \* settlementDeadline
  PageBlocks,   \* blocks of one page (2000)
  MaxPages,     \* pages of one pass (5)
  MaxAttempts,  \* transactions for one call (5)
  Lag,          \* by how many blocks a node may be behind
  MaxBlocks, MaxTime, MaxFaults, MaxRetries,  \* bounds of the instance
  None          \* no claim, no request

\* expireReservation names the claim it is meant for; what is sent to the
\* contract names the bounty only.
Call == [method : {"expireReservation"}, claim : Claim]
          \cup {[method |-> "refundExpired", claim |-> None]}
Request == [call : Call, attempt : 1 .. MaxAttempts]

RequestState == {"NONE", "PREPARED", "SUBMITTED", "BROADCAST",
                 "CONFIRMED", "FAILED", "RECONCILED", "CANCELLED"}
Status == {"WAITING", "SCANNING", "PREPARED", "CONFIRMING", "RETRYING",
           "NEEDS_REVIEW", "COMPLETE"}
Terminal == {"QUALIFIED", "REFUNDED"}

ASSUME RecoveryAssumption ==
  /\ Claim \subseteq Nat
  /\ None \notin Claim /\ None \notin Status /\ None \notin Call /\ None \notin Request
  /\ {Deadline, PageBlocks, MaxPages, MaxAttempts, MaxBlocks} \subseteq Nat \ {0}
  /\ {Duration, Lag, MaxTime, MaxFaults, MaxRetries} \subseteq Nat
  /\ Duration <= Deadline

VARIABLES
  chain,        \* the bounty after each final block, and the block's events
  request,      \* transaction_intents.state
  active,       \* bounty_recovery.active_intent_id
  age,          \* of the active request without a hash: 1 after 23 hours, 2
                \* when Circle forgot it
  status,       \* bounty_recovery.status
  checkpoint,   \* bounty_recovery.checkpoint_block, 0 for null
  events,       \* chain_events: <<block, index>> of those recorded
  row,          \* bounties.chain_state and last_event_key
  job,          \* the pass that holds the lock
  accepted,     \* transactions Circle made for each request
  mempool,      \* of those, the ones not mined, in order
  lag,          \* by how much a node may be behind now
  faults, retries

dbVars == <<request, active, status, checkpoint, events, row>>
netVars == <<chain, accepted, mempool, lag>>
vars == <<dbVars, netVars, age, job, faults, retries>>

Idle == [at |-> "IDLE", head |-> 0, from |-> 0, pages |-> 0, terminal |-> FALSE,
         due |-> None, result |-> "WAITING"]

\* The funding is the first block of interest: its receipt is where the scan
\* begins.
Block(time, state, claim, expires, by, log) ==
  [time |-> time, state |-> state, claim |-> claim, expires |-> expires,
   by |-> by, log |-> log]

Init ==
  /\ chain = <<Block(0, "FUNDED", None, 0, None, <<>>)>>
  /\ request = [r \in Request |-> "NONE"] /\ active = None /\ age = 0
  /\ status = "WAITING" /\ checkpoint = 0
  /\ events = {} /\ row = [state |-> "FUNDED", last |-> <<1, 0>>]
  /\ job = Idle
  /\ accepted = [r \in Request |-> 0] /\ mempool = <<>> /\ lag = 0
  /\ faults = 0 /\ retries = 0

-----------------------------------------------------------------------------
(* The chain: one call of the escrow, or only time, in each block.  The    *)
(* calls of others stop at MaxBlocks, time at MaxTime.                     *)

Now == chain[Len(chain)]
Expired(claim) == [name |-> "ReservationExpired", claim |-> claim]
Refunded == [name |-> "BountyRefunded", claim |-> None]

Append1(time, state, claim, expires, by, log) ==
  /\ chain' = Append(chain, Block(time, state, claim, expires, by, log))
  /\ lag' = IF lag < Lag THEN lag + 1 ELSE lag

Same(time, by) == Append1(time, Now.state, Now.claim, Now.expires, by, <<>>)

Tick == /\ Now.time < MaxTime
        /\ Same(Now.time + 1, None)
        /\ UNCHANGED <<dbVars, accepted, mempool, age, job, faults, retries>>

\* The next claim reserves the bounty; a claim id is spent once.
Reserve(c) ==
  /\ Len(chain) < MaxBlocks /\ Now.state = "FUNDED" /\ Now.time + Duration <= Deadline
  /\ LET spent == {chain[i].claim : i \in DOMAIN chain}
     IN  c \notin spent /\ \A d \in Claim : d < c => d \in spent
  /\ Append1(Now.time, "RESERVED", c, Now.time + Duration, None, <<>>)
  /\ UNCHANGED <<dbVars, accepted, mempool, age, job, faults, retries>>

\* The assessment pays the claim or gives the bounty back.
Assess(state) ==
  /\ Len(chain) < MaxBlocks /\ Now.state = "RESERVED" /\ Now.time <= Now.expires
  /\ Append1(Now.time, state, IF state = "FUNDED" THEN None ELSE Now.claim, 0, None, <<>>)
  /\ UNCHANGED <<dbVars, accepted, mempool, age, job, faults, retries>>

Executes(method) ==
  IF method = "refundExpired"
  THEN Now.state \in {"FUNDED", "RESERVED"} /\ Now.time > Deadline
  ELSE Now.state = "RESERVED" /\ Now.time > Now.expires

Execute(method, by) ==
  LET freed == IF Now.state = "RESERVED" THEN <<Expired(Now.claim)>> ELSE <<>>
  IN  IF ~Executes(method) THEN Same(Now.time, by)
      ELSE IF method = "refundExpired"
           THEN Append1(Now.time, "REFUNDED", None, 0, by, freed \o <<Refunded>>)
           ELSE Append1(Now.time, "FUNDED", None, 0, by, freed)

\* Anybody may send either call.
Other(method) ==
  /\ Len(chain) < MaxBlocks /\ Executes(method) /\ Execute(method, None)
  /\ UNCHANGED <<dbVars, accepted, mempool, age, job, faults, retries>>

\* The relayer's transactions are mined in the order of its nonces.
Mine ==
  /\ mempool # <<>>
  /\ Execute(Head(mempool).call.method, Head(mempool))
  /\ mempool' = Tail(mempool)
  /\ UNCHANGED <<dbVars, accepted, age, job, faults, retries>>

\* A node answers with a finalized head that may be behind.
View == {b \in 1 .. Len(chain) : b + lag >= Len(chain)}

CatchUp ==
  /\ lag > 0 /\ lag' = 0
  /\ UNCHANGED <<dbVars, chain, accepted, mempool, age, job, faults, retries>>

Happened(r) == {b \in DOMAIN chain : chain[b].by = r}

-----------------------------------------------------------------------------
(* Recording a final transaction (reconcileRecovery): the events of block  *)
(* b, proved against the state at the view v.  The result is refused, as a *)
(* whole, with the status the error leads to.                              *)

RecoveryEvents(b) == {<<b, i>> : i \in DOMAIN chain[b].log}
LogOf(e) == chain[e[1]].log[e[2]]

Older(d, e) == d[1] < e[1] \/ (d[1] = e[1] /\ d[2] < e[2])

Refusal(b, v) ==
  IF v < b THEN "RETRYING"
  ELSE IF \/ RecoveryEvents(b) = {}
          \/ \E e \in RecoveryEvents(b) :
               IF LogOf(e).name = "BountyRefunded" THEN chain[v].state # "REFUNDED"
                                                   ELSE chain[v].claim = LogOf(e).claim
       THEN "NEEDS_REVIEW"
  ELSE None

\* A faulty variant: whichever event is recorded last is written.
ReplacesUnordered(e, v) ==
  LogOf(e).name = "ReservationExpired" => chain[v].state = "FUNDED"

\* An expiry replaces the row's state only while the slot is free, a refund
\* always; neither replaces what a later event has written.
Replaces(e, v) ==
  /\ LogOf(e).name = "ReservationExpired" => chain[v].state = "FUNDED"
  /\ Older(row.last, e)

RowOf(e) ==
  [state |-> IF LogOf(e).name = "ReservationExpired" THEN "FUNDED" ELSE "REFUNDED", last |-> e]

Latest(S) == CHOOSE e \in S : \A d \in S \ {e} : Older(d, e)

\* The transactions of several blocks, each proved against a view of its own,
\* in the order of the blocks: the last event that replaces the row stays.
ReconcileAll(blocks, view) ==
  LET found == UNION {RecoveryEvents(b) : b \in blocks}
      newer == {e \in found : Replaces(e, view[e[1]])}
  IN  /\ events' = events \cup found
      /\ row' = IF newer = {} THEN row ELSE RowOf(Latest(newer))

-----------------------------------------------------------------------------
(* One pass of the job.                                                    *)

Goto(at) == job' = [Idle EXCEPT !.at = at]
\* status(...) or the catch block writes the result and the pass is over.
Result(s) == job' = [Idle EXCEPT !.at = "END", !.result = s]

End ==
  /\ job.at = "END"
  /\ status' = job.result /\ job' = Idle
  /\ UNCHANGED <<request, active, checkpoint, events, row, netVars, age, faults, retries>>

\* The bounty is read; a checkpoint above what the node knows is a conflict.
Start(v) ==
  /\ job.at = "IDLE" /\ status # "NEEDS_REVIEW"
  /\ job' = IF checkpoint > v THEN [Idle EXCEPT !.at = "END", !.result = "NEEDS_REVIEW"]
            ELSE [Idle EXCEPT !.at = "SCAN", !.head = v, !.from = checkpoint + 1,
                              !.pages = MaxPages, !.terminal = chain[v].state \in Terminal]
  /\ UNCHANGED <<dbVars, netVars, age, faults, retries>>

PageEnd == LET last == job.from + PageBlocks - 1
           IN  IF last < job.head THEN last ELSE job.head
PageHits == {b \in job.from .. PageEnd : RecoveryEvents(b) # {}}

\* A faulty variant: a page that was refused is passed over.
ScanPageSkipping ==
  /\ job.at = "SCAN" /\ job.from <= job.head /\ job.pages > 0
  /\ \E view \in [PageHits -> View] :
       LET good == {b \in PageHits : Refusal(b, view[b]) = None}
       IN  /\ ReconcileAll(good, view)
           /\ checkpoint' = PageEnd
           /\ job' = [job EXCEPT !.from = PageEnd + 1, !.pages = @ - 1]
  /\ UNCHANGED <<request, active, status, netVars, age, faults, retries>>

\* The events of a page and its checkpoint are one transaction.
ScanPage ==
  /\ job.at = "SCAN" /\ job.from <= job.head /\ job.pages > 0
  /\ \E view \in [PageHits -> View] :
       LET refusals == {Refusal(b, view[b]) : b \in PageHits} \ {None}
       IN  IF refusals # {}
           THEN /\ \E s \in refusals : Result(s)
                /\ UNCHANGED <<events, row, checkpoint>>
           ELSE /\ ReconcileAll(PageHits, view)
                /\ checkpoint' = PageEnd
                /\ job' = [job EXCEPT !.from = PageEnd + 1, !.pages = @ - 1]
  /\ UNCHANGED <<request, active, status, netVars, age, faults, retries>>

PausePass ==
  /\ job.at = "SCAN" /\ job.from <= job.head /\ job.pages = 0
  /\ Result("SCANNING")
  /\ UNCHANGED <<dbVars, netVars, age, faults, retries>>

DueRecovery(v) ==
  LET s == chain[v]
  IN  IF s.state \in {"FUNDED", "RESERVED"} /\ s.time > Deadline
      THEN [method |-> "refundExpired", claim |-> None]
      ELSE IF s.state = "RESERVED" /\ s.time > s.expires
           THEN [method |-> "expireReservation", claim |-> s.claim]
           ELSE None

Attempts(call) ==
  Cardinality({n \in 1 .. MaxAttempts : request[[call |-> call, attempt |-> n]] # "NONE"})

\* A faulty variant: what the second read says is enough.
RestingStatusEager(v) == IF chain[v].state \in Terminal THEN "COMPLETE" ELSE "WAITING"

\* Completion needs the bounty to have been final before the scan began too.
RestingStatus(v) ==
  IF chain[v].state \notin Terminal THEN "WAITING"
  ELSE IF job.terminal THEN "COMPLETE" ELSE "SCANNING"

\* The bounty is read a second time.
Rest(v) ==
  /\ job.at = "SCAN" /\ job.from > job.head
  /\ active = None /\ DueRecovery(v) = None
  /\ Result(RestingStatus(v))
  /\ UNCHANGED <<dbVars, netVars, age, faults, retries>>

Prepare(v) ==
  /\ job.at = "SCAN" /\ job.from > job.head
  /\ active = None /\ DueRecovery(v) # None
  /\ LET call == DueRecovery(v)
         n == Attempts(call) + 1
     IN  IF n > MaxAttempts
         THEN Result("NEEDS_REVIEW") /\ UNCHANGED <<request, active, status, age>>
         ELSE /\ request' = [request EXCEPT ![[call |-> call, attempt |-> n]] = "PREPARED"]
              /\ active' = [call |-> call, attempt |-> n]
              /\ age' = 0 /\ status' = "PREPARED"
              /\ job' = [Idle EXCEPT !.at = "CHECK", !.due = call]
  /\ UNCHANGED <<checkpoint, events, row, netVars, faults, retries>>

\* A request is under way already.
Resume(v) ==
  /\ job.at = "SCAN" /\ job.from > job.head /\ active # None
  /\ job' = [Idle EXCEPT !.at = "CHECK", !.due = DueRecovery(v)]
  /\ UNCHANGED <<dbVars, netVars, age, faults, retries>>

\* A faulty variant: the request stays the active one.
FinishKeeping(s) == request' = [request EXCEPT ![active] = s] /\ UNCHANGED <<active, age>>

Finish(s) == request' = [request EXCEPT ![active] = s] /\ active' = None /\ age' = 0

Proves(log, call) ==
  IF call.method = "refundExpired" THEN log = Refunded ELSE log = Expired(call.claim)
Completed(call) == \E e \in events : Proves(LogOf(e), call)

\* A faulty variant: a request that was perhaps sent is given up.
MayCancelAny == request[active] \in {"PREPARED", "SUBMITTED"}

MayCancel == request[active] = "PREPARED"

\* A request without a saved hash: its event was recorded by somebody else's
\* transaction, it is too old to send again, it is no longer what is due, or
\* it is sent.
CheckRequest ==
  /\ job.at = "CHECK" /\ request[active] \in {"PREPARED", "SUBMITTED"}
  /\ \/ /\ Completed(active.call)
        /\ Finish("RECONCILED") /\ Result("WAITING")
     \/ /\ ~Completed(active.call) /\ age > 0
        /\ Result("NEEDS_REVIEW") /\ UNCHANGED <<request, active, age>>
     \/ /\ ~Completed(active.call) /\ age = 0 /\ job.due # active.call
        /\ IF MayCancel
           THEN Finish("CANCELLED") /\ Result("WAITING")
           ELSE Result("NEEDS_REVIEW") /\ UNCHANGED <<request, active, age>>
     \/ /\ ~Completed(active.call) /\ age = 0 /\ job.due = active.call
        /\ request' = [request EXCEPT ![active] = "SUBMITTED"]
        /\ Goto("SEND") /\ UNCHANGED <<active, age>>
  /\ UNCHANGED <<status, checkpoint, events, row, netVars, faults, retries>>

SkipCheck ==
  /\ job.at = "CHECK" /\ request[active] = "BROADCAST"
  /\ Goto("RECEIPT")
  /\ UNCHANGED <<dbVars, netVars, age, faults, retries>>

\* Circle makes one transaction for one idempotency key, as long as it
\* remembers the key.
Accept(r) ==
  IF accepted[r] = 0 \/ age = 2
  THEN accepted' = [accepted EXCEPT ![r] = @ + 1] /\ mempool' = Append(mempool, r)
  ELSE UNCHANGED <<accepted, mempool>>

Send ==
  /\ job.at = "SEND"
  /\ Accept(active)
  /\ request' = [request EXCEPT ![active] = "BROADCAST"]
  /\ Goto("RECEIPT") /\ age' = 0
  /\ UNCHANGED <<active, status, checkpoint, events, row, chain, lag, faults, retries>>

\* The response is lost, or the worker ends before the hash is saved.
LoseResponse ==
  /\ job.at = "SEND" /\ faults < MaxFaults
  /\ Accept(active)
  /\ Result("RETRYING") /\ faults' = faults + 1
  /\ UNCHANGED <<dbVars, chain, lag, age, retries>>

\* The final receipt of the saved hash, and its events recorded with the end
\* of the request.
ReadReceipt(v, w) ==
  /\ job.at = "RECEIPT"
  /\ LET found == {b \in Happened(active) : b <= v}
     IN  IF found = {} THEN Result("CONFIRMING") /\ UNCHANGED <<request, active, age, events, row>>
         ELSE LET b == CHOOSE x \in found : TRUE
              IN  \/ /\ chain[b].log = <<>>
                     /\ Finish("FAILED") /\ Result("RETRYING")
                     /\ UNCHANGED <<events, row>>
                  \/ /\ chain[b].log # <<>>
                     /\ \A i \in DOMAIN chain[b].log : ~Proves(chain[b].log[i], active.call)
                     /\ Result("NEEDS_REVIEW") /\ UNCHANGED <<request, active, age, events, row>>
                  \/ /\ \E i \in DOMAIN chain[b].log : Proves(chain[b].log[i], active.call)
                     /\ IF Refusal(b, w) # None
                        THEN Result(Refusal(b, w)) /\ UNCHANGED <<request, active, age, events, row>>
                        ELSE /\ ReconcileAll({b}, [x \in {b} |-> w])
                             /\ Finish("CONFIRMED") /\ Result("WAITING")
  /\ UNCHANGED <<status, checkpoint, netVars, faults, retries>>

\* The worker ends anywhere in a pass.
Crash ==
  /\ job.at # "IDLE" /\ faults < MaxFaults
  /\ job' = Idle /\ faults' = faults + 1
  /\ UNCHANGED <<dbVars, netVars, age, retries>>

\* A read or a write fails; the pass ends in RETRYING.
Fail ==
  /\ job.at \notin {"IDLE", "END"} /\ faults < MaxFaults
  /\ Result("RETRYING") /\ faults' = faults + 1
  /\ UNCHANGED <<dbVars, netVars, age, retries>>

\* 23 hours pass, then the 24 after which Circle forgets the key; a pass
\* takes nine minutes at most.
Grow ==
  /\ active # None /\ request[active] \in {"PREPARED", "SUBMITTED"}
  /\ age < 2 /\ (age = 1 => job.at # "SEND")
  /\ age' = age + 1
  /\ UNCHANGED <<dbVars, netVars, job, faults, retries>>

-----------------------------------------------------------------------------
(* The API, between two passes.                                            *)

RetryRecovery ==
  /\ job.at = "IDLE" /\ retries < MaxRetries
  /\ status' = "WAITING" /\ retries' = retries + 1
  /\ UNCHANGED <<request, active, checkpoint, events, row, netVars, age, job, faults>>

RecordReceipt(b, v) ==
  /\ job.at = "IDLE" /\ Refusal(b, v) = None
  /\ ReconcileAll({b}, [x \in {b} |-> v])
  /\ UNCHANGED <<request, active, status, checkpoint, netVars, age, job, faults, retries>>

-----------------------------------------------------------------------------
Pass ==
  \/ End \/ ScanPage \/ PausePass \/ CheckRequest \/ SkipCheck \/ Send
  \/ \E v \in View : Rest(v) \/ Prepare(v) \/ Resume(v)
  \/ \E v, w \in View : ReadReceipt(v, w)

Next ==
  \/ Pass
  \/ \E v \in View : Start(v)
  \/ LoseResponse \/ Crash \/ Fail \/ Grow
  \/ Tick \/ Mine \/ CatchUp
  \/ \E c \in Claim : Reserve(c)
  \/ \E s \in {"FUNDED", "QUALIFIED"} : Assess(s)
  \/ \E m \in {"refundExpired", "expireReservation"} : Other(m)
  \/ RetryRecovery
  \/ \E b \in DOMAIN chain, v \in View : RecordReceipt(b, v)

Spec == Init /\ [][Next]_vars

\* A faulty variant: a bounty whose last check failed is not looked at again.
DispatchHealthy == status \in {"WAITING", "SCANNING"} /\ \E v \in View : Start(v)

\* recovery-dispatch runs every minute and sends a job for every bounty that
\* is not finished; the passes run, the network mines and nodes catch up.
Dispatch == status # "COMPLETE" /\ \E v \in View : Start(v)

FairSpec ==
  /\ Spec
  /\ WF_vars(Dispatch) /\ WF_vars(Pass)
  /\ WF_vars(Tick) /\ WF_vars(Mine) /\ WF_vars(CatchUp)

-----------------------------------------------------------------------------
(* Properties.                                                             *)

TypeOK ==
  /\ \A i \in DOMAIN chain : chain[i].state \in {"FUNDED", "RESERVED"} \cup Terminal
  /\ request \in [Request -> RequestState] /\ active \in Request \cup {None}
  /\ age \in 0 .. 2 /\ status \in Status /\ checkpoint \in 0 .. Len(chain)
  /\ events \subseteq UNION {RecoveryEvents(b) : b \in DOMAIN chain}
  /\ row.state \in {"FUNDED", "REFUNDED"}
  /\ job.at \in {"IDLE", "SCAN", "CHECK", "SEND", "RECEIPT", "END"}
  /\ job.at \in {"CHECK", "SEND", "RECEIPT"} => active # None
  /\ \A r \in Request : request[r] \in {"PREPARED", "SUBMITTED", "BROADCAST"} <=> r = active
  /\ lag \in 0 .. Lag /\ faults \in 0 .. MaxFaults /\ retries \in 0 .. MaxRetries

Recorded(upTo) == \A b \in 1 .. upTo : RecoveryEvents(b) \subseteq events

\* The checkpoint of a scan that crashed, was refused half way or read from
\* a node that was behind never passes an event that is not recorded
\* (ScanPage: the page's events and its checkpoint are one transaction).
CheckpointCovers == Recorded(checkpoint)

\* A recovery that says COMPLETE, and so is not looked at again, has recorded
\* every expiry and refund of the bounty, although the bounty is read before
\* the scan and again after it, perhaps from nodes at different blocks.
CompleteMeansRecorded ==
  status = "COMPLETE" =>
    /\ Now.state \in Terminal /\ Recorded(Len(chain))
    /\ Now.state = "REFUNDED" => row.state = "REFUNDED"

\* Whatever the order in which the scan and the API record them, an old
\* expiry never brings a refunded bounty back (reconcileRecovery's ordered
\* update and its look at the present state).
RefundIsFinal ==
  (\E e \in events : LogOf(e) = Refunded) => row.state = "REFUNDED"

\* What a request ended with is what happened: one was confirmed by its own
\* transaction and its recorded events, failed because that reverted, was
\* reconciled with a recorded event, or was cancelled and never reached
\* Circle.  No request is sent as two transactions.
RequestsTellTheTruth ==
  \A r \in Request :
    /\ accepted[r] <= 1
    /\ request[r] = "CONFIRMED" =>
         \E b \in Happened(r) : RecoveryEvents(b) \subseteq events /\ Completed(r.call)
    /\ request[r] = "FAILED" => \E b \in Happened(r) : chain[b].log = <<>>
    /\ request[r] = "RECONCILED" => Completed(r.call)
    /\ request[r] = "CANCELLED" => accepted[r] = 0

\* Every bounty comes to rest: it is paid or refunded and all its expiries
\* and refunds recorded, or an operator is asked (recoveryJobs' dispatch).
RecoveryFinishes == <>(status \in {"COMPLETE", "NEEDS_REVIEW"})

=============================================================================
