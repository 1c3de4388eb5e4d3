---------------------- MODULE OrganizationWalletProofs ----------------------
(***************************************************************************)
(* What the two kinds of job of an organization's wallet keep, for any      *)
(* number of requests and drafts, and any crashes and dropped transactions. *)
(***************************************************************************)
EXTENDS OrganizationWallet, TLAPS, FiniteSetTheorems

-----------------------------------------------------------------------------
(* The inductive invariant.                                                *)

FundingAt == {"STEP", "SIGN", "SEND", "SENT", "RECEIPT", "REVERTED", "RECORD"}
OwnerAt == {"STEP", "SIGN", "WIDEN", "REPAIR", "RESTORE", "REPAIRED", "RESTORED",
            "SEND", "SENT", "RECEIPT", "REVERTED"}

\* A job works on a request that is confirmed and not over: what ends a request
\* ends its job too.
JobIsPending ==
  job # NoJob =>
    \/ /\ req \in Funding /\ job.at \in FundingAt /\ job.step \in {"APPROVE", "FUND"}
       /\ state[req] \in FundingPending
    \/ /\ req \in Command /\ job.at \in OwnerAt /\ job.step = "OWNER"
       /\ state[req] \in OwnerPending

\* What a job found in an earlier step still holds.
JobRemembers ==
  /\ job.at \in {"WIDEN", "SIGN"} => intent[tx] = "AWAITING_SIGNATURE"
  /\ job.at \in {"SEND", "SENT", "RECEIPT"} => intent[tx] # "NONE"
  /\ job.at = "REVERTED" => mined[tx] = "REVERTED"
  /\ job.at = "RECORD" => job.step = "FUND" /\ mined[tx] = "OK"

\* A widened policy has a mark, and a mark a request that is not over.  While a
\* command's job may widen the policy the mark is set, after that the policy is
\* narrow, and everywhere else there is no mark.
MarkIsKept ==
  /\ rule # Nobody => marked[rule]
  /\ \A c \in Command : marked[c] => state[c] \in OwnerPending
  /\ req \in Command =>
       /\ job.at \in {"REPAIR", "WIDEN", "SIGN", "RESTORE"} => marked[req]
       /\ job.at \in {"REPAIRED", "RESTORED"} => rule = Nobody
       /\ job.at \in {"STEP", "SEND", "SENT", "RECEIPT", "REVERTED"} => ~marked[req]

JobInv == JobIsPending /\ JobRemembers /\ MarkIsKept

\* A prepared transaction that is not final yet.
Outstanding(u) == intent[u] # "NONE" /\ mined[u] = "NO"

\* There is at most one, its nonce is the wallet's next, and the network knows
\* no other.
OneOutstanding ==
  /\ \A u \in Tx : Outstanding(u) => nonce[u] = next
  /\ \A u, v \in Tx : Outstanding(u) /\ Outstanding(v) => u = v
  /\ \A u \in mempool : Outstanding(u)

\* An intent that is resolved has its outcome.
ResolvedIsMined == \A u \in Tx : intent[u] \in {"CONFIRMED", "FAILED"} => mined[u] # "NO"

ChainInv == OneOutstanding /\ ResolvedIsMined /\ AllowanceIsKept

\* Something is prepared only for requests that were confirmed, and these have
\* their draft.
PreparedIsConfirmed ==
  \A u \in Tx : intent[u] # "NONE" =>
    state[u[1]] \notin {"NONE", "AWAITING_AUTHORIZATION", "CANCELLED", "EXPIRED"}

RequestedHasDraft == \A f \in Funding : state[f] # "NONE" => draft[f] \in Draft

RowInv == PreparedIsConfirmed /\ RequestedHasDraft /\ OutcomesAreTrue

IInv == TypeOK /\ JobInv /\ ChainInv /\ RowInv

-----------------------------------------------------------------------------
(* Lemmas.                                                                 *)

\* The keys of a request's transactions.
LEMMA Keys ==
  /\ \A f \in Funding : f \in Request /\ f \notin Command /\ f # Nobody
       /\ <<f, "APPROVE">> \in Tx /\ <<f, "FUND">> \in Tx
  /\ \A c \in Command : c \in Request /\ c \notin Funding /\ c # Nobody /\ <<c, "OWNER">> \in Tx
  /\ \A u \in Tx : /\ u = <<u[1], u[2]>> /\ u[1] \in Request
                   /\ u[1] \in Funding => u[2] \in {"APPROVE", "FUND"}
                   /\ u[1] \in Command => u[2] = "OWNER"
<1>1. \A f \in Funding : f \in Request /\ f \notin Command /\ f # Nobody
  BY WalletAssumption DEF Request
<1>2. \A c \in Command : c \in Request /\ c \notin Funding /\ c # Nobody
  BY WalletAssumption DEF Request
<1>3. \A f \in Funding : <<f, "APPROVE">> \in Tx /\ <<f, "FUND">> \in Tx
  BY <1>1 DEF Tx, StepOf
<1>4. \A c \in Command : <<c, "OWNER">> \in Tx
  BY <1>2 DEF Tx, StepOf
<1>5. ASSUME NEW u \in Tx
      PROVE  /\ u = <<u[1], u[2]>> /\ u[1] \in Request
             /\ u[1] \in Funding => u[2] \in {"APPROVE", "FUND"}
             /\ u[1] \in Command => u[2] = "OWNER"
  <2>1. u \in Request \X {"APPROVE", "FUND", "OWNER"} /\ u[2] \in StepOf(u[1])
    BY DEF Tx
  <2> QED BY <2>1, <1>2 DEF StepOf
<1> QED BY <1>1, <1>2, <1>3, <1>4, <1>5

\* The transaction a job works on.
LEMMA JobKey ==
  ASSUME JobIsPending, job # NoJob
  PROVE  /\ req \in Request /\ tx \in Tx /\ tx[1] = req /\ tx[2] = job.step
         /\ tx = <<req, job.step>> /\ req # Nobody
         /\ req \in Funding \/ req \in Command
<1>1. tx = <<req, job.step>>
  BY DEF tx, req
<1> QED BY <1>1, Keys DEF JobIsPending

\* Without a job there is nothing it could have to remember.
LEMMA Jobless ==
  ASSUME job = NoJob
  PROVE  JobIsPending /\ JobRemembers /\ req = Nobody /\ job.at = "IDLE"
BY DEF NoJob, JobIsPending, JobRemembers, req

\* A job that moves on works on the same transaction.
LEMMA Moving ==
  ASSUME TypeOK, NEW at, Goto(at), at # "IDLE"
  PROVE  /\ job'.at = at /\ job'.of = job.of /\ job'.step = job.step
         /\ req' = req /\ tx' = tx /\ job' # NoJob
<1>1. job'.at = at /\ job'.of = job.of /\ job'.step = job.step
  BY DEF TypeOK, Goto
<1> QED BY <1>1 DEF req, tx, NoJob

\* Parts of the invariant that a step leaves alone with their variables.
LEMMA ChainFrame ==
  ASSUME ChainInv, UNCHANGED <<intent, nonce, mined, mempool, next, allowance, draft>>
  PROVE  ChainInv'
BY DEF ChainInv, OneOutstanding, Outstanding, ResolvedIsMined, AllowanceIsKept, Reward

\* Requests, their drafts and outcomes, likewise.
LEMMA RowFrame ==
  ASSUME RowInv, UNCHANGED <<state, intent, mined, draft>>
  PROVE  RowInv'
BY DEF RowInv, PreparedIsConfirmed, RequestedHasDraft, OutcomesAreTrue

\* When a job ends, marks and requests have to fit each other, no more.
LEMMA JobEnds ==
  ASSUME JobInv, job' = NoJob, UNCHANGED <<rule, marked>>,
         \A c \in Command : marked[c] => state'[c] \in OwnerPending
  PROVE  JobInv'
<1>1. JobIsPending' /\ JobRemembers'
  BY DEF NoJob, JobIsPending, JobRemembers
<1>2. req' = Nobody /\ Nobody \notin Command
  BY Keys DEF NoJob, req
<1>3. MarkIsKept'
  BY <1>2 DEF JobInv, MarkIsKept
<1> QED BY <1>1, <1>3 DEF JobInv

-----------------------------------------------------------------------------
(* The first states.                                                       *)

\* Nothing is requested, prepared or marked.
LEMMA InitIInv == Init => IInv
<1> SUFFICES ASSUME Init PROVE IInv
  OBVIOUS
<1>1. TypeOK
  BY WalletAssumption DEF Init, TypeOK, NoJob, FundingState, OwnerState, IntentState, Request
<1>2. JobInv
  BY Jobless, Keys DEF Init, JobInv, MarkIsKept
<1>3. ChainInv
  BY Keys DEF Init, ChainInv, OneOutstanding, Outstanding, ResolvedIsMined, AllowanceIsKept
<1>4. RowInv
  BY Keys DEF Init, RowInv, PreparedIsConfirmed, RequestedHasDraft, OutcomesAreTrue
<1> QED BY <1>1, <1>2, <1>3, <1>4 DEF IInv

-----------------------------------------------------------------------------
(* The members, the network and the clock.                                 *)

\* A member's step changes no request that a job works on, nor one that is
\* marked or has something prepared.
LEMMA RowMoves ==
  ASSUME IInv,
         UNCHANGED <<faults, lapsed, rule, job, marked, intent, nonce, chainVars>>,
         NEW r \in Request, NEW s,
         r \in Funding => s \in FundingState /\ s # "NONE" /\ draft'[r] \in Draft,
         r \in Command => s \in OwnerState,
         s \notin {"FUNDED", "COMPLETE", "FAILED"},
         state[r] \in {"NONE", "AWAITING_AUTHORIZATION"}
           \/ (job = NoJob /\ r \in Command /\ ~marked[r] /\ intent[<<r, "OWNER">>] = "NONE"),
         state' \in [Request -> FundingState \cup OwnerState],
         state'[r] = s,
         \A q \in Request \ {r} :
           state'[q] = state[q] \/ (state[q] = "AWAITING_AUTHORIZATION" /\ state'[q] = "EXPIRED"),
         draft' \in [Funding -> Draft \cup {Nobody}],
         \A f \in Funding \ {r} : draft'[f] = draft[f],
         r \in Funding => state[r] = "NONE" \/ draft'[r] = draft[r],
         kind' \in [Command -> Kind \cup {"NONE"}]
  PROVE  IInv'
<1>1. \A q \in Request : state[q] \in FundingPending \cup OwnerPending =>
        state'[q] = state[q] \/ (job = NoJob /\ q = r /\ r \in Command /\ ~marked[r])
  BY DEF FundingPending, OwnerPending
<1>2. \A u \in Tx : intent[u] # "NONE" => u[1] # r /\ state'[u[1]] = state[u[1]]
  <2> SUFFICES ASSUME NEW u \in Tx, intent[u] # "NONE" PROVE u[1] # r /\ state'[u[1]] = state[u[1]]
    OBVIOUS
  <2>1. state[u[1]] \notin {"NONE", "AWAITING_AUTHORIZATION", "CANCELLED", "EXPIRED"}
    BY DEF IInv, RowInv, PreparedIsConfirmed
  <2>2. u[1] = r => r \notin Command
    BY <2>1, Keys
  <2>3. u[1] # r
    BY <2>1, <2>2
  <2> QED BY <2>1, <2>3, Keys
<1>3. TypeOK'
  <2>1. \A f \in Funding : state'[f] \in FundingState
    BY Keys DEF IInv, TypeOK, FundingState
  <2>2. \A c \in Command : state'[c] \in OwnerState
    <3>1. \A c \in Command : c \in Request /\ state[c] \in OwnerState
      BY Keys DEF IInv, TypeOK
    <3> QED BY <3>1 DEF OwnerState
  <2> QED BY <2>1, <2>2 DEF IInv, TypeOK, chainVars
<1>4. JobInv'
  <2>1. JobIsPending'
    BY <1>1, JobKey DEF IInv, JobInv, JobIsPending, req
  <2>2. JobRemembers'
    BY DEF IInv, JobInv, JobRemembers, tx, chainVars
  <2>3. \A c \in Command : marked[c] => state'[c] \in OwnerPending
    <3> SUFFICES ASSUME NEW c \in Command, marked[c] PROVE state'[c] \in OwnerPending
      OBVIOUS
    <3>1. c \in Request /\ state[c] \in OwnerPending
      BY Keys DEF IInv, JobInv, MarkIsKept
    <3> QED BY <1>1, <3>1
  <2>4. MarkIsKept'
    BY <2>3 DEF IInv, JobInv, MarkIsKept, req
  <2> QED BY <2>1, <2>2, <2>4 DEF JobInv
<1>5. ChainInv'
  <2>1. \A f \in Funding : intent[<<f, "FUND">>] # "NONE" => draft'[f] = draft[f]
    BY <1>2, Keys
  <2> QED BY <2>1 DEF IInv, ChainInv, OneOutstanding, Outstanding, ResolvedIsMined, AllowanceIsKept,
          Reward, chainVars
<1>6. RowInv'
  <2>1. PreparedIsConfirmed'
    BY <1>2 DEF IInv, RowInv, PreparedIsConfirmed
  <2>2. RequestedHasDraft'
    BY Keys DEF IInv, RowInv, RequestedHasDraft
  <2>3. OutcomesAreTrue'
    <3>1. ASSUME NEW f \in Funding
          PROVE  /\ state'[f] = "FUNDED" => mined[<<f, "FUND">>] = "OK"
                 /\ state'[f] = "FAILED" => \E step \in {"APPROVE", "FUND"} : mined[<<f, step>>] = "REVERTED"
                 /\ state'[f] \in {"CANCELLED", "EXPIRED"} => intent[<<f, "APPROVE">>] = "NONE"
      <4>1. /\ state'[f] = "FUNDED" => state[f] = "FUNDED"
            /\ state'[f] = "FAILED" => state[f] = "FAILED"
        BY Keys
      <4>2. ASSUME intent[<<f, "APPROVE">>] # "NONE" PROVE state'[f] \notin {"CANCELLED", "EXPIRED"}
        <5> DEFINE u == <<f, "APPROVE">>
        <5>1. u \in Tx /\ u[1] = f
          BY Keys
        <5>2. intent[u] # "NONE"
          BY <4>2
        <5> HIDE DEF u
        <5> QED BY <5>1, <5>2, <1>2 DEF IInv, RowInv, PreparedIsConfirmed
      <4> QED BY <4>1, <4>2 DEF IInv, RowInv, OutcomesAreTrue
    <3>2. ASSUME NEW c \in Command
          PROVE  /\ state'[c] = "COMPLETE" => mined[<<c, "OWNER">>] = "OK"
                 /\ state'[c] = "FAILED" => mined[<<c, "OWNER">>] = "REVERTED"
                 /\ state'[c] \in {"CANCELLED", "EXPIRED"} => intent[<<c, "OWNER">>] = "NONE"
      <4>1. /\ state'[c] = "COMPLETE" => state[c] = "COMPLETE"
            /\ state'[c] = "FAILED" => state[c] = "FAILED"
        BY Keys
      <4>2. ASSUME intent[<<c, "OWNER">>] # "NONE" PROVE state'[c] \notin {"CANCELLED", "EXPIRED"}
        <5> DEFINE u == <<c, "OWNER">>
        <5>1. u \in Tx /\ u[1] = c
          BY Keys
        <5>2. intent[u] # "NONE"
          BY <4>2
        <5> HIDE DEF u
        <5> QED BY <5>1, <5>2, <1>2 DEF IInv, RowInv, PreparedIsConfirmed
      <4> QED BY <4>1, <4>2 DEF IInv, RowInv, OutcomesAreTrue
    <3> QED BY <3>1, <3>2 DEF OutcomesAreTrue, chainVars
  <2> QED BY <2>1, <2>2, <2>3 DEF RowInv
<1> QED BY <1>3, <1>4, <1>5, <1>6 DEF IInv

\* Members request, confirm and cancel.
LEMMA MemberKeeps ==
  ASSUME IInv, Member
  PROVE  IInv'
<1>0. state \in [Request -> FundingState \cup OwnerState]
  BY DEF IInv, TypeOK
<1>1. ASSUME NEW f \in Funding, NEW d \in Draft, RequestFunding(f, d) PROVE IInv'
  <2>1. /\ state' \in [Request -> FundingState \cup OwnerState]
        /\ state'[f] = "AWAITING_AUTHORIZATION" /\ state[f] = "NONE"
        /\ \A q \in Request \ {f} :
             state'[q] = state[q] \/ (state[q] = "AWAITING_AUTHORIZATION" /\ state'[q] = "EXPIRED")
    BY <1>0, <1>1, Keys DEF RequestFunding, Expired, FundingState
  <2>2. /\ draft' \in [Funding -> Draft \cup {Nobody}] /\ draft'[f] \in Draft
        /\ \A g \in Funding \ {f} : draft'[g] = draft[g]
    BY <1>1 DEF IInv, TypeOK, RequestFunding
  <2>3. /\ kind' \in [Command -> Kind \cup {"NONE"}]
        /\ UNCHANGED <<faults, lapsed, rule, job, marked, intent, nonce, chainVars>>
    BY <1>1 DEF IInv, TypeOK, RequestFunding
  <2>4. f \in Request /\ f \notin Command /\ "AWAITING_AUTHORIZATION" \in FundingState
    BY Keys DEF FundingState
  <2> QED BY <2>1, <2>2, <2>3, <2>4, RowMoves
<1>2. ASSUME NEW c \in Command, NEW k \in Kind, RequestOwner(c, k) PROVE IInv'
  <2>1. /\ state' \in [Request -> FundingState \cup OwnerState]
        /\ state'[c] = "AWAITING_AUTHORIZATION" /\ state[c] = "NONE"
        /\ \A q \in Request \ {c} :
             state'[q] = state[q] \/ (state[q] = "AWAITING_AUTHORIZATION" /\ state'[q] = "EXPIRED")
    BY <1>0, <1>2, Keys DEF RequestOwner, Expired, FundingState
  <2>2. /\ kind' \in [Command -> Kind \cup {"NONE"}]
        /\ draft' = draft /\ draft \in [Funding -> Draft \cup {Nobody}]
        /\ UNCHANGED <<faults, lapsed, rule, job, marked, intent, nonce, chainVars>>
    BY <1>2 DEF IInv, TypeOK, RequestOwner
  <2>3. c \in Request /\ c \notin Funding /\ "AWAITING_AUTHORIZATION" \in OwnerState
    BY Keys DEF OwnerState
  <2> QED BY <2>1, <2>2, <2>3, RowMoves
<1>3. ASSUME NEW r \in Request, NEW s, MoveRow(r, s),
             s \in {"QUEUED", "CANCELLED"},
             \/ state[r] = "AWAITING_AUTHORIZATION"
             \/ job = NoJob /\ r \in Command /\ ~marked[r] /\ intent[<<r, "OWNER">>] = "NONE"
      PROVE  IInv'
  <2>1. /\ state' \in [Request -> FundingState \cup OwnerState]
        /\ state'[r] = s /\ \A q \in Request \ {r} : state'[q] = state[q]
    BY <1>0, <1>3 DEF MoveRow, FundingState, OwnerState
  <2>2. /\ draft' = draft /\ draft \in [Funding -> Draft \cup {Nobody}]
        /\ kind' \in [Command -> Kind \cup {"NONE"}]
        /\ UNCHANGED <<faults, lapsed, rule, job, marked, intent, nonce, chainVars>>
    BY <1>3 DEF IInv, TypeOK, MoveRow
  <2>3. r \in Funding => draft[r] \in Draft
    BY <1>3, Keys DEF IInv, RowInv, RequestedHasDraft
  <2>4. s \in FundingState /\ s # "NONE" /\ s \in OwnerState /\ s \notin {"FUNDED", "COMPLETE", "FAILED"}
    BY <1>3 DEF FundingState, OwnerState
  <2> QED BY <1>3, <2>1, <2>2, <2>3, <2>4, RowMoves
<1>4. ASSUME NEW f \in Funding, AuthorizeFunding(f) \/ CancelFunding(f) PROVE IInv'
  BY <1>3, <1>4, Keys DEF AuthorizeFunding, CancelFunding
<1>5. ASSUME NEW c \in Command, AuthorizeOwner(c) \/ CancelOwner(c) PROVE IInv'
  BY <1>3, <1>5, Keys DEF AuthorizeOwner, CancelOwner
<1> QED BY <1>1, <1>2, <1>4, <1>5 DEF Member

\* What a job knows depends on no clock, nonce or balance.
LEMMA JobFrame ==
  ASSUME JobInv, UNCHANGED <<rule, job, state, marked, intent, mined>>
  PROVE  JobInv'
BY DEF JobInv, JobIsPending, JobRemembers, MarkIsKept, req, tx

\* A confirmation lapses.
LEMMA LapseKeeps ==
  ASSUME IInv, NEW r \in Request, Lapse(r)
  PROVE  IInv'
<1>1. TypeOK'
  BY DEF IInv, TypeOK, Lapse, dbVars, chainVars
<1> QED BY <1>1, JobFrame, ChainFrame, RowFrame DEF IInv, Lapse, dbVars, chainVars

\* A dropped transaction is still outstanding.
LEMMA DropKeeps ==
  ASSUME IInv, NEW u \in Tx, Drop(u)
  PROVE  IInv'
<1>1. TypeOK'
  BY WalletAssumption DEF IInv, TypeOK, Drop, dbVars
<1>2. ChainInv'
  BY DEF IInv, ChainInv, OneOutstanding, Outstanding, ResolvedIsMined, AllowanceIsKept, Reward, Drop, dbVars
<1> QED BY <1>1, <1>2, JobFrame, RowFrame DEF IInv, Drop, dbVars

\* What a transaction moves is there.
LEMMA Executing ==
  ASSUME IInv, NEW u \in Tx, state[u[1]] # "NONE", CanExecute(u), Execute(u)
  PROVE  {allowance, pool, budget}' \subseteq Nat /\ funded' \subseteq Draft
<1>1. u[2] \in {"APPROVE", "FUND"} => u[1] \in Funding /\ draft[u[1]] \in Draft /\ Reward(u[1]) \in Nat
  BY Keys, WalletAssumption DEF IInv, RowInv, RequestedHasDraft, Reward, Request
<1>2. allowance \in Nat /\ pool \in Nat /\ budget \in Nat /\ funded \subseteq Draft /\ Amount \in Nat
  BY WalletAssumption DEF IInv, TypeOK
<1>3. CASE u[2] = "APPROVE"
  BY <1>1, <1>2, <1>3 DEF Execute
<1>4. CASE u[2] = "FUND"
  BY <1>1, <1>2, <1>4 DEF Execute, CanExecute
<1>5. CASE u[2] = "OWNER"
  BY <1>2, <1>5 DEF Execute, CanExecute
<1> QED BY <1>3, <1>4, <1>5, Keys DEF Request

\* The wallet's next transaction becomes final: it was the outstanding one.
LEMMA MineKeeps ==
  ASSUME IInv, NEW u \in Tx, Mine(u)
  PROVE  IInv'
<1>1. Outstanding(u) /\ mined[u] = "NO" /\ nonce[u] = next
  BY DEF IInv, ChainInv, OneOutstanding, Outstanding, Mine
<1>2. state[u[1]] # "NONE"
  BY <1>1 DEF IInv, RowInv, PreparedIsConfirmed, Outstanding
<1>3. /\ mined' \in [Tx -> {"NO", "OK", "REVERTED"}]
      /\ mined'[u] # "NO" /\ \A v \in Tx \ {u} : mined'[v] = mined[v]
  BY DEF IInv, TypeOK, Mine
<1>4. TypeOK'
  <2>1. {allowance, pool, budget}' \subseteq Nat /\ funded' \subseteq Draft
    BY <1>2, Executing DEF Mine, IInv, TypeOK
  <2>2. next' \in Nat /\ mempool' \subseteq Tx
    BY DEF IInv, TypeOK, Mine
  <2> QED BY <1>3, <2>1, <2>2 DEF IInv, TypeOK, Mine, dbVars
<1>5. JobInv'
  <2>1. JobIsPending'
    BY DEF IInv, JobInv, JobIsPending, req, Mine, dbVars
  <2>2. JobRemembers'
    <3>1. job = NoJob => job.at = "IDLE"
      BY DEF NoJob
    <3>2. job # NoJob => tx \in Tx
      BY JobKey DEF IInv, JobInv
    <3> QED BY <1>1, <1>3, <3>1, <3>2 DEF IInv, JobInv, JobRemembers, tx, Mine, dbVars
  <2>3. MarkIsKept'
    BY DEF IInv, JobInv, MarkIsKept, req, Mine, dbVars
  <2> QED BY <2>1, <2>2, <2>3 DEF JobInv
<1>6. ChainInv'
  <2>1. \A v \in Tx : ~Outstanding(v)'
    BY <1>1, <1>3 DEF IInv, ChainInv, OneOutstanding, Outstanding, Mine, dbVars
  <2>2. mempool' = {}
    BY <1>1 DEF IInv, TypeOK, ChainInv, OneOutstanding, Mine
  <2>3. OneOutstanding'
    BY <2>1, <2>2 DEF OneOutstanding
  <2>4. ResolvedIsMined'
    BY <1>3 DEF IInv, ChainInv, ResolvedIsMined, Mine, dbVars
  <2>5. AllowanceIsKept'
    BY <2>1, Keys DEF AllowanceIsKept, Outstanding
  <2> QED BY <2>3, <2>4, <2>5 DEF ChainInv
<1>7. RowInv'
  <2>1. PreparedIsConfirmed' /\ RequestedHasDraft'
    BY DEF IInv, RowInv, PreparedIsConfirmed, RequestedHasDraft, Mine, dbVars
  <2>2. \A v \in Tx : mined[v] # "NO" => mined'[v] = mined[v]
    BY <1>1, <1>3
  <2>3. OutcomesAreTrue'
    BY <2>2, Keys DEF IInv, RowInv, OutcomesAreTrue, Mine, dbVars
  <2> QED BY <2>1, <2>3 DEF RowInv
<1> QED BY <1>4, <1>5, <1>6, <1>7 DEF IInv

-----------------------------------------------------------------------------
(* Jobs start, and crash.                                                  *)

\* A job of a funding starts with its first step.
LEMMA StartFundingKeeps ==
  ASSUME IInv, NEW f \in Funding, StartFunding(f)
  PROVE  IInv'
<1>1. job'.of = f /\ job'.at = "STEP" /\ job'.step = "APPROVE" /\ f \in Request
  BY Keys DEF StartFunding, Job
<1>2. TypeOK'
  BY <1>1 DEF IInv, TypeOK, StartFunding, Job, dbVars, chainVars
<1>3. JobInv'
  BY <1>1, Keys DEF IInv, JobInv, JobIsPending, JobRemembers, MarkIsKept, StartFunding, req, tx, dbVars,
     chainVars, FundingAt
<1> QED BY <1>2, <1>3, ChainFrame, RowFrame DEF IInv, StartFunding, dbVars, chainVars

\* A job of a marked command starts with the repair.
LEMMA StartOwnerKeeps ==
  ASSUME IInv, NEW c \in Command, StartOwner(c)
  PROVE  IInv'
<1>1. job'.of = c /\ job'.at = (IF marked[c] THEN "REPAIR" ELSE "STEP") /\ job'.step = "OWNER" /\ c \in Request
  BY Keys DEF StartOwner, Job
<1>2. TypeOK'
  BY <1>1 DEF IInv, TypeOK, StartOwner, Job, dbVars, chainVars
<1>3. JobInv'
  BY <1>1, Keys DEF IInv, JobInv, JobIsPending, JobRemembers, MarkIsKept, StartOwner, req, tx, dbVars,
     chainVars, OwnerAt
<1> QED BY <1>2, <1>3, ChainFrame, RowFrame DEF IInv, StartOwner, dbVars, chainVars

\* A job that only ends, by a crash or otherwise.
LEMMA EndKeeps ==
  ASSUME IInv, job' = NoJob, faults' \in 0 .. MaxFaults, UNCHANGED <<lapsed, rule, dbVars, chainVars>>
  PROVE  IInv'
<1>1. TypeOK'
  BY DEF IInv, TypeOK, NoJob, dbVars, chainVars
<1>2. JobInv'
  BY JobEnds DEF IInv, JobInv, MarkIsKept, dbVars
<1> QED BY <1>1, <1>2, ChainFrame, RowFrame DEF IInv, dbVars, chainVars

-----------------------------------------------------------------------------
(* What the steps of a job have in common.                                 *)

\* An intent that exists moves on, and has its outcome when it is resolved.
LEMMA IntentMoves ==
  ASSUME IInv, job # NoJob, NEW i \in IntentState \ {"NONE"},
         intent[tx] # "NONE", intent' = [intent EXCEPT ![tx] = i],
         i \in {"CONFIRMED", "FAILED"} => mined[tx] # "NO",
         UNCHANGED <<nonce, draft, chainVars>>
  PROVE  /\ ChainInv' /\ intent' \in [Tx -> IntentState] /\ intent'[tx] = i
         /\ \A u \in Tx : intent'[u] # "NONE" <=> intent[u] # "NONE"
<1>1. tx \in Tx /\ intent \in [Tx -> IntentState]
  BY JobKey DEF IInv, TypeOK, JobInv
<1>2. /\ intent' \in [Tx -> IntentState] /\ intent'[tx] = i
      /\ \A u \in Tx \ {tx} : intent'[u] = intent[u]
  BY <1>1
<1>3. \A u \in Tx : intent'[u] # "NONE" <=> intent[u] # "NONE"
  BY <1>2
<1>4. mempool \subseteq Tx
  BY DEF IInv, TypeOK
<1>5. OneOutstanding'
  BY <1>3, <1>4 DEF IInv, ChainInv, OneOutstanding, Outstanding, chainVars
<1>6. ResolvedIsMined'
  BY <1>2 DEF IInv, ChainInv, ResolvedIsMined, chainVars
<1>7. AllowanceIsKept'
  BY <1>3, Keys DEF IInv, ChainInv, AllowanceIsKept, Reward, chainVars
<1> QED BY <1>2, <1>3, <1>5, <1>6, <1>7 DEF ChainInv

\* A request goes on, with its own intent at most.
LEMMA RequestGoesOn ==
  ASSUME IInv, job # NoJob, NEW s \in FundingPending \cup OwnerPending,
         state'[req] = s, \A r \in Request \ {req} : state'[r] = state[r],
         \A u \in Tx \ {tx} : intent'[u] = intent[u],
         UNCHANGED <<draft, mined>>
  PROVE  RowInv'
<1>1. req \in Request /\ tx \in Tx /\ tx[1] = req /\ req # Nobody
  BY JobKey DEF IInv, JobInv
<1>2. state[req] \in FundingPending \cup OwnerPending
  BY <1>1, Jobless DEF IInv, JobInv, JobIsPending
<1>3. \A u \in Tx : u[1] # req => intent'[u] = intent[u] /\ state'[u[1]] = state[u[1]]
  BY <1>1, Keys
<1>4. s \notin {"NONE", "AWAITING_AUTHORIZATION", "CANCELLED", "EXPIRED", "FUNDED", "COMPLETE", "FAILED"}
  BY DEF FundingPending, OwnerPending
<1>5. PreparedIsConfirmed'
  BY <1>3, <1>4 DEF IInv, RowInv, PreparedIsConfirmed
<1>6. RequestedHasDraft'
  <2>1. state[req] # "NONE"
    BY <1>2 DEF FundingPending, OwnerPending
  <2> QED BY <2>1, Keys DEF IInv, RowInv, RequestedHasDraft
<1>7. OutcomesAreTrue'
  <2>1. ASSUME NEW f \in Funding
        PROVE  /\ state'[f] = "FUNDED" => mined[<<f, "FUND">>] = "OK"
               /\ state'[f] = "FAILED" => \E step \in {"APPROVE", "FUND"} : mined[<<f, step>>] = "REVERTED"
               /\ state'[f] \in {"CANCELLED", "EXPIRED"} => intent'[<<f, "APPROVE">>] = "NONE"
    <3>1. CASE f = req
      BY <3>1, <1>4
    <3>2. CASE f # req
      <4>1. <<f, "APPROVE">> \in Tx \ {tx} /\ state'[f] = state[f]
        BY <3>2, <1>1, Keys
      <4> QED BY <4>1 DEF IInv, RowInv, OutcomesAreTrue
    <3> QED BY <3>1, <3>2
  <2>2. ASSUME NEW c \in Command
        PROVE  /\ state'[c] = "COMPLETE" => mined[<<c, "OWNER">>] = "OK"
               /\ state'[c] = "FAILED" => mined[<<c, "OWNER">>] = "REVERTED"
               /\ state'[c] \in {"CANCELLED", "EXPIRED"} => intent'[<<c, "OWNER">>] = "NONE"
    <3>1. CASE c = req
      BY <3>1, <1>4
    <3>2. CASE c # req
      <4>1. <<c, "OWNER">> \in Tx \ {tx} /\ state'[c] = state[c]
        BY <3>2, <1>1, Keys
      <4> QED BY <4>1 DEF IInv, RowInv, OutcomesAreTrue
    <3> QED BY <3>1, <3>2
  <2> QED BY <2>1, <2>2 DEF OutcomesAreTrue
<1> QED BY <1>5, <1>6, <1>7 DEF RowInv

-----------------------------------------------------------------------------
(* Preparing a transaction.                                                *)

\* A transaction is prepared only when none is outstanding, with the next
\* nonce, and for a createAndFund only when the allowance covers it.
LEMMA Preparing ==
  ASSUME IInv, job # NoJob, job.at = "STEP", intent[tx] = "NONE",
         MayPrepare(PendingNonce), NEW s, SaveIntent(PendingNonce, s),
         req \in Funding => s \in FundingPending,
         req \in Command => s \in OwnerPending,
         job.step = "FUND" => allowance >= Reward(req)
  PROVE  IInv'
<1>1. req \in Request /\ tx \in Tx /\ tx = <<req, job.step>> /\ (req \in Funding \/ req \in Command)
  BY JobKey DEF IInv, JobInv
<1>2. \A u \in Tx : ~Outstanding(u)
  BY DEF IInv, TypeOK, ChainInv, ResolvedIsMined, Outstanding, MayPrepare, Pending
<1>3. mempool = {}
  BY <1>2 DEF IInv, TypeOK, ChainInv, OneOutstanding
<1>4. PendingNonce = next /\ next \in Nat
  BY <1>3, FS_EmptySet DEF PendingNonce, IInv, TypeOK
<1>5. /\ intent' \in [Tx -> IntentState] /\ nonce' \in [Tx -> Nat]
      /\ intent'[tx] = "AWAITING_SIGNATURE" /\ nonce'[tx] = next
      /\ \A u \in Tx \ {tx} : intent'[u] = intent[u] /\ nonce'[u] = nonce[u]
  BY <1>1, <1>4 DEF SaveIntent, IInv, TypeOK, IntentState
<1>6. /\ state'[req] = s /\ \A r \in Request \ {req} : state'[r] = state[r]
      /\ state' \in [Request -> FundingState \cup OwnerState]
  BY <1>1, Keys DEF SaveIntent, IInv, TypeOK, FundingPending, OwnerPending, FundingState, OwnerState
<1>7. TypeOK'
  <2>1. \A f \in Funding : state'[f] \in FundingState
    <3> SUFFICES ASSUME NEW f \in Funding PROVE state'[f] \in FundingState
      OBVIOUS
    <3>1. f \in Request /\ state[f] \in FundingState
      BY Keys DEF IInv, TypeOK
    <3> QED BY <1>6, <3>1 DEF FundingPending, FundingState
  <2>2. \A c \in Command : state'[c] \in OwnerState
    <3> SUFFICES ASSUME NEW c \in Command PROVE state'[c] \in OwnerState
      OBVIOUS
    <3>1. c \in Request /\ state[c] \in OwnerState
      BY Keys DEF IInv, TypeOK
    <3> QED BY <1>6, <3>1 DEF OwnerPending, OwnerState
  <2> QED BY <1>5, <1>6, <2>1, <2>2 DEF IInv, TypeOK, SaveIntent, chainVars
<1>8. JobInv'
  <2>1. JobIsPending'
    BY <1>6, Keys DEF IInv, JobInv, JobIsPending, req, SaveIntent
  <2>2. JobRemembers'
    BY DEF IInv, JobInv, JobRemembers, tx, SaveIntent, chainVars
  <2>3. \A c \in Command : c \in Request
    BY Keys
  <2>4. MarkIsKept'
    BY <1>6, <2>3 DEF IInv, JobInv, MarkIsKept, req, SaveIntent
  <2> QED BY <2>1, <2>2, <2>4 DEF JobInv
<1>9. ChainInv'
  <2>1. OneOutstanding'
    BY <1>2, <1>3, <1>5 DEF OneOutstanding, Outstanding, SaveIntent, chainVars
  <2>2. ResolvedIsMined'
    BY <1>5 DEF IInv, ChainInv, ResolvedIsMined, SaveIntent, chainVars
  <2>3. AllowanceIsKept'
    <3> SUFFICES ASSUME NEW f \in Funding, intent'[<<f, "FUND">>] # "NONE", mined[<<f, "FUND">>] = "NO"
                 PROVE  allowance >= Reward(f)
      BY DEF AllowanceIsKept, Reward, SaveIntent, chainVars
    <3>1. <<f, "FUND">> = tx
      BY <1>2, <1>5, Keys DEF Outstanding
    <3>2. f = req /\ job.step = "FUND"
      BY <3>1, <1>1
    <3> QED BY <3>2
  <2> QED BY <2>1, <2>2, <2>3 DEF ChainInv
<1>10. RowInv'
  <2>1. s \in FundingPending \cup OwnerPending
    BY <1>1
  <2> QED BY <1>5, <1>6, <2>1, RequestGoesOn DEF SaveIntent, chainVars
<1> QED BY <1>7, <1>8, <1>9, <1>10 DEF IInv

\* A funding prepares one of its two transactions.
LEMMA PrepareFundingKeeps ==
  ASSUME IInv, job # NoJob, PrepareFunding
  PROVE  IInv'
<1>1. req \notin Command
  BY Keys DEF PrepareFunding
<1>2. (IF job.step = "APPROVE" THEN "APPROVING" ELSE "FUNDING") \in FundingPending
  BY DEF FundingPending
<1>3. job.step = "FUND" => allowance >= Reward(req)
  <2>1. tx[1] = req /\ tx[2] = job.step
    BY JobKey DEF IInv, JobInv
  <2> QED BY <2>1 DEF PrepareFunding, CanExecute
<1> QED BY <1>1, <1>2, <1>3, Preparing DEF PrepareFunding

\* A command prepares its transaction.
LEMMA PrepareOwnerKeeps ==
  ASSUME IInv, job # NoJob, PrepareOwner
  PROVE  IInv'
<1>1. req \notin Funding /\ "SIGNING" \in OwnerPending
  BY Keys DEF PrepareOwner, OwnerPending
<1>2. job.step = "OWNER"
  BY <1>1 DEF IInv, JobInv, JobIsPending
<1> QED BY <1>1, <1>2, Preparing DEF PrepareOwner

-----------------------------------------------------------------------------
(* Refusing, signing and the provider's policy.                            *)

\* A refused job ends; a command that expires has nothing prepared.
LEMMA RefuseKeeps ==
  ASSUME IInv, job # NoJob, Refuse
  PROVE  IInv'
<1>1. CASE UNCHANGED state
  <2>1. faults \in 0 .. MaxFaults
    BY DEF IInv, TypeOK
  <2> QED BY <1>1, <2>1, EndKeeps DEF Refuse, dbVars
<1>2. CASE /\ req \in Command /\ intent[tx] = "NONE" /\ ~marked[req]
           /\ state' = [state EXCEPT ![req] = "EXPIRED"]
  <2>1. req \in Request /\ tx = <<req, "OWNER">> /\ job.step = "OWNER"
    BY <1>2, JobKey, Keys DEF IInv, JobInv, JobIsPending
  <2>2. /\ state'[req] = "EXPIRED" /\ \A r \in Request \ {req} : state'[r] = state[r]
        /\ state' \in [Request -> FundingState \cup OwnerState]
    BY <1>2, <2>1 DEF IInv, TypeOK, OwnerState
  <2>3. TypeOK'
    <3>1. \A f \in Funding : state'[f] \in FundingState
      BY <1>2, <2>2, Keys DEF IInv, TypeOK
    <3>2. \A c \in Command : state'[c] \in OwnerState
      <4>1. \A c \in Command : c \in Request /\ state[c] \in OwnerState
        BY Keys DEF IInv, TypeOK
      <4> QED BY <2>2, <4>1 DEF OwnerState
    <3> QED BY <2>2, <3>1, <3>2 DEF IInv, TypeOK, Refuse, NoJob, chainVars
  <2>4. JobInv'
    <3>1. \A c \in Command : marked[c] => state'[c] \in OwnerPending
      BY <1>2, <2>2, Keys DEF IInv, JobInv, MarkIsKept
    <3> QED BY <3>1, JobEnds DEF IInv, Refuse
  <2>5. RowInv'
    <3>1. PreparedIsConfirmed'
      <4> SUFFICES ASSUME NEW u \in Tx, intent[u] # "NONE"
                   PROVE  state'[u[1]] \notin {"NONE", "AWAITING_AUTHORIZATION", "CANCELLED", "EXPIRED"}
        BY DEF PreparedIsConfirmed, Refuse
      <4>1. u[1] # req
        BY <1>2, <2>1, Keys
      <4> QED BY <2>2, <4>1, Keys DEF IInv, RowInv, PreparedIsConfirmed
    <3>2. RequestedHasDraft'
      BY <1>2, <2>2, Keys DEF IInv, RowInv, RequestedHasDraft, Refuse
    <3>3. OutcomesAreTrue'
      <4>1. \A f \in Funding : state'[f] = state[f]
        BY <1>2, <2>2, Keys
      <4>2. \A c \in Command : c # req => state'[c] = state[c]
        BY <2>2, Keys
      <4> QED BY <1>2, <2>1, <2>2, <4>1, <4>2 DEF IInv, RowInv, OutcomesAreTrue, Refuse, chainVars
    <3> QED BY <3>1, <3>2, <3>3 DEF RowInv
  <2> QED BY <2>3, <2>4, <2>5, ChainFrame DEF IInv, Refuse, chainVars
<1> QED BY <1>1, <1>2 DEF Refuse

\* A job that moves on keeps its type.
LEMMA JobType ==
  ASSUME TypeOK, NEW at, Goto(at),
         at \in {"STEP", "SIGN", "WIDEN", "REPAIR", "RESTORE", "REPAIRED", "RESTORED", "SEND",
                 "SENT", "RECEIPT", "REVERTED", "RECORD"}
  PROVE  job' \in [of : Request \cup {Nobody},
                   at : {"IDLE", "STEP", "SIGN", "WIDEN", "REPAIR", "RESTORE", "REPAIRED",
                         "RESTORED", "SEND", "SENT", "RECEIPT", "REVERTED", "RECORD"},
                   step : {"NONE", "APPROVE", "FUND", "OWNER"}]
BY DEF TypeOK, Goto

\* The checks of a funding before its signature.
LEMMA CheckFundingKeeps ==
  ASSUME IInv, job # NoJob, CheckFunding
  PROVE  IInv'
<1>1. /\ job'.at = "SIGN" /\ job'.step = job.step /\ req' = req /\ tx' = tx
  BY Moving DEF CheckFunding, IInv
<1>2. TypeOK'
  BY JobType DEF IInv, TypeOK, CheckFunding, dbVars, chainVars
<1>3. JobInv'
  BY <1>1, Keys DEF IInv, JobInv, JobIsPending, JobRemembers, MarkIsKept, CheckFunding, FundingAt,
     dbVars, chainVars
<1> QED BY <1>2, <1>3, ChainFrame, RowFrame DEF IInv, CheckFunding, dbVars, chainVars

\* A funding is signed.
LEMMA SignFundingKeeps ==
  ASSUME IInv, job # NoJob, SignFunding
  PROVE  IInv'
<1>1. /\ job'.at = "STEP" /\ job'.step = job.step /\ req' = req /\ tx' = tx
  BY Moving DEF SignFunding, IInv
<1>2. intent[tx] # "NONE" /\ "SIGNED" \in IntentState \ {"NONE"}
  BY DEF IInv, JobInv, JobRemembers, SignFunding, IntentState
<1>3. ChainInv' /\ intent' \in [Tx -> IntentState]
  BY <1>2, IntentMoves DEF SignFunding
<1>4. TypeOK'
  BY <1>3, JobType DEF IInv, TypeOK, SignFunding, chainVars
<1>5. JobInv'
  BY <1>1, Keys DEF IInv, JobInv, JobIsPending, JobRemembers, MarkIsKept, SignFunding, FundingAt, chainVars
<1>6. RowInv'
  <2>1. req \in Request /\ state[req] \in FundingPending \cup OwnerPending
    BY JobKey DEF IInv, JobInv, JobIsPending
  <2>2. \A u \in Tx \ {tx} : intent'[u] = intent[u]
    BY DEF SignFunding, IInv, TypeOK
  <2> QED BY <2>1, <2>2, RequestGoesOn DEF SignFunding, chainVars
<1> QED BY <1>3, <1>4, <1>5, <1>6 DEF IInv

\* A command is marked before its policy is widened.
LEMMA MarkOwnerKeeps ==
  ASSUME IInv, job # NoJob, MarkOwner
  PROVE  IInv'
<1>1. /\ job'.at = "WIDEN" /\ job'.step = job.step /\ req' = req /\ tx' = tx
  BY Moving DEF MarkOwner, IInv
<1>2. marked' \in [Command -> BOOLEAN] /\ marked'[req] /\ \A c \in Command \ {req} : marked'[c] = marked[c]
  BY DEF MarkOwner, IInv, TypeOK
<1>3. TypeOK'
  BY <1>2, JobType DEF IInv, TypeOK, MarkOwner, chainVars
<1>4. JobInv'
  <2>1. state[req] \in OwnerPending
    BY Keys DEF IInv, JobInv, JobIsPending, MarkOwner
  <2>2. rule \in Command \cup {Nobody}
    BY DEF IInv, TypeOK
  <2> QED BY <1>1, <1>2, <2>1, <2>2, Keys DEF IInv, JobInv, JobIsPending, JobRemembers, MarkIsKept, MarkOwner,
          OwnerAt, chainVars
<1> QED BY <1>3, <1>4, ChainFrame, RowFrame DEF IInv, MarkOwner, chainVars

\* The policy is widened for a marked command.
LEMMA WidenKeeps ==
  ASSUME IInv, job # NoJob, SetOwnerPermission
  PROVE  IInv'
<1>1. /\ job'.at = "SIGN" /\ job'.step = job.step /\ req' = req /\ tx' = tx
  BY Moving DEF SetOwnerPermission, IInv
<1>2. req \in Command
  BY DEF IInv, JobInv, JobIsPending, SetOwnerPermission, FundingAt
<1>3. TypeOK'
  BY <1>2, JobType DEF IInv, TypeOK, SetOwnerPermission, dbVars, chainVars
<1>4. JobInv'
  BY <1>1, <1>2, Keys DEF IInv, JobInv, JobIsPending, JobRemembers, MarkIsKept, SetOwnerPermission,
     OwnerAt, dbVars, chainVars
<1> QED BY <1>3, <1>4, ChainFrame, RowFrame DEF IInv, SetOwnerPermission, dbVars, chainVars

\* A command is signed.
LEMMA SignOwnerKeeps ==
  ASSUME IInv, job # NoJob, SignOwner
  PROVE  IInv'
<1>1. /\ job'.at = "RESTORE" /\ job'.step = job.step /\ req' = req /\ tx' = tx
  BY Moving DEF SignOwner, IInv
<1>2. intent[tx] # "NONE" /\ "SIGNED" \in IntentState \ {"NONE"} /\ "SIGNED" \in OwnerPending
  BY DEF IInv, JobInv, JobRemembers, SignOwner, IntentState, OwnerPending
<1>3. ChainInv' /\ intent' \in [Tx -> IntentState]
  BY <1>2, IntentMoves DEF SignOwner
<1>4. req \in Command /\ req \in Request /\ req \notin Funding
  BY Keys DEF SignOwner
<1>5. /\ state'[req] = "SIGNED" /\ \A r \in Request \ {req} : state'[r] = state[r]
      /\ state' \in [Request -> FundingState \cup OwnerState]
  BY <1>4 DEF SignOwner, IInv, TypeOK, OwnerState
<1>6. TypeOK'
  <2>1. \A f \in Funding : state'[f] \in FundingState
    BY <1>4, <1>5, Keys DEF IInv, TypeOK
  <2>2. \A c \in Command : state'[c] \in OwnerState
    <3>1. \A c \in Command : c \in Request /\ state[c] \in OwnerState
      BY Keys DEF IInv, TypeOK
    <3> QED BY <1>5, <3>1 DEF OwnerState
  <2> QED BY <1>3, <1>5, <2>1, <2>2, JobType DEF IInv, TypeOK, SignOwner, chainVars
<1>7. JobInv'
  <2>1. \A c \in Command : c # req => state'[c] = state[c]
    BY <1>5, Keys
  <2> QED BY <1>1, <1>2, <1>4, <1>5, <2>1 DEF IInv, JobInv, JobIsPending, JobRemembers, MarkIsKept, SignOwner,
          OwnerAt, chainVars
<1>8. RowInv'
  <2>1. \A u \in Tx \ {tx} : intent'[u] = intent[u]
    BY DEF SignOwner, IInv, TypeOK
  <2> QED BY <1>2, <1>5, <2>1, RequestGoesOn DEF SignOwner, chainVars
<1> QED BY <1>3, <1>6, <1>7, <1>8 DEF IInv

\* A failed signature ends a funding's job; a command's narrows the policy.
LEMMA FailToSignKeeps ==
  ASSUME IInv, job # NoJob, FailToSign
  PROVE  IInv'
<1>1. CASE req \notin Command
  <2>1. faults \in 0 .. MaxFaults
    BY DEF IInv, TypeOK
  <2> QED BY <1>1, <2>1, EndKeeps DEF FailToSign, dbVars
<1>2. CASE req \in Command
  <2>1. /\ job'.at = "RESTORE" /\ job'.step = job.step /\ req' = req /\ tx' = tx
    BY <1>2, Moving DEF FailToSign, IInv
  <2>2. TypeOK'
    BY <1>2, JobType DEF IInv, TypeOK, FailToSign, dbVars, chainVars
  <2>3. JobInv'
    BY <1>2, <2>1, Keys DEF IInv, JobInv, JobIsPending, JobRemembers, MarkIsKept, FailToSign, OwnerAt,
       dbVars, chainVars
  <2> QED BY <2>2, <2>3, ChainFrame, RowFrame DEF IInv, FailToSign, dbVars, chainVars
<1> QED BY <1>1, <1>2

\* The policy is narrowed before the mark goes.
LEMMA RestoreKeeps ==
  ASSUME IInv, job # NoJob, RestoreOwnerPermission
  PROVE  IInv'
<1> DEFINE at == IF job.at = "REPAIR" THEN "REPAIRED" ELSE "RESTORED"
<1>1. Goto(at) /\ at \in {"REPAIRED", "RESTORED"}
  BY DEF RestoreOwnerPermission
<1> HIDE DEF at
<1>2. /\ job'.at = at /\ job'.step = job.step /\ req' = req /\ tx' = tx
  BY <1>1, Moving DEF IInv
<1>3. req \in Command
  BY DEF IInv, JobInv, JobIsPending, RestoreOwnerPermission, FundingAt
<1>4. TypeOK'
  BY <1>1, JobType DEF IInv, TypeOK, RestoreOwnerPermission, dbVars, chainVars
<1>5. JobInv'
  BY <1>1, <1>2, <1>3, Keys DEF IInv, JobInv, JobIsPending, JobRemembers, MarkIsKept, RestoreOwnerPermission,
     OwnerAt, dbVars, chainVars
<1> QED BY <1>4, <1>5, ChainFrame, RowFrame DEF IInv, RestoreOwnerPermission, dbVars, chainVars

\* The mark goes when the policy is narrow.
LEMMA UnmarkKeeps ==
  ASSUME IInv, job # NoJob, Unmark
  PROVE  IInv'
<1>1. req \in Command /\ rule = Nobody
  BY DEF IInv, JobInv, JobIsPending, MarkIsKept, Unmark, FundingAt
<1>2. marked' \in [Command -> BOOLEAN] /\ ~marked'[req] /\ \A c \in Command \ {req} : marked'[c] = marked[c]
  BY <1>1 DEF Unmark, IInv, TypeOK
<1>3. CASE job' = NoJob
  <2>1. TypeOK'
    BY <1>2, <1>3 DEF IInv, TypeOK, Unmark, NoJob, chainVars
  <2>2. JobIsPending' /\ JobRemembers' /\ req' = Nobody /\ Nobody \notin Command
    BY <1>3, Keys DEF NoJob, JobIsPending, JobRemembers, req
  <2>3. MarkIsKept'
    BY <1>1, <1>2, <2>2 DEF IInv, JobInv, MarkIsKept, Unmark
  <2> QED BY <2>1, <2>2, <2>3, ChainFrame, RowFrame DEF IInv, JobInv, Unmark, chainVars
<1>4. CASE Goto("STEP")
  <2>1. /\ job'.at = "STEP" /\ job'.step = job.step /\ req' = req /\ tx' = tx
    BY <1>4, Moving DEF IInv
  <2>2. TypeOK'
    BY <1>2, <1>4, JobType DEF IInv, TypeOK, Unmark, chainVars
  <2>3. JobInv'
    BY <1>1, <1>2, <2>1, Keys DEF IInv, JobInv, JobIsPending, JobRemembers, MarkIsKept, Unmark, OwnerAt, chainVars
  <2> QED BY <2>2, <2>3, ChainFrame, RowFrame DEF IInv, Unmark, chainVars
<1> QED BY <1>3, <1>4 DEF Unmark

-----------------------------------------------------------------------------
(* Broadcast and receipt.                                                  *)

\* A request whose state is one of its kind keeps the type of states.
LEMMA StateType ==
  ASSUME TypeOK, NEW r \in Request, NEW s, state' = [state EXCEPT ![r] = s],
         r \in Funding => s \in FundingState, r \in Command => s \in OwnerState
  PROVE  /\ state' \in [Request -> FundingState \cup OwnerState]
         /\ \A f \in Funding : state'[f] \in FundingState
         /\ \A c \in Command : state'[c] \in OwnerState
         /\ state'[r] = s /\ \A q \in Request \ {r} : state'[q] = state[q]
<1>1. state'[r] = s /\ \A q \in Request \ {r} : state'[q] = state[q]
  BY DEF TypeOK
<1>2. \A f \in Funding : f \in Request /\ state[f] \in FundingState
  BY Keys DEF TypeOK
<1>3. \A c \in Command : c \in Request /\ state[c] \in OwnerState
  BY Keys DEF TypeOK
<1>4. state' \in [Request -> FundingState \cup OwnerState]
  BY Keys DEF TypeOK, Request
<1> QED BY <1>1, <1>2, <1>3, <1>4

\* The transaction is about to be sent.
LEMMA SubmitKeeps ==
  ASSUME IInv, job # NoJob, Submit
  PROVE  IInv'
<1>1. /\ job'.at = "SEND" /\ job'.step = job.step /\ req' = req /\ tx' = tx
  BY Moving DEF Submit, IInv
<1>2. intent[tx] # "NONE" /\ "SUBMITTED" \in IntentState \ {"NONE"}
  BY DEF Submit, Signed, Unsigned, IntentState
<1>3. ChainInv' /\ intent' \in [Tx -> IntentState] /\ intent'[tx] = "SUBMITTED"
  BY <1>2, IntentMoves DEF Submit
<1>4. req \in Request /\ state[req] \in FundingPending \cup OwnerPending
  BY JobKey DEF IInv, JobInv, JobIsPending
<1> DEFINE s == IF req \in Command THEN "CONFIRMING" ELSE state[req]
<1>5. state' = [state EXCEPT ![req] = s]
  BY <1>4 DEF Submit, IInv, TypeOK
<1>6. /\ req \in Funding => s \in FundingPending /\ s \in FundingState
      /\ req \in Command => s \in OwnerPending /\ s \in OwnerState
      /\ s \in FundingPending \cup OwnerPending
  BY <1>4, Keys DEF IInv, TypeOK, JobInv, JobIsPending, OwnerPending, OwnerState
<1> HIDE DEF s
<1>7. /\ state' \in [Request -> FundingState \cup OwnerState]
      /\ \A f \in Funding : state'[f] \in FundingState
      /\ \A c \in Command : state'[c] \in OwnerState
      /\ state'[req] = s /\ \A q \in Request \ {req} : state'[q] = state[q]
  BY <1>4, <1>5, <1>6, StateType DEF IInv
<1>8. TypeOK'
  BY <1>3, <1>7, JobType DEF IInv, TypeOK, Submit, chainVars
<1>9. JobInv'
  <2>1. \A c \in Command : c # req => state'[c] = state[c]
    BY <1>7, Keys
  <2> QED BY <1>1, <1>3, <1>6, <1>7, <2>1, Keys DEF IInv, JobInv, JobIsPending, JobRemembers, MarkIsKept, Submit,
          FundingAt, OwnerAt, chainVars
<1>10. RowInv'
  <2>1. \A u \in Tx \ {tx} : intent'[u] = intent[u]
    BY DEF Submit, IInv, TypeOK
  <2> QED BY <1>6, <1>7, <2>1, RequestGoesOn DEF Submit, chainVars
<1> QED BY <1>3, <1>8, <1>9, <1>10 DEF IInv

\* What is sent is the outstanding transaction, or known already.
LEMMA BroadcastKeeps ==
  ASSUME IInv, job # NoJob, Broadcast
  PROVE  IInv'
<1>1. CASE Known
  <2>1. faults \in 0 .. MaxFaults
    BY DEF IInv, TypeOK
  <2> QED BY <1>1, <2>1, EndKeeps DEF Broadcast, dbVars, chainVars
<1>2. CASE ~Known
  <2>1. /\ job'.at = "SENT" /\ job'.step = job.step /\ req' = req /\ tx' = tx
    BY <1>2, Moving DEF Broadcast, IInv
  <2>2. tx \in Tx /\ mined[tx] = "NO" /\ intent[tx] # "NONE"
    BY <1>2, JobKey DEF Broadcast, Known, IInv, TypeOK, JobInv, JobRemembers
  <2>3. TypeOK'
    BY <1>2, <2>2, JobType DEF IInv, TypeOK, Broadcast, dbVars
  <2>4. JobInv'
    BY <2>1, Keys DEF IInv, JobInv, JobIsPending, JobRemembers, MarkIsKept, Broadcast, FundingAt, OwnerAt, dbVars
  <2>5. ChainInv'
    BY <1>2, <2>2 DEF IInv, ChainInv, OneOutstanding, Outstanding, ResolvedIsMined, AllowanceIsKept, Reward,
       Broadcast, dbVars
  <2> QED BY <2>3, <2>4, <2>5, RowFrame DEF IInv, Broadcast, dbVars
<1> QED BY <1>1, <1>2

\* The request and its state stay, and its intent goes on to i.
LEMMA IntentOnly ==
  ASSUME IInv, job # NoJob, NEW i \in IntentState \ {"NONE"},
         intent[tx] # "NONE", intent' = [intent EXCEPT ![tx] = i],
         i \in {"CONFIRMED", "FAILED"} => mined[tx] # "NO",
         UNCHANGED <<faults, lapsed, rule, state, draft, kind, marked, nonce, chainVars>>,
         job' \in [of : Request \cup {Nobody},
                   at : {"IDLE", "STEP", "SIGN", "WIDEN", "REPAIR", "RESTORE", "REPAIRED",
                         "RESTORED", "SEND", "SENT", "RECEIPT", "REVERTED", "RECORD"},
                   step : {"NONE", "APPROVE", "FUND", "OWNER"}]
  PROVE  TypeOK' /\ ChainInv' /\ RowInv' /\ intent'[tx] = i
<1>1. ChainInv' /\ intent' \in [Tx -> IntentState] /\ intent'[tx] = i
  BY IntentMoves
<1>2. TypeOK'
  BY <1>1 DEF IInv, TypeOK, chainVars
<1>3. req \in Request /\ state[req] \in FundingPending \cup OwnerPending
  BY JobKey DEF IInv, JobInv, JobIsPending
<1>4. \A u \in Tx \ {tx} : intent'[u] = intent[u]
  BY DEF IInv, TypeOK
<1>5. RowInv'
  BY <1>3, <1>4, RequestGoesOn DEF chainVars
<1> QED BY <1>1, <1>2, <1>5

\* The transaction was sent.
LEMMA RecordBroadcastKeeps ==
  ASSUME IInv, job # NoJob, RecordBroadcast
  PROVE  IInv'
<1>1. /\ job'.at = "RECEIPT" /\ job'.step = job.step /\ req' = req /\ tx' = tx
  BY Moving DEF RecordBroadcast, IInv
<1>2. intent[tx] # "NONE" /\ "BROADCAST" \in IntentState \ {"NONE"}
  BY DEF IInv, JobInv, JobRemembers, RecordBroadcast, IntentState
<1>3. TypeOK' /\ ChainInv' /\ RowInv' /\ intent'[tx] = "BROADCAST"
  BY <1>2, IntentOnly, JobType DEF RecordBroadcast, IInv
<1>4. JobInv'
  BY <1>1, <1>3, Keys DEF IInv, JobInv, JobIsPending, JobRemembers, MarkIsKept, RecordBroadcast, FundingAt, OwnerAt,
     chainVars
<1> QED BY <1>3, <1>4 DEF IInv

\* A final receipt is of a transaction that was prepared.
LEMMA FinalIsPrepared ==
  ASSUME IInv, job # NoJob, NEW outcome, Final(outcome)
  PROVE  intent[tx] # "NONE" /\ mined[tx] = outcome /\ job.at \in {"STEP", "RECEIPT"}
BY DEF IInv, JobInv, JobRemembers, Final, Signed, Unsigned

\* The transaction reverted.
LEMMA RecordRevertedKeeps ==
  ASSUME IInv, job # NoJob, RecordReverted
  PROVE  IInv'
<1>1. /\ job'.at = "REVERTED" /\ job'.step = job.step /\ req' = req /\ tx' = tx
  BY Moving DEF RecordReverted, IInv
<1>2. intent[tx] # "NONE" /\ mined[tx] = "REVERTED" /\ job.at \in {"STEP", "RECEIPT"}
  BY FinalIsPrepared DEF RecordReverted
<1>3. "FAILED" \in IntentState \ {"NONE"}
  BY DEF IntentState
<1>4. TypeOK' /\ ChainInv' /\ RowInv'
  BY <1>2, <1>3, IntentOnly, JobType DEF RecordReverted, IInv
<1>5. JobInv'
  BY <1>1, <1>2, Keys DEF IInv, JobInv, JobIsPending, JobRemembers, MarkIsKept, RecordReverted, FundingAt, OwnerAt,
     chainVars
<1> QED BY <1>4, <1>5 DEF IInv

\* A request that ends says what its transaction came to.
LEMMA RequestEnds ==
  ASSUME IInv, job # NoJob, NEW s, state' = [state EXCEPT ![req] = s], job' = NoJob,
         \/ req \in Funding /\ s = "FUNDED" /\ mined[<<req, "FUND">>] = "OK"
         \/ req \in Command /\ s = "COMPLETE" /\ mined[tx] = "OK" /\ ~marked[req]
         \/ s = "FAILED" /\ mined[tx] = "REVERTED" /\ (req \in Command => ~marked[req]),
         intent' \in [Tx -> IntentState],
         \A u \in Tx : intent'[u] # "NONE" <=> intent[u] # "NONE",
         UNCHANGED <<faults, lapsed, rule, draft, kind, marked, nonce, chainVars>>
  PROVE  TypeOK' /\ JobInv' /\ RowInv'
<1>1. /\ req \in Request /\ tx = <<req, job.step>>
      /\ req \in Funding => job.step \in {"APPROVE", "FUND"} /\ req \notin Command
      /\ req \in Command => job.step = "OWNER" /\ req \notin Funding
  BY JobKey, Keys DEF IInv, JobInv, JobIsPending
<1>2. /\ req \in Funding => s \in FundingState
      /\ req \in Command => s \in OwnerState
  BY <1>1 DEF FundingState, OwnerState
<1>3. /\ state' \in [Request -> FundingState \cup OwnerState]
      /\ \A f \in Funding : state'[f] \in FundingState
      /\ \A c \in Command : state'[c] \in OwnerState
      /\ state'[req] = s /\ \A q \in Request \ {req} : state'[q] = state[q]
  BY <1>1, <1>2, StateType DEF IInv
<1>4. TypeOK'
  BY <1>3 DEF IInv, TypeOK, NoJob, chainVars
<1>5. JobInv'
  <2>1. \A c \in Command : marked[c] => state'[c] \in OwnerPending
    BY <1>1, <1>3, Keys DEF IInv, JobInv, MarkIsKept
  <2> QED BY <2>1, JobEnds DEF IInv
<1>6. s \notin {"NONE", "AWAITING_AUTHORIZATION", "CANCELLED", "EXPIRED"}
  OBVIOUS
<1>7. PreparedIsConfirmed'
  BY <1>3, <1>6, Keys DEF IInv, RowInv, PreparedIsConfirmed
<1>8. RequestedHasDraft'
  <2>1. state[req] # "NONE"
    BY DEF IInv, JobInv, JobIsPending, FundingPending, OwnerPending
  <2> QED BY <1>3, <2>1, Keys DEF IInv, RowInv, RequestedHasDraft
<1>9. OutcomesAreTrue'
  <2>1. ASSUME NEW f \in Funding
        PROVE  /\ state'[f] = "FUNDED" => mined[<<f, "FUND">>] = "OK"
               /\ state'[f] = "FAILED" => \E step \in {"APPROVE", "FUND"} : mined[<<f, step>>] = "REVERTED"
               /\ state'[f] \in {"CANCELLED", "EXPIRED"} => intent'[<<f, "APPROVE">>] = "NONE"
    <3>1. CASE f = req
      BY <3>1, <1>1, <1>3
    <3>2. CASE f # req
      BY <3>2, <1>3, Keys DEF IInv, RowInv, OutcomesAreTrue
    <3> QED BY <3>1, <3>2
  <2>2. ASSUME NEW c \in Command
        PROVE  /\ state'[c] = "COMPLETE" => mined[<<c, "OWNER">>] = "OK"
               /\ state'[c] = "FAILED" => mined[<<c, "OWNER">>] = "REVERTED"
               /\ state'[c] \in {"CANCELLED", "EXPIRED"} => intent'[<<c, "OWNER">>] = "NONE"
    <3>1. CASE c = req
      BY <3>1, <1>1, <1>3
    <3>2. CASE c # req
      BY <3>2, <1>3, Keys DEF IInv, RowInv, OutcomesAreTrue
    <3> QED BY <3>1, <3>2
  <2> QED BY <2>1, <2>2 DEF OutcomesAreTrue, chainVars
<1> QED BY <1>4, <1>5, <1>7, <1>8, <1>9 DEF RowInv

\* The request of a reverted transaction fails.
LEMMA FailRequestKeeps ==
  ASSUME IInv, job # NoJob, FailRequest
  PROVE  IInv'
<1>1. mined[tx] = "REVERTED" /\ (req \in Command => ~marked[req]) /\ intent \in [Tx -> IntentState]
  BY DEF IInv, TypeOK, JobInv, JobRemembers, MarkIsKept, FailRequest
<1>2. TypeOK' /\ JobInv' /\ RowInv'
  BY <1>1, RequestEnds DEF FailRequest
<1> QED BY <1>2, ChainFrame DEF IInv, FailRequest, chainVars

\* A step of a funding is final.
LEMMA ConfirmFundingKeeps ==
  ASSUME IInv, job # NoJob, ConfirmFunding
  PROVE  IInv'
<1>1. intent[tx] # "NONE" /\ mined[tx] = "OK" /\ "CONFIRMED" \in IntentState \ {"NONE"}
  BY FinalIsPrepared DEF ConfirmFunding, IntentState
<1>2. req \in Funding /\ req \in Request /\ req \notin Command /\ tx = <<req, job.step>>
  BY JobKey, Keys DEF IInv, JobInv, ConfirmFunding
<1>3. job'.of = req /\ job'.step = "FUND" /\ job'.at = (IF job.step = "APPROVE" THEN "STEP" ELSE "RECORD")
  BY DEF ConfirmFunding, Job
<1>4. TypeOK' /\ ChainInv' /\ RowInv'
  BY <1>1, <1>2, IntentOnly DEF ConfirmFunding, Job
<1>5. JobInv'
  <2>1. req' = req /\ tx' = <<req, "FUND">>
    BY <1>3 DEF req, tx
  <2>2. JobIsPending'
    BY <1>2, <1>3, <2>1 DEF IInv, JobInv, JobIsPending, FundingAt, ConfirmFunding
  <2>3. JobRemembers'
    BY <1>1, <1>2, <1>3, <2>1 DEF IInv, JobInv, JobIsPending, JobRemembers, ConfirmFunding, chainVars
  <2>4. MarkIsKept'
    BY <1>2, <2>1 DEF IInv, JobInv, MarkIsKept, ConfirmFunding
  <2> QED BY <2>2, <2>3, <2>4 DEF JobInv
<1> QED BY <1>4, <1>5 DEF IInv

\* The bounty of a final createAndFund is recorded.
LEMMA RecordFundingKeeps ==
  ASSUME IInv, job # NoJob, RecordFunding
  PROVE  IInv'
<1>1. req \in Funding /\ mined[<<req, "FUND">>] = "OK" /\ intent \in [Tx -> IntentState]
  BY JobKey DEF IInv, TypeOK, JobInv, JobIsPending, JobRemembers, RecordFunding, OwnerAt
<1>2. TypeOK' /\ JobInv' /\ RowInv'
  BY <1>1, RequestEnds DEF RecordFunding
<1> QED BY <1>2, ChainFrame DEF IInv, RecordFunding, chainVars

\* A command's transaction is final.
LEMMA CompleteOwnerKeeps ==
  ASSUME IInv, job # NoJob, CompleteOwner
  PROVE  IInv'
<1>1. intent[tx] # "NONE" /\ mined[tx] = "OK" /\ job.at \in {"STEP", "RECEIPT"}
  BY FinalIsPrepared DEF CompleteOwner
<1>2. "CONFIRMED" \in IntentState \ {"NONE"}
  BY DEF IntentState
<1>3. /\ ChainInv' /\ intent' \in [Tx -> IntentState]
      /\ \A u \in Tx : intent'[u] # "NONE" <=> intent[u] # "NONE"
  BY <1>1, <1>2, IntentMoves DEF CompleteOwner
<1>4. ~marked[req]
  BY <1>1 DEF IInv, JobInv, MarkIsKept, CompleteOwner
<1>5. TypeOK' /\ JobInv' /\ RowInv'
  BY <1>1, <1>3, <1>4, RequestEnds DEF CompleteOwner
<1> QED BY <1>3, <1>5 DEF IInv

-----------------------------------------------------------------------------
(* Theorems.                                                               *)

\* Every step of a job keeps the invariant.
LEMMA StepKeeps ==
  ASSUME IInv, job # NoJob, Step
  PROVE  IInv'
<1>1. ASSUME AwaitReceipt PROVE IInv'
  <2>1. faults \in 0 .. MaxFaults
    BY DEF IInv, TypeOK
  <2> QED BY <1>1, <2>1, EndKeeps DEF AwaitReceipt
<1> QED BY <1>1, PrepareFundingKeeps, PrepareOwnerKeeps, RefuseKeeps, CheckFundingKeeps, SignFundingKeeps,
        MarkOwnerKeeps, WidenKeeps, SignOwnerKeeps, FailToSignKeeps, RestoreKeeps, UnmarkKeeps,
        SubmitKeeps, BroadcastKeeps, RecordBroadcastKeeps, RecordRevertedKeeps, FailRequestKeeps,
        ConfirmFundingKeeps, RecordFundingKeeps, CompleteOwnerKeeps DEF Step

\* Every step keeps the invariant.
LEMMA NextIInv == IInv /\ [Next]_vars => IInv'
<1> SUFFICES ASSUME IInv, [Next]_vars PROVE IInv'
  OBVIOUS
<1>1. CASE UNCHANGED vars
  <2>1. TypeOK'
    BY <1>1 DEF IInv, TypeOK, vars, dbVars, chainVars
  <2> QED BY <1>1, <2>1, JobFrame, ChainFrame, RowFrame DEF IInv, vars, dbVars, chainVars
<1>2. CASE Crash
  <2>1. faults' \in 0 .. MaxFaults
    BY <1>2, WalletAssumption DEF Crash, IInv, TypeOK
  <2> QED BY <1>2, <2>1, EndKeeps DEF Crash
<1>3. CASE Member
  BY <1>3, MemberKeeps
<1>4. CASE JobStep
  BY <1>4, StepKeeps DEF JobStep
<1>5. ASSUME NEW f \in Funding, StartFunding(f) PROVE IInv'
  BY <1>5, StartFundingKeeps
<1>6. ASSUME NEW c \in Command, StartOwner(c) PROVE IInv'
  BY <1>6, StartOwnerKeeps
<1>7. ASSUME NEW u \in Tx, Mine(u) PROVE IInv'
  BY <1>7, MineKeeps
<1>8. ASSUME NEW u \in Tx, Drop(u) PROVE IInv'
  BY <1>8, DropKeeps
<1>9. ASSUME NEW r \in Request, Lapse(r) PROVE IInv'
  BY <1>9, LapseKeeps
<1> QED BY <1>1, <1>2, <1>3, <1>4, <1>5, <1>6, <1>7, <1>8, <1>9 DEF Next

\* The invariant holds always.
THEOREM Inductive == Spec => []IInv
BY InitIInv, NextIInv, PTL DEF Spec

\* The type invariant.
THEOREM TypeCorrect == Spec => []TypeOK
<1>1. IInv => TypeOK
  BY DEF IInv
<1> QED BY <1>1, Inductive, PTL

\* A widened policy is widened for one marked request that is not over
\* (processOwnerCommand).
THEOREM PermissionIsAlwaysTracked == Spec => []PermissionIsTracked
<1>1. IInv => PermissionIsTracked
  BY DEF IInv, TypeOK, JobInv, MarkIsKept, PermissionIsTracked, OwnerPending, OverOwner
<1> QED BY <1>1, Inductive, PTL

\* The nonce of a signed transaction is the wallet's next one until it is
\* final (fundBounty, processOwnerCommand).
THEOREM NothingIsEverStranded == Spec => []NothingIsStranded
<1>1. IInv => NothingIsStranded
  BY DEF IInv, ChainInv, OneOutstanding, Outstanding, NothingIsStranded
<1> QED BY <1>1, Inductive, PTL

\* The allowance a funding was given is there when its createAndFund becomes
\* final (fundBounty).
THEOREM AllowanceIsAlwaysKept == Spec => []AllowanceIsKept
<1>1. IInv => AllowanceIsKept
  BY DEF IInv, ChainInv
<1> QED BY <1>1, Inductive, PTL

\* Requests that are over say what happened on chain.
THEOREM OutcomesAreAlwaysTrue == Spec => []OutcomesAreTrue
<1>1. IInv => OutcomesAreTrue
  BY DEF IInv, RowInv
<1> QED BY <1>1, Inductive, PTL

\* Requests that are over stay over: a job works on one that is not, a member
\* changes only those before, and a new request expires only unconfirmed ones.
LEMMA StepEndsNothingTwice ==
  ASSUME IInv, [Next]_vars, NEW r \in Request,
         state[r] \in {"FUNDED", "COMPLETE", "CANCELLED", "EXPIRED", "FAILED"}
  PROVE  state'[r] = state[r]
<1>1. state \in [Request -> FundingState \cup OwnerState]
  BY DEF IInv, TypeOK
<1>2. ASSUME JobStep PROVE state'[r] = state[r]
  <2>1. req \in Request /\ r # req
    BY <1>2, JobKey DEF IInv, JobInv, JobIsPending, JobStep, FundingPending, OwnerPending
  <2>2. ASSUME NEW s, state' = [state EXCEPT ![req] = s] PROVE state'[r] = state[r]
    BY <1>1, <2>1, <2>2
  <2>3. state' = state \/ \E s : state' = [state EXCEPT ![req] = s]
    BY <1>2 DEF JobStep, Step, PrepareFunding, PrepareOwner, SaveIntent, Refuse, CheckFunding, SignFunding,
       MarkOwner, SetOwnerPermission, SignOwner, FailToSign, RestoreOwnerPermission, Unmark, Submit, Broadcast,
       RecordBroadcast, AwaitReceipt, RecordReverted, FailRequest, ConfirmFunding, RecordFunding,
       CompleteOwner, dbVars
  <2> QED BY <2>2, <2>3
<1>3. ASSUME Member PROVE state'[r] = state[r]
  <2>1. ASSUME NEW q \in Request, NEW s, MoveRow(q, s), state[q] \in {"AWAITING_AUTHORIZATION", "QUEUED"}
        PROVE  state'[r] = state[r]
    BY <1>1, <2>1 DEF MoveRow
  <2>2. ASSUME NEW q \in Request, NEW rs,
               state[q] = "NONE", state' = [Expired(rs) EXCEPT ![q] = "AWAITING_AUTHORIZATION"]
        PROVE  state'[r] = state[r]
    BY <1>1, <2>2 DEF Expired
  <2>3. ASSUME NEW f \in Funding, AuthorizeFunding(f) \/ CancelFunding(f) PROVE state'[r] = state[r]
    BY <2>1, <2>3, Keys DEF AuthorizeFunding, CancelFunding
  <2>4. ASSUME NEW c \in Command, AuthorizeOwner(c) \/ CancelOwner(c) PROVE state'[r] = state[r]
    BY <2>1, <2>4, Keys DEF AuthorizeOwner, CancelOwner
  <2>5. ASSUME NEW f \in Funding, NEW d \in Draft, RequestFunding(f, d) PROVE state'[r] = state[r]
    BY <2>2, <2>5, Keys DEF RequestFunding
  <2>6. ASSUME NEW c \in Command, NEW k \in Kind, RequestOwner(c, k) PROVE state'[r] = state[r]
    BY <2>2, <2>6, Keys DEF RequestOwner
  <2> QED BY <1>3, <2>3, <2>4, <2>5, <2>6 DEF Member
<1>4. CASE UNCHANGED state
  BY <1>4
<1> QED BY <1>2, <1>3, <1>4 DEF Next, StartFunding, StartOwner, Crash, Mine, Drop, Lapse, vars, dbVars

\* Whatever job was running when a request ended, none takes it up again.
THEOREM OverIsAlwaysOver == Spec => OverIsOver
<1>1. IInv /\ [Next]_vars =>
        [\A q \in Request :
           state[q] \in {"FUNDED", "COMPLETE", "CANCELLED", "EXPIRED", "FAILED"}
             => state'[q] = state[q]]_vars
  BY StepEndsNothingTwice
<1> QED BY <1>1, Inductive, PTL DEF Spec, OverIsOver

=============================================================================
