------------------------ MODULE ClaimSettlementProofs ------------------------
(***************************************************************************)
(* What the job of a claim, its verifier, recovery and the escrow keep     *)
(* between them, for any number of claims, crashes and ticks of the clock. *)
(***************************************************************************)
EXTENDS ClaimSettlement, TLAPS

-----------------------------------------------------------------------------
(* The inductive invariant.                                                *)

\* usedClaimIds: the claim had its reservation, whoever presented it.
WasReserved(c) == Final("ClaimReserved", c)

\* The escrow names a claim while it holds its reservation, its credit or its
\* payment; that claim was reserved, as was every claim an event names, and none
\* was before the relayer sent its reservation.
ClaimIsReserved ==
  /\ IF escrow.state \in {"FUNDED", "REFUNDED"} THEN escrow.claim = NoClaim
     ELSE escrow.claim \in Claim /\ WasReserved(escrow.claim)
  /\ \A i \in 1 .. Len(log) : log[i].claim # NoClaim => WasReserved(log[i].claim)
  /\ \A c \in Claim : WasReserved(c) => tx[c]["reserveClaim"] # "NONE"

\* A claim whose reservation expired has no credit and gets none: the escrow
\* does not name it again.
ExpiredIsOver ==
  \A c \in Claim : \A i \in 1 .. Len(log) :
    ExpiredBy(i) = c => escrow.claim # c /\ ~ Final("ClaimQualified", c)

\* A credit follows the assessment that grants it, and comes once.
CreditIsAssessed ==
  /\ escrow.state = "RESERVED" => ~ Final("ClaimQualified", escrow.claim)
  /\ \A c \in Claim : Final("ClaimQualified", c) => assessment[c].outcome = "QUALIFIES"

\* The escrow's state is what its last event says.
EscrowFollowsLog == Len(log) > 0 /\ escrow.state = ChainStateAfter(log[Len(log)].name)

ChainInv == ClaimIsReserved /\ ExpiredIsOver /\ CreditIsAssessed /\ EscrowFollowsLog

\* The bounty's row is what the event it followed says, and it followed the
\* last event if that one is recorded.
BountyFollowsLog ==
  /\ bounty.state = ChainStateAfter(log[bounty.lastEvent].name)
  /\ Len(log) \in recorded => bounty.lastEvent = Len(log)

CreditRecorded(c) == recorded \cap Positions("ClaimQualified", c) # {}
Gated(c) == CreditRecorded(c) /\ (NeedsQuorum(c) => HasQuorum(c))

\* What a job found at an earlier step still holds.
JobRemembers ==
  \A c \in Claim :
    /\ at[c] = Step("quorum", "none") => CreditRecorded(c)
    /\ at[c][2] = "collectPayment" => Gated(c)
    /\ at[c] = Step("reconcile", "none") => Final("Paid", c)
    /\ at[c] = Step("admission-expired", "none") => AdmissionIsOver(c)

JobInv == JobRemembers /\ PayoutIsGated /\ IntentsTellTheTruth

Expired(c) == \E i \in recorded : ExpiredBy(i) = c
Quiet(c) == report[c] # "HELD" /\ ~ (serving[c] = "ASSESS" /\ seen[c].allowed)

\* A report is opened after the payment, and its hold resolved by an expiry.
\* Once an expiry is recorded there is no hold and, with the verifier that
\* recovery waits for, nobody who could still make one.
ReportInv ==
  /\ \A c \in Claim : report[c] = "AVAILABLE" => Final("Paid", c)
  /\ \A c \in Claim : report[c] = "RESOLVED" => \E i \in 1 .. Len(log) : ExpiredBy(i) = c
  /\ Adapter = "FIXTURE" => \A c \in Claim : Expired(c) => Quiet(c)

IInv == TypeOK /\ ChainInv /\ BountyFollowsLog /\ JobInv /\ ReportInv

-----------------------------------------------------------------------------
(* The log.                                                                *)

LogEntry == [name : EventName, claim : Claim \cup {NoClaim}, amount : Nat]

\* The log loses nothing.
Grows ==
  /\ Len(log') >= Len(log) /\ Len(log) \in Nat /\ Len(log') \in Nat
  /\ 1 .. Len(log) \subseteq 1 .. Len(log')
  /\ \A i \in 1 .. Len(log) : log'[i] = log[i]

\* An event appended is the log's last entry, and nothing before it changes.
LEMMA GrowsEmitting ==
  ASSUME log \in Seq(LogEntry), NEW name \in EventName, NEW c \in Claim \cup {NoClaim},
         NEW amount \in Nat, Emit(name, c, amount)
  PROVE  /\ Grows
         /\ log' \in Seq(LogEntry) /\ Len(log') = Len(log) + 1
         /\ log'[Len(log')] = Event(name, c, amount)
<1>1. Event(name, c, amount) \in LogEntry
  BY DEF Event, LogEntry
<1> DEFINE e == Event(name, c, amount)
<1>2. log' = Append(log, e)
  BY DEF Emit
<1>3. e \in LogEntry
  BY <1>1
<1> HIDE DEF e
<1>4. /\ log' \in Seq(LogEntry) /\ Len(log') = Len(log) + 1 /\ Len(log) \in Nat
      /\ \A i \in 1 .. Len(log) : log'[i] = log[i]
      /\ log'[Len(log) + 1] = e
  BY <1>2, <1>3
<1> QED BY <1>4 DEF Grows, e

\* A step that leaves the log alone loses nothing of it.
LEMMA GrowsStaying ==
  ASSUME log \in Seq(LogEntry), UNCHANGED log
  PROVE  Grows
BY DEF Grows

-----------------------------------------------------------------------------
(* Types.                                                                  *)

\* TypeOK by groups of variables.
ChainTypes ==
  /\ escrow \in [state : ChainState, claim : Claim \cup {NoClaim}, expiresAt : Nat]
  /\ log \in Seq(LogEntry)
  /\ tx \in [Claim -> [Method -> {"NONE", "PENDING", "SUCCESS", "REVERTED"}]]
ClockTypes == now \in 0 .. MaxTime /\ crashes \in 0 .. MaxCrashes
RecordTypes ==
  /\ recorded \subseteq 1 .. Len(log)
  /\ bounty \in [state : ChainState, lastEvent : 1 .. Len(log)]
VerifierTypes ==
  /\ requested \in [Claim -> SUBSET {"ADMIT", "ASSESS"}]
  /\ serving \in [Claim -> {"NONE", "ADMIT", "ASSESS"}]
  /\ seen \in [Claim -> [allowed : BOOLEAN, now : Nat]]
AtTypes == at \in [Claim -> Stage \X (Method \cup {"none"})]
WorkerTypes == AtTypes /\ lock \in Claim \cup {NoClaim} /\ row \in [Claim -> JobState]
IntentTypes ==
  intent \in [Claim -> [Method -> [state : IntentState, hash : BOOLEAN, validUntil : Nat]]]
JobTypes == job \in [Claim -> JobState]
RowTypes ==
  /\ admission \in [Claim -> [state : {"NONE", "SIGNED", "EXPIRED"}, validUntil : Nat]]
  /\ assessment \in [Claim -> [outcome : {"NONE", "QUALIFIES", "DOES_NOT_QUALIFY"},
                               reward : 0 .. Reward]]
  /\ report \in [Claim -> {"NONE", "HELD", "SEALED", "RESOLVED", "AVAILABLE"}]
  /\ signatures \in [Claim -> -1 .. RequiredApprovals]

\* TypeOK is the conjunction of its groups.
LEMMA TypeGroups ==
  TypeOK <=> /\ ClockTypes /\ ChainTypes /\ RecordTypes /\ VerifierTypes /\ WorkerTypes
             /\ IntentTypes /\ JobTypes /\ RowTypes
BY DEF TypeOK, ClockTypes, ChainTypes, RecordTypes, VerifierTypes, WorkerTypes, AtTypes,
       IntentTypes, JobTypes, RowTypes, LogEntry

\* Records of a shorter log are records of a longer one.
LEMMA RecordsKeep ==
  ASSUME RecordTypes, Grows, UNCHANGED <<recorded, bounty>>
  PROVE  RecordTypes'
BY DEF RecordTypes, Grows

\* A job that goes on is at a stage; the others stay where they are.
LEMMA GotoTypes ==
  ASSUME AtTypes, NEW c \in Claim, NEW s \in Stage, NEW m \in Method \cup {"none"},
         Goto(c, Step(s, m))
  PROVE  AtTypes' /\ at'[c] = <<s, m>> /\ \A d \in Claim \ {c} : at'[d] = at[d]
BY DEF AtTypes, Goto, Step

\* A job that ends is idle; the others stay where they are.
LEMMA LeaveTypes ==
  ASSUME WorkerTypes, NEW c \in Claim, Leave(c)
  PROVE  WorkerTypes' /\ at'[c] = <<"idle", "none">> /\ \A d \in Claim \ {c} : at'[d] = at[d]
<1>1. Goto(c, Step("idle", "none")) /\ "idle" \in Stage
  BY DEF Leave, Idle, Step, Stage
<1>2. AtTypes' /\ at'[c] = <<"idle", "none">> /\ \A d \in Claim \ {c} : at'[d] = at[d]
  BY <1>1, GotoTypes DEF WorkerTypes
<1>3. row' \in [Claim -> JobState] /\ lock' \in Claim \cup {NoClaim}
  BY DEF WorkerTypes, Leave, JobState
<1> QED BY <1>2, <1>3 DEF WorkerTypes

\* A change of one intent.
LEMMA IntentTypesUpdate ==
  ASSUME IntentTypes, NEW c \in Claim, NEW m \in Method,
         NEW i \in [state : IntentState, hash : BOOLEAN, validUntil : Nat],
         intent' = [intent EXCEPT ![c][m] = i]
  PROVE  /\ IntentTypes' /\ intent'[c][m] = i
         /\ \A d \in Claim : \A n \in Method : d # c \/ n # m => intent'[d][n] = intent[d][n]
BY DEF IntentTypes

\* What a worker that waits for an answer does with it.
LEMMA AnsweredTypes ==
  ASSUME IntentTypes, WorkerTypes, NEW c \in Claim, NEW m \in Method \ {"collectPayment"},
         NEW v \in Nat, Answered(c, m, v), UNCHANGED <<lock, row>>
  PROVE  /\ IntentTypes' /\ WorkerTypes'
         /\ \A d \in Claim : \A n \in Method : intent'[d][n] # intent[d][n] =>
              d = c /\ n = m /\ at[c] = <<"verify", m>> /\ intent'[c][m].state = "PREPARED"
         /\ \A d \in Claim : at'[d] # at[d] =>
              d = c /\ at[c] = <<"verify", m>> /\ at'[c] = <<"send", m>>
<1>1. CASE /\ WaitsFor(c, m)
           /\ intent' = [intent EXCEPT ![c][m] =
                           [state |-> "PREPARED", hash |-> FALSE, validUntil |-> v]]
           /\ at' = [at EXCEPT ![c] = Step("send", m)]
  <2> DEFINE i == [state |-> "PREPARED", hash |-> FALSE, validUntil |-> v]
  <2>1. i \in [state : IntentState, hash : BOOLEAN, validUntil : Nat] /\ i.state = "PREPARED"
    BY DEF IntentState
  <2>2. intent' = [intent EXCEPT ![c][m] = i]
    BY <1>1
  <2> HIDE DEF i
  <2>3. /\ IntentTypes' /\ intent'[c][m] = i
        /\ \A d \in Claim : \A n \in Method : d # c \/ n # m => intent'[d][n] = intent[d][n]
    BY <2>1, <2>2, IntentTypesUpdate
  <2>4. "send" \in Stage /\ Goto(c, Step("send", m)) /\ m \in Method \cup {"none"} /\ AtTypes
    BY <1>1 DEF Stage, Goto, WorkerTypes
  <2>5. AtTypes' /\ at'[c] = <<"send", m>> /\ \A d \in Claim \ {c} : at'[d] = at[d]
    BY <2>4, GotoTypes
  <2>6. WorkerTypes'
    BY <2>5 DEF WorkerTypes
  <2>7. at[c] = <<"verify", m>>
    BY <1>1 DEF WaitsFor, Step
  <2> QED BY <2>1, <2>3, <2>5, <2>6, <2>7
<1>2. CASE UNCHANGED <<intent, at>>
  BY <1>2 DEF IntentTypes, WorkerTypes, AtTypes
<1> QED BY <1>1, <1>2 DEF Answered

\* The constants that are numbers.
LEMMA Numbers ==
  /\ SubmissionDeadline \in Nat /\ SettlementDeadline \in Nat /\ Duration \in Nat
  /\ AdmissionWindow \in Nat /\ MaxTime \in Nat /\ MaxCrashes \in Nat
  /\ Reward \in Nat /\ Reward > 0 /\ RequiredApprovals \in Nat /\ LargePayout \in Nat
BY SettlementAssumption

\* Outside FUNDED and REFUNDED the escrow names a claim that was reserved.
LEMMA EscrowNamesClaim ==
  ASSUME TypeOK, ClaimIsReserved, escrow.state \notin {"FUNDED", "REFUNDED"}
  PROVE  /\ escrow.claim \in Claim /\ WasReserved(escrow.claim)
         /\ assessment[escrow.claim].reward \in Nat
<1>1. escrow.claim \in Claim /\ WasReserved(escrow.claim)
  BY DEF ClaimIsReserved
<1> QED BY <1>1, SettlementAssumption DEF TypeOK

\* One event of the chain: who is named, and what the escrow is afterwards.
ChainEvent(name, c, amount) ==
  /\ Emit(name, c, amount) /\ name \in EventName /\ c \in Claim \cup {NoClaim} /\ amount \in Nat
  /\ escrow' \in [state : ChainState, claim : Claim \cup {NoClaim}, expiresAt : Nat]

\* An event of the chain keeps every type and is the log's last entry.
LEMMA ChainEventTypes ==
  ASSUME TypeOK, NEW name, NEW c, NEW amount, ChainEvent(name, c, amount),
         tx' \in [Claim -> [Method -> {"NONE", "PENDING", "SUCCESS", "REVERTED"}]],
         UNCHANGED <<envVars, verifierVars, workerVars, dbVars>>
  PROVE  TypeOK' /\ Grows /\ Len(log') = Len(log) + 1 /\ log'[Len(log')] = Event(name, c, amount)
<1>1. /\ ClockTypes /\ ChainTypes /\ RecordTypes /\ VerifierTypes /\ WorkerTypes
      /\ IntentTypes /\ JobTypes /\ RowTypes
  BY TypeGroups
<1>2. /\ Grows /\ log' \in Seq(LogEntry) /\ Len(log') = Len(log) + 1
      /\ log'[Len(log')] = Event(name, c, amount)
  BY <1>1, GrowsEmitting DEF ChainEvent, ChainTypes
<1>3. ChainTypes'
  BY <1>2 DEF ChainEvent, ChainTypes
<1>4. RecordTypes'
  BY <1>1, <1>2, RecordsKeep DEF dbVars
<1>5. ClockTypes' /\ VerifierTypes' /\ WorkerTypes' /\ IntentTypes' /\ JobTypes' /\ RowTypes'
  BY <1>1 DEF ClockTypes, VerifierTypes, WorkerTypes, AtTypes, IntentTypes, JobTypes, RowTypes,
              envVars, verifierVars, workerVars, dbVars
<1> QED BY <1>2, <1>3, <1>4, <1>5, TypeGroups DEF ClockTypes, ChainTypes, RecordTypes,
              VerifierTypes, WorkerTypes, AtTypes, IntentTypes, JobTypes, RowTypes, TypeOK, LogEntry

\* A signed call reaches the escrow, from the relayer or from another account.
Arrives(c, m) == Execute(c, m) \/ PresentedByOther(c, m)

\* What the escrow makes of it is one of these steps.
LEMMA ArrivalShape ==
  ASSUME TypeOK, ClaimIsReserved, NEW c \in Claim, NEW m \in Method, Arrives(c, m)
  PROVE  \/ /\ tx[c][m] = "PENDING" /\ tx' = [tx EXCEPT ![c][m] = "REVERTED"]
            /\ UNCHANGED <<escrow, log>>
         \/ /\ \/ tx[c][m] = "PENDING" /\ tx' = [tx EXCEPT ![c][m] = "SUCCESS"]
               \/ tx[c][m] # "NONE" /\ tx' = tx
            /\ \/ /\ m = "reserveClaim" /\ escrow.state = "FUNDED" /\ ~ WasReserved(c)
                  /\ escrow'.state = "RESERVED" /\ escrow'.claim = c
                  /\ ChainEvent("ClaimReserved", c, Reward)
               \/ /\ m = "submitAssessment" /\ escrow.state = "RESERVED" /\ escrow.claim = c
                  /\ assessment[c].outcome = "QUALIFIES"
                  /\ escrow'.state = "QUALIFIED" /\ escrow'.claim = c
                  /\ ChainEvent("ClaimQualified", c, assessment[c].reward)
               \/ /\ m = "submitAssessment" /\ escrow.state = "RESERVED" /\ escrow.claim = c
                  /\ escrow' = FundedEscrow
                  /\ ChainEvent("ClaimRejected", c, 0)
               \/ /\ m = "collectPayment" /\ escrow.state = "QUALIFIED"
                  /\ escrow'.state = "PAID" /\ escrow'.claim = escrow.claim
                  /\ ChainEvent("Paid", escrow.claim, assessment[escrow.claim].reward)
<1>1. CASE ~ Succeeds(c, m)
  BY <1>1 DEF Arrives, Execute, PresentedByOther
<1>2. CASE Succeeds(c, m)
  <2>1. /\ Effect(c, m)
        /\ \/ tx[c][m] = "PENDING" /\ tx' = [tx EXCEPT ![c][m] = "SUCCESS"]
           \/ tx[c][m] # "NONE" /\ tx' = tx
    BY <1>2 DEF Arrives, Execute, PresentedByOther
  <2>2. CASE m = "reserveClaim"
    <3>1. now + Duration \in Nat /\ SettlementDeadline \in Nat /\ Reward \in Nat
      BY Numbers DEF TypeOK
    <3>2. Lesser(now + Duration, SettlementDeadline) \in Nat
      BY <3>1 DEF Lesser
    <3>3. escrow.state = "FUNDED" /\ ~ WasReserved(c)
      BY <1>2, <2>2 DEF Succeeds, WasReserved, Final
    <3>4. /\ escrow' = [state |-> "RESERVED", claim |-> c,
                        expiresAt |-> Lesser(now + Duration, SettlementDeadline)]
          /\ Emit("ClaimReserved", c, Reward)
      BY <2>1, <2>2 DEF Effect
    <3> QED BY <2>1, <2>2, <3>1, <3>2, <3>3, <3>4 DEF ChainEvent, EventName, ChainState
  <2>3. CASE m = "submitAssessment"
    <3>1. escrow.state = "RESERVED" /\ escrow.claim = c
      BY <1>2, <2>3 DEF Succeeds
    <3>2. assessment[c].reward \in Nat
      <4>1. assessment[c].reward \in 0 .. Reward
        BY DEF TypeOK
      <4> QED BY <4>1, SettlementAssumption
    <3>3. CASE assessment[c].outcome = "QUALIFIES"
      <4>1. /\ escrow' = [escrow EXCEPT !.state = "QUALIFIED"]
            /\ Emit("ClaimQualified", c, assessment[c].reward)
        BY <2>1, <2>3, <3>3 DEF Effect
      <4>2. /\ escrow'.state = "QUALIFIED" /\ escrow'.claim = c
            /\ escrow' \in [state : ChainState, claim : Claim \cup {NoClaim}, expiresAt : Nat]
        BY <4>1, <3>1 DEF TypeOK, ChainState
      <4> QED BY <2>1, <2>3, <3>1, <3>2, <3>3, <4>1, <4>2 DEF ChainEvent, EventName
    <3>4. CASE assessment[c].outcome # "QUALIFIES"
      <4>1. escrow' = FundedEscrow /\ Emit("ClaimRejected", c, 0)
        BY <2>1, <2>3, <3>4 DEF Effect
      <4> QED BY <2>1, <2>3, <3>1, <4>1 DEF ChainEvent, EventName, FundedEscrow, ChainState
    <3> QED BY <3>3, <3>4
  <2>4. CASE m = "collectPayment"
    <3>1. escrow.state = "QUALIFIED"
      BY <1>2, <2>4 DEF Succeeds
    <3>2. escrow.claim \in Claim /\ assessment[escrow.claim].reward \in Nat
      BY <3>1, EscrowNamesClaim
    <3>3. /\ escrow' = [escrow EXCEPT !.state = "PAID"]
          /\ Emit("Paid", escrow.claim, assessment[escrow.claim].reward)
      BY <2>1, <2>4 DEF Effect
    <3>4. /\ escrow'.state = "PAID" /\ escrow'.claim = escrow.claim
          /\ escrow' \in [state : ChainState, claim : Claim \cup {NoClaim}, expiresAt : Nat]
      BY <3>3 DEF TypeOK, ChainState
    <3> QED BY <2>1, <2>4, <3>1, <3>2, <3>3, <3>4 DEF ChainEvent, EventName
  <2> QED BY <2>2, <2>3, <2>4 DEF Method
<1> QED BY <1>1, <1>2

\* The calls nobody signs, likewise.
OthersCall == CollectByOther \/ ExpireReservation \/ RefundExpired

\* The three calls anybody may send, as events of the chain.
LEMMA OthersShape ==
  ASSUME TypeOK, ClaimIsReserved, OthersCall
  PROVE  /\ tx' = tx
         /\ \/ /\ escrow.state = "QUALIFIED" /\ escrow'.state = "PAID"
               /\ escrow'.claim = escrow.claim
               /\ ChainEvent("Paid", escrow.claim, assessment[escrow.claim].reward)
            \/ /\ escrow.state = "RESERVED" /\ escrow' = FundedEscrow
               /\ ChainEvent("ReservationExpired", escrow.claim, 0)
            \/ /\ escrow.state \in {"FUNDED", "RESERVED"}
               /\ escrow'.state = "REFUNDED" /\ escrow'.claim = NoClaim
               /\ ChainEvent("BountyRefunded", escrow.claim, Reward)
<1> USE DEF TypeOK, ChainState
<1>1. CASE CollectByOther
  <2>1. escrow.claim \in Claim /\ assessment[escrow.claim].reward \in Nat
    BY <1>1, EscrowNamesClaim DEF CollectByOther
  <2>2. /\ escrow'.state = "PAID" /\ escrow'.claim = escrow.claim
        /\ escrow' \in [state : ChainState, claim : Claim \cup {NoClaim}, expiresAt : Nat]
    BY <1>1 DEF CollectByOther
  <2> QED BY <1>1, <2>1, <2>2 DEF CollectByOther, ChainEvent, EventName
<1>2. CASE ExpireReservation
  BY <1>2 DEF ExpireReservation, ReservationIsOver, ChainEvent, EventName, FundedEscrow
<1>3. CASE RefundExpired
  <2>1. escrow' = [state |-> "REFUNDED", claim |-> NoClaim, expiresAt |-> 0]
    BY <1>3 DEF RefundExpired, FundedEscrow
  <2>2. /\ escrow.state \in {"FUNDED", "RESERVED"} /\ tx' = tx
        /\ Emit("BountyRefunded", escrow.claim, Reward)
    BY <1>3 DEF RefundExpired, ReservationIsOver
  <2>3. Reward \in Nat
    BY SettlementAssumption
  <2> QED BY <2>1, <2>2, <2>3 DEF ChainEvent, EventName
<1> QED BY <1>1, <1>2, <1>3 DEF OthersCall

\* Groups of variables a step leaves alone keep their types.
LEMMA TypeFrames ==
  ASSUME TypeOK
  PROVE  /\ UNCHANGED envVars => ClockTypes'
         /\ UNCHANGED chainVars => ChainTypes'
         /\ UNCHANGED verifierVars => VerifierTypes'
         /\ UNCHANGED workerVars => WorkerTypes'
         /\ UNCHANGED log => Grows
         /\ UNCHANGED <<log, recorded, bounty>> => RecordTypes'
         /\ UNCHANGED intent => IntentTypes'
         /\ UNCHANGED job => JobTypes'
         /\ UNCHANGED <<admission, assessment, report, signatures>> => RowTypes'
<1>1. /\ ClockTypes /\ ChainTypes /\ RecordTypes /\ VerifierTypes /\ WorkerTypes
      /\ IntentTypes /\ JobTypes /\ RowTypes
  BY TypeGroups
<1>2. UNCHANGED envVars => ClockTypes'
  BY <1>1 DEF ClockTypes, envVars
<1>3. UNCHANGED chainVars => ChainTypes'
  BY <1>1 DEF ChainTypes, chainVars
<1>4. UNCHANGED verifierVars => VerifierTypes'
  BY <1>1 DEF VerifierTypes, verifierVars
<1>5. UNCHANGED workerVars => WorkerTypes'
  BY <1>1 DEF WorkerTypes, AtTypes, workerVars
<1>6. UNCHANGED log => Grows
  BY <1>1, GrowsStaying DEF ChainTypes
<1>7. UNCHANGED <<log, recorded, bounty>> => RecordTypes'
  BY <1>1 DEF RecordTypes
<1>8. UNCHANGED intent => IntentTypes'
  BY <1>1 DEF IntentTypes
<1>9. /\ UNCHANGED job => JobTypes'
      /\ UNCHANGED <<admission, assessment, report, signatures>> => RowTypes'
  BY <1>1 DEF JobTypes, RowTypes
<1> QED BY <1>2, <1>3, <1>4, <1>5, <1>6, <1>7, <1>8, <1>9

\* The groups after a step make TypeOK after it.
LEMMA TypesTogether ==
  ASSUME ClockTypes', ChainTypes', RecordTypes', VerifierTypes', WorkerTypes', IntentTypes',
         JobTypes', RowTypes'
  PROVE  TypeOK'
BY DEF ClockTypes, ChainTypes, RecordTypes, VerifierTypes, WorkerTypes, AtTypes,
       IntentTypes, JobTypes, RowTypes, TypeOK, LogEntry

\* The chain's steps keep the types, and the log only grows.
LEMMA TypesOfChain ==
  ASSUME TypeOK, ClaimIsReserved,
         OthersCall \/ \E c \in Claim, m \in Method : Arrives(c, m)
  PROVE  TypeOK' /\ Grows
<1>1. tx \in [Claim -> [Method -> {"NONE", "PENDING", "SUCCESS", "REVERTED"}]]
  BY DEF TypeOK
<1>2. CASE OthersCall
  <2>1. UNCHANGED <<envVars, verifierVars, workerVars, dbVars>> /\ tx' = tx
    BY <1>2 DEF OthersCall, CollectByOther, ExpireReservation, RefundExpired
  <2> QED BY <1>1, <1>2, <2>1, OthersShape, ChainEventTypes
<1>3. ASSUME NEW c \in Claim, NEW m \in Method, Arrives(c, m)
      PROVE  TypeOK' /\ Grows
  <2>1. UNCHANGED <<envVars, verifierVars, workerVars, dbVars>>
    BY <1>3 DEF Arrives, Execute, PresentedByOther
  <2>2. tx' \in [Claim -> [Method -> {"NONE", "PENDING", "SUCCESS", "REVERTED"}]]
    BY <1>1, <1>3, ArrivalShape
  <2>3. CASE UNCHANGED <<escrow, log>>
    <3>1. ChainTypes' /\ RecordTypes' /\ Grows /\ IntentTypes' /\ JobTypes' /\ RowTypes'
      BY <2>1, <2>2, <2>3, TypeFrames DEF ChainTypes, dbVars, TypeOK, LogEntry
    <3> QED BY <2>1, <3>1, TypeFrames, TypesTogether
  <2>4. CASE \E name, d, amount : ChainEvent(name, d, amount)
    BY <2>1, <2>2, <2>4, ChainEventTypes
  <2> QED BY <1>3, <2>3, <2>4, ArrivalShape
<1> QED BY <1>2, <1>3

\* So do the steps of the verifier.
LEMMA ServedTypes ==
  ASSUME TypeOK, NEW c \in Claim, Served(c), UNCHANGED requested
  PROVE  VerifierTypes'
BY DEF TypeOK, Served, VerifierTypes, Unread

\* The verifier's steps keep the types and the log.
LEMMA TypesOfVerifier ==
  ASSUME TypeOK, NEW c \in Claim, VerifierStep(c)
  PROVE  TypeOK' /\ Grows
<1>1. IntentTypes /\ WorkerTypes
  BY TypeGroups
<1>2. CASE \E kind \in {"ADMIT", "ASSESS"} : Serve(c, kind)
  <2>1. PICK kind \in {"ADMIT", "ASSESS"} : Serve(c, kind)
    BY <1>2
  <2>2. VerifierTypes'
    <3>1. now \in Nat /\ Allowed(c, kind) \in BOOLEAN
      <4>1. now \in Nat
        BY Numbers DEF TypeOK
      <4>2. (escrow.state = "FUNDED" /\ now < SubmissionDeadline) \in BOOLEAN
        OBVIOUS
      <4>3. (escrow.state = "RESERVED" /\ escrow.claim = c /\ now <= escrow.expiresAt) \in BOOLEAN
        OBVIOUS
      <4> QED BY <4>1, <4>2, <4>3 DEF Allowed
    <3> QED BY <2>1, <3>1 DEF Serve, TypeOK, VerifierTypes
  <2>3. UNCHANGED <<envVars, chainVars, workerVars, dbVars>>
    BY <2>1 DEF Serve
  <2> QED BY <2>2, <2>3, TypeFrames, TypesTogether DEF chainVars, dbVars
<1>3. CASE AdmitAgain(c)
  <2>1. IntentTypes' /\ WorkerTypes'
    <3>1. admission[c].validUntil \in Nat /\ "reserveClaim" \in Method \ {"collectPayment"}
      BY DEF TypeOK, Method
    <3> QED BY <1>1, <1>3, <3>1, AnsweredTypes DEF AdmitAgain
  <2> QED BY <1>3, <2>1, ServedTypes, TypeFrames, TypesTogether DEF AdmitAgain, chainVars
<1>4. CASE Admit(c)
  <2> DEFINE v == Lesser(seen[c].now + AdmissionWindow, SubmissionDeadline)
  <2>1. v \in Nat
    BY Numbers DEF TypeOK, Lesser
  <2>2. /\ admission' = [admission EXCEPT ![c] = [state |-> "SIGNED", validUntil |-> v]]
        /\ job' = [job EXCEPT ![c] = "RESERVING"]
        /\ Answered(c, "reserveClaim", v)
        /\ Served(c)
        /\ UNCHANGED <<envVars, chainVars, requested, lock, row, assessment, report,
                       recorded, bounty, signatures>>
    BY <1>4 DEF Admit
  <2> HIDE DEF v
  <2>3. IntentTypes' /\ WorkerTypes'
    <3>1. "reserveClaim" \in Method \ {"collectPayment"}
      BY DEF Method
    <3> QED BY <1>1, <2>1, <2>2, <3>1, AnsweredTypes
  <2>4. JobTypes' /\ RowTypes'
    BY <2>1, <2>2 DEF TypeOK, JobTypes, RowTypes, JobState
  <2> QED BY <2>2, <2>3, <2>4, ServedTypes, TypeFrames, TypesTogether DEF chainVars
<1>5. CASE AssessAgain(c)
  <2>1. IntentTypes' /\ WorkerTypes'
    <3>1. 0 \in Nat /\ "submitAssessment" \in Method \ {"collectPayment"}
      BY DEF Method
    <3> QED BY <1>1, <1>5, <3>1, AnsweredTypes DEF AssessAgain
  <2> QED BY <1>5, <2>1, ServedTypes, TypeFrames, TypesTogether DEF AssessAgain, chainVars
<1>6. CASE Assess(c)
  <2>1. IntentTypes' /\ WorkerTypes'
    <3>1. 0 \in Nat /\ "submitAssessment" \in Method \ {"collectPayment"}
      BY DEF Method
    <3> QED BY <1>1, <1>6, <3>1, AnsweredTypes DEF Assess
  <2>2. RowTypes'
    <3>1. PICK verdict \in Verdicts :
            /\ assessment' = [assessment EXCEPT ![c] = verdict]
            /\ report' = [report EXCEPT ![c] =
                            IF verdict.outcome = "QUALIFIES" THEN "HELD" ELSE "SEALED"]
      BY <1>6 DEF Assess
    <3>2. verdict \in [outcome : {"NONE", "QUALIFIES", "DOES_NOT_QUALIFY"}, reward : 0 .. Reward]
      BY Numbers DEF Verdicts
    <3>3. UNCHANGED <<admission, signatures>>
      BY <1>6 DEF Assess
    <3> QED BY <3>1, <3>2, <3>3 DEF TypeOK, RowTypes
  <2>3. JobTypes'
    BY <1>6 DEF Assess, TypeOK, JobTypes, JobState
  <2> QED BY <1>6, <2>1, <2>2, <2>3, ServedTypes, TypeFrames, TypesTogether DEF Assess, chainVars
<1>7. CASE Refuse(c)
  <2>1. WorkerTypes' /\ JobTypes'
    <3>1. WorkerTypes'
      BY <1>1, <1>7, LeaveTypes, TypeFrames DEF Refuse
    <3>2. job' = job \/ job' = [job EXCEPT ![c] = "INVALID_FIXTURE"]
      BY <1>7 DEF Refuse
    <3>3. JobTypes
      BY TypeGroups
    <3> QED BY <3>1, <3>2, <3>3 DEF JobTypes, JobState
  <2> QED BY <1>7, <2>1, ServedTypes, TypeFrames, TypesTogether DEF Refuse, chainVars
<1> QED BY <1>2, <1>3, <1>4, <1>5, <1>6, <1>7 DEF VerifierStep

\* So do the worker's steps.  Those which end the job, and those which move it
\* on and change no more than its own locals, first.
LEMMA GotoKeeps ==
  ASSUME TypeOK, NEW c \in Claim, NEW s \in Stage, NEW m \in Method \cup {"none"},
         Goto(c, Step(s, m)), UNCHANGED <<lock, row>>
  PROVE  WorkerTypes'
<1>1. WorkerTypes
  BY TypeGroups
<1> QED BY <1>1, GotoTypes DEF WorkerTypes

\* The end of a job keeps the worker's types.
LEMMA LeaveKeeps ==
  ASSUME TypeOK, NEW c \in Claim, Leave(c)
  PROVE  WorkerTypes'
BY TypeGroups, LeaveTypes

\* saveEvent writes events, the bounty's row and the claim's state.
LEMMA SaveEventTypes ==
  ASSUME TypeOK, NEW c \in Claim, NEW i \in 1 .. Len(log), SaveEvent(c, i), UNCHANGED log
  PROVE  RecordTypes' /\ JobTypes'
<1>1. ChainStateAfter(log[i].name) \in ChainState
  BY DEF ChainStateAfter, ChainState
<1>0. RecordTypes /\ JobTypes
  BY TypeGroups
<1>2. bounty' \in [state : ChainState, lastEvent : 1 .. Len(log)]
  BY <1>0, <1>1 DEF SaveEvent, FollowEvent, RecordTypes
<1>3. RecordTypes'
  BY <1>0, <1>2 DEF SaveEvent, RecordTypes
<1>4. JobAfter(c, log[i].name) \in JobState
  BY <1>0 DEF JobAfter, JobTypes, JobState
<1>5. JobTypes'
  BY <1>0, <1>4 DEF SaveEvent, JobTypes
<1> QED BY <1>3, <1>5

\* One intent gets a new state and keeps its deadline.
Writes(c, m, s) ==
  /\ intent'[c][m].state = s /\ intent'[c][m].validUntil = intent[c][m].validUntil
  /\ \A n \in Method \ {m} : intent'[c][n] = intent[c][n]
  /\ \A d \in Claim \ {c} : intent'[d] = intent[d]

\* An intent whose state alone changes keeps its types.
LEMMA IntentStateTypes ==
  ASSUME TypeOK, NEW c \in Claim, NEW m \in Method, NEW s \in IntentState,
         intent' = [intent EXCEPT ![c][m].state = s]
  PROVE  IntentTypes' /\ Writes(c, m, s)
<1> USE TypeGroups DEF IntentTypes
<1>1. IntentTypes'
  OBVIOUS
<1>2. intent'[c][m].state = s /\ intent'[c][m].validUntil = intent[c][m].validUntil
  OBVIOUS
<1>3. \A n \in Method \ {m} : intent'[c][n] = intent[c][n]
  OBVIOUS
<1>4. \A d \in Claim \ {c} : intent'[d] = intent[d]
  OBVIOUS
<1> QED BY <1>1, <1>2, <1>3, <1>4 DEF Writes

\* Saving the provider's hash writes BROADCAST.
LEMMA HashSaved ==
  ASSUME TypeOK, NEW c \in Claim, NEW m \in Method, SaveHash(c, m)
  PROVE  IntentTypes' /\ Writes(c, m, "BROADCAST")
<1> DEFINE i == [state |-> "BROADCAST", hash |-> TRUE, validUntil |-> intent[c][m].validUntil]
<1>1. IntentTypes
  BY TypeGroups
<1>2. /\ i \in [state : IntentState, hash : BOOLEAN, validUntil : Nat] /\ i.state = "BROADCAST"
      /\ i.validUntil = intent[c][m].validUntil
  BY <1>1 DEF IntentTypes, IntentState
<1>3. intent' = [intent EXCEPT ![c][m] = i]
  BY DEF SaveHash
<1> HIDE DEF i
<1>4. /\ IntentTypes' /\ intent'[c][m] = i
      /\ \A d \in Claim : \A n \in Method : d # c \/ n # m => intent'[d][n] = intent[d][n]
  BY <1>1, <1>2, <1>3, IntentTypesUpdate
<1>5. \A d \in Claim \ {c} : intent'[d] = intent[d]
  BY <1>1, <1>3 DEF IntentTypes
<1> QED BY <1>2, <1>4, <1>5 DEF Writes

\* The steps that start, stop or place a job keep the types and the log.
LEMMA TypesOfQueue ==
  ASSUME TypeOK, NEW c \in Claim, Start(c) \/ Acquire(c) \/ ReadChain(c) \/ Throw(c) \/ Crash(c)
  PROVE  TypeOK' /\ Grows
<1>1. CASE Start(c)
  <2>1. AtTypes' /\ row' \in [Claim -> JobState] /\ UNCHANGED lock
    <3>1. Goto(c, Step("lock", "none")) /\ "lock" \in Stage /\ AtTypes
      BY <1>1, TypeGroups DEF Start, Locked, Step, Stage, WorkerTypes
    <3> QED BY <1>1, <3>1, GotoTypes DEF Start, TypeOK
  <2>2. WorkerTypes'
    BY <2>1 DEF TypeOK, WorkerTypes
  <2> QED BY <1>1, <2>2, TypeFrames, TypesTogether DEF Start, dbVars, chainVars
<1>2. CASE Acquire(c)
  <2>1. WorkerTypes'
    <3>1. CASE Leave(c)
      BY <3>1, LeaveKeeps
    <3>2. CASE lock' = c /\ UNCHANGED row
               /\ Goto(c, Step(IF row[c] = "SETTLED" THEN "release" ELSE "read", "none"))
      <4>1. (IF row[c] = "SETTLED" THEN "release" ELSE "read") \in Stage /\ AtTypes
        BY TypeGroups DEF Stage, WorkerTypes
      <4>2. AtTypes'
        BY <3>2, <4>1, GotoTypes
      <4> QED BY <3>2, <4>2 DEF TypeOK, WorkerTypes
    <3> QED BY <1>2, <3>1, <3>2 DEF Acquire
  <2> QED BY <1>2, <2>1, TypeFrames, TypesTogether DEF Acquire, dbVars, chainVars
<1>3. CASE ReadChain(c)
  <2>1. \E s \in Stage, m \in Method \cup {"none"} : Goto(c, Step(s, m))
    BY <1>3 DEF ReadChain, Stage, Method
  <2>2. WorkerTypes'
    BY <1>3, <2>1, GotoKeeps DEF ReadChain
  <2> QED BY <1>3, <2>2, TypeFrames, TypesTogether DEF ReadChain, dbVars, chainVars
<1>4. CASE Throw(c)
  BY <1>4, LeaveKeeps, TypeFrames, TypesTogether DEF Throw, dbVars, chainVars
<1>5. CASE Crash(c)
  <2>1. ClockTypes'
    BY <1>5, Numbers DEF Crash, TypeOK, ClockTypes
  <2> QED BY <1>5, <2>1, LeaveKeeps, TypeFrames, TypesTogether DEF Crash, dbVars, chainVars
<1> QED BY <1>1, <1>2, <1>3, <1>4, <1>5

\* The stages of a relayed step keep the types and the log.
LEMMA TypesOfSteps ==
  ASSUME TypeOK, NEW c \in Claim, NEW m \in Method,
         BeginStep(c, m) \/ Send(c, m) \/ SaveHash(c, m) \/ SaveStep(c, m)
  PROVE  TypeOK' /\ Grows
<1> DEFINE Record == [state : IntentState, hash : BOOLEAN, validUntil : Nat]
<1>0. {"begin", "verify", "send", "hash", "receipt", "save-external", "quorum", "release"}
        \subseteq Stage
      /\ "none" \in Method \cup {"none"} /\ m \in Method \cup {"none"}
      /\ {"submitAssessment", "reserveClaim"} \subseteq Method
  BY DEF Stage, Method
<1>1. CASE BeginStep(c, m)
  <2>1. WorkerTypes'
    <3>1. \E s \in {"save-external", "receipt", "send", "verify"} : Goto(c, Step(s, m))
      BY <1>1 DEF BeginStep
    <3> QED BY <1>0, <1>1, <3>1, GotoKeeps DEF BeginStep
  <2>2. intent' = intent \/ intent' = [intent EXCEPT ![c][m].state = "PREPARED"]
    BY <1>1 DEF BeginStep
  <2>3. IntentTypes'
    BY <2>2, IntentStateTypes, TypeFrames DEF IntentState
  <2>4. requested' = requested \/ requested' = [requested EXCEPT ![c] = @ \cup {KindOf(m)}]
    BY <1>1 DEF BeginStep
  <2>5. VerifierTypes'
    <3>1. VerifierTypes /\ KindOf(m) \in {"ADMIT", "ASSESS"}
      BY TypeGroups DEF KindOf
    <3>2. requested' \in [Claim -> SUBSET {"ADMIT", "ASSESS"}]
      BY <2>4, <3>1 DEF VerifierTypes
    <3> QED BY <1>1, <3>1, <3>2 DEF BeginStep, VerifierTypes
  <2> QED BY <1>1, <2>1, <2>3, <2>5, TypeFrames, TypesTogether DEF BeginStep, chainVars
<1>2. CASE Send(c, m)
  <2>1. WorkerTypes' /\ IntentTypes'
    BY <1>0, <1>2, GotoKeeps, IntentStateTypes DEF Send, IntentState
  <2>2. tx' \in [Claim -> [Method -> {"NONE", "PENDING", "SUCCESS", "REVERTED"}]]
    <3>1. tx \in [Claim -> [Method -> {"NONE", "PENDING", "SUCCESS", "REVERTED"}]]
      BY DEF TypeOK
    <3>2. \/ tx' = [tx EXCEPT ![c][m] = "PENDING"]
          \/ tx' = [tx EXCEPT ![c][m] = tx[c][m]]
      BY <1>2, <3>1 DEF Send
    <3> QED BY <3>1, <3>2
  <2>3. ChainTypes'
    BY <1>2, <2>2 DEF Send, TypeOK, ChainTypes, LogEntry
  <2> QED BY <1>2, <2>1, <2>3, TypeFrames, TypesTogether DEF Send
<1>3. CASE SaveHash(c, m)
  <2>1. WorkerTypes'
    BY <1>0, <1>3, GotoKeeps DEF SaveHash
  <2>2. IntentTypes'
    BY <1>3, HashSaved
  <2> QED BY <1>3, <2>1, <2>2, TypeFrames, TypesTogether DEF SaveHash, chainVars
<1>4. CASE SaveStep(c, m)
  <2>1. WorkerTypes'
    <3>1. CASE Leave(c)
      BY <3>1, LeaveKeeps
    <3>2. CASE Goto(c, AfterStep(m)) /\ UNCHANGED <<row, lock>>
      <4>1. \E s \in Stage, n \in Method \cup {"none"} : AfterStep(m) = Step(s, n)
        BY <1>0 DEF AfterStep
      <4> QED BY <3>2, <4>1, GotoKeeps
    <3> QED BY <1>4, <3>1, <3>2 DEF SaveStep
  <2>2. IntentTypes'
    BY <1>4, IntentStateTypes DEF SaveStep, IntentState
  <2>3. UNCHANGED <<log, envVars, chainVars, verifierVars, admission, assessment, report, signatures>>
    BY <1>4 DEF SaveStep, chainVars
  <2>4. RecordTypes' /\ JobTypes'
    BY <1>4, <2>3, SaveEventTypes DEF SaveStep
  <2> QED BY <2>1, <2>2, <2>3, <2>4, TypeFrames, TypesTogether
<1> QED BY <1>1, <1>2, <1>3, <1>4

\* The job's other transactions keep the types and the log.
LEMMA TypesOfRecords ==
  ASSUME TypeOK, NEW c \in Claim,
         \/ RecordAdmissionExpired(c) \/ RequestRecovery(c) \/ SaveExternalPayment(c)
         \/ CloseIntent(c) \/ AwaitQuorum(c) \/ PassQuorum(c) \/ ReleaseIfPaid(c)
  PROVE  TypeOK' /\ Grows
<1>0. /\ {"begin", "reconcile", "release"} \subseteq Stage
      /\ "none" \in Method \cup {"none"} /\ {"reserveClaim", "collectPayment"} \subseteq Method
  BY DEF Stage, Method
<1>1. CASE RecordAdmissionExpired(c)
  <2>1. IntentTypes'
    BY <1>0, <1>1, IntentStateTypes DEF RecordAdmissionExpired, IntentState
  <2>2. JobTypes' /\ RowTypes'
    <3>1. JobTypes /\ RowTypes
      BY TypeGroups
    <3>2. JobTypes'
      BY <1>1, <3>1 DEF RecordAdmissionExpired, JobTypes, JobState
    <3>3. admission' \in [Claim -> [state : {"NONE", "SIGNED", "EXPIRED"}, validUntil : Nat]]
      BY <1>1, <3>1 DEF RecordAdmissionExpired, RowTypes
    <3> QED BY <1>1, <3>1, <3>2, <3>3 DEF RecordAdmissionExpired, RowTypes
  <2> QED BY <1>1, <2>1, <2>2, LeaveKeeps, TypeFrames, TypesTogether
          DEF RecordAdmissionExpired, chainVars
<1>2. CASE RequestRecovery(c)
  <2>1. JobTypes'
    BY <1>2 DEF RequestRecovery, TypeOK, JobTypes, JobState
  <2> QED BY <1>2, <2>1, LeaveKeeps, TypeFrames, TypesTogether DEF RequestRecovery, chainVars
<1>3. CASE SaveExternalPayment(c)
  <2>1. WorkerTypes'
    BY <1>0, <1>3, GotoKeeps DEF SaveExternalPayment
  <2>2. RecordTypes' /\ JobTypes'
    BY <1>3, SaveEventTypes DEF SaveExternalPayment, chainVars
  <2> QED BY <1>3, <2>1, <2>2, TypeFrames, TypesTogether DEF SaveExternalPayment, chainVars
<1>4. CASE CloseIntent(c)
  <2>1. WorkerTypes'
    BY <1>0, <1>4, GotoKeeps DEF CloseIntent
  <2>2. intent' = intent \/ intent' = [intent EXCEPT ![c]["collectPayment"].state = "RECONCILED"]
    BY <1>4 DEF CloseIntent
  <2>3. IntentTypes'
    BY <1>0, <2>2, IntentStateTypes, TypeFrames DEF IntentState
  <2> QED BY <1>4, <2>1, <2>3, TypeFrames, TypesTogether DEF CloseIntent, chainVars
<1>5. CASE AwaitQuorum(c)
  <2>1. JobTypes'
    BY <1>5 DEF AwaitQuorum, TypeOK, JobTypes, JobState
  <2>2. RowTypes'
    <3>1. RowTypes /\ 0 \in -1 .. RequiredApprovals
      BY TypeGroups, Numbers
    <3> QED BY <1>5, <3>1 DEF AwaitQuorum, RowTypes
  <2> QED BY <1>5, <2>1, <2>2, LeaveKeeps, TypeFrames, TypesTogether DEF AwaitQuorum, chainVars
<1>6. CASE PassQuorum(c)
  <2>1. WorkerTypes'
    BY <1>0, <1>6, GotoKeeps DEF PassQuorum
  <2> QED BY <1>6, <2>1, TypeFrames, TypesTogether DEF PassQuorum, chainVars, dbVars
<1>7. CASE ReleaseIfPaid(c)
  <2>1. RowTypes'
    BY <1>7 DEF ReleaseIfPaid, TypeOK, RowTypes
  <2> QED BY <1>7, <2>1, LeaveKeeps, TypeFrames, TypesTogether DEF ReleaseIfPaid, chainVars
<1> QED BY <1>1, <1>2, <1>3, <1>4, <1>5, <1>6, <1>7

\* So do people, the clock and recovery.
LEMMA TypesOfOthers ==
  ASSUME TypeOK,
         \/ Tick
         \/ \E c \in Claim : SubmitClaim(c) \/ SignApproval(c)
         \/ \E i \in 1 .. Len(log) : Reconcile(i)
  PROVE  TypeOK' /\ Grows
<1>1. CASE Tick
  <2>1. ClockTypes'
    BY <1>1, Numbers DEF Tick, TypeOK, ClockTypes
  <2> QED BY <1>1, <2>1, TypeFrames, TypesTogether DEF Tick, chainVars, dbVars
<1>2. ASSUME NEW c \in Claim, SubmitClaim(c) PROVE TypeOK' /\ Grows
  <2>1. JobTypes'
    BY <1>2 DEF SubmitClaim, TypeOK, JobTypes, JobState
  <2> QED BY <1>2, <2>1, TypeFrames, TypesTogether DEF SubmitClaim, chainVars
<1>3. ASSUME NEW c \in Claim, SignApproval(c) PROVE TypeOK' /\ Grows
  <2>1. RowTypes'
    <3>1. RowTypes
      BY TypeGroups
    <3>2. signatures[c] + 1 \in -1 .. RequiredApprovals
      BY <1>3, Numbers DEF SignApproval
    <3> QED BY <1>3, <3>1, <3>2 DEF SignApproval, RowTypes
  <2> QED BY <1>3, <2>1, TypeFrames, TypesTogether DEF SignApproval, chainVars
<1>4. ASSUME NEW i \in 1 .. Len(log), Reconcile(i) PROVE TypeOK' /\ Grows
  <2> DEFINE c == ExpiredBy(i)
  <2>1. ChainStateAfter(log[i].name) \in ChainState
    BY DEF ChainStateAfter, ChainState
  <2>2. FollowEvent(i) \/ UNCHANGED bounty
    BY <1>4 DEF Reconcile
  <2>3. /\ recorded' = recorded \cup {i} /\ UNCHANGED log
        /\ UNCHANGED <<envVars, chainVars, verifierVars, workerVars, admission, assessment,
                       intent, signatures>>
    BY <1>4 DEF Reconcile, chainVars
  <2>4. RecordTypes'
    <3>1. RecordTypes
      BY TypeGroups
    <3>2. bounty' \in [state : ChainState, lastEvent : 1 .. Len(log)]
      BY <2>1, <2>2, <3>1 DEF FollowEvent, RecordTypes
    <3> QED BY <2>3, <3>1, <3>2 DEF RecordTypes
  <2>5. \/ UNCHANGED <<job, report>>
        \/ /\ job' = [job EXCEPT ![c] = "EXPIRED"]
           /\ report' = [report EXCEPT ![c] = IF @ \in {"HELD", "SEALED"} THEN "RESOLVED" ELSE @]
    BY <1>4 DEF Reconcile
  <2>6. JobTypes' /\ RowTypes'
    <3>1. JobTypes /\ RowTypes
      BY TypeGroups
    <3>2. JobTypes'
      BY <2>5, <3>1 DEF JobTypes, JobState
    <3>3. report' \in [Claim -> {"NONE", "HELD", "SEALED", "RESOLVED", "AVAILABLE"}]
      BY <2>5, <3>1 DEF RowTypes
    <3> QED BY <2>3, <3>1, <3>2, <3>3 DEF RowTypes
  <2> QED BY <2>3, <2>4, <2>6, TypeFrames, TypesTogether
<1> QED BY <1>1, <1>2, <1>3, <1>4

\* Every step of the system is of one of these groups.
LEMMA NextGroups ==
  ASSUME Next
  PROVE  \/ OthersCall \/ (\E c \in Claim, m \in Method : Arrives(c, m))
         \/ \E c \in Claim : VerifierStep(c)
         \/ \E c \in Claim : Start(c) \/ Acquire(c) \/ ReadChain(c) \/ Throw(c) \/ Crash(c)
         \/ \E c \in Claim, m \in Method :
              BeginStep(c, m) \/ Send(c, m) \/ SaveHash(c, m) \/ SaveStep(c, m)
         \/ \E c \in Claim :
              \/ RecordAdmissionExpired(c) \/ RequestRecovery(c) \/ SaveExternalPayment(c)
              \/ CloseIntent(c) \/ AwaitQuorum(c) \/ PassQuorum(c) \/ ReleaseIfPaid(c)
         \/ Tick
         \/ \E c \in Claim : SubmitClaim(c) \/ SignApproval(c)
         \/ \E i \in 1 .. Len(log) : Reconcile(i)
BY DEF Next, WorkerStep, OthersCall, Arrives

\* Every step keeps the types and the log.
LEMMA TypesOfNext ==
  ASSUME TypeOK, ClaimIsReserved, Next
  PROVE  TypeOK' /\ Grows
BY NextGroups, TypesOfChain, TypesOfVerifier, TypesOfQueue, TypesOfSteps, TypesOfRecords,
   TypesOfOthers

-----------------------------------------------------------------------------
(* What no step takes back.                                                *)

\* A final event stays final.
LEMMA PositionsGrow ==
  ASSUME Grows, NEW name, NEW c
  PROVE  Positions(name, c) \subseteq Positions(name, c)'
BY DEF Grows, Positions

\* No event is new while the log is the same.
LEMMA PositionsStay ==
  ASSUME UNCHANGED log
  PROVE  \A name, c : Positions(name, c)' = Positions(name, c)
BY DEF Positions

\* Only one event is new.
LEMMA PositionsAdd ==
  ASSUME Grows, Len(log') = Len(log) + 1, NEW e, log'[Len(log')] = e,
         NEW name, NEW c, e.name # name \/ e.claim # c
  PROVE  Positions(name, c)' = Positions(name, c)
BY DEF Grows, Positions

\* A transaction that was sent, one that succeeded, an assessment, an event
\* recorded and a signature stay, and the clock does not run back.
Kept ==
  /\ \A c \in Claim : \A m \in Method : /\ tx[c][m] = "SUCCESS" => tx'[c][m] = "SUCCESS"
                                        /\ tx[c][m] # "NONE" => tx'[c][m] # "NONE"
  /\ \A c \in Claim : assessment[c].outcome # "NONE" => assessment'[c] = assessment[c]
  /\ recorded \subseteq recorded'
  /\ \A c \in Claim : signatures'[c] >= signatures[c]
  /\ now' >= now

\* A step that leaves those variables alone takes nothing back.
LEMMA KeptByFrame ==
  ASSUME TypeOK, UNCHANGED <<tx, assessment, signatures, now>>, recorded \subseteq recorded'
  PROVE  Kept
<1>1. now \in Int /\ \A c \in Claim : signatures[c] \in Int
  BY Numbers DEF TypeOK
<1> QED BY <1>1 DEF Kept

\* No step takes any of it back: only what is pending is executed, only
\* what was not assessed is assessed.
LEMMA KeptByNext ==
  ASSUME TypeOK, Next
  PROVE  Kept
<1>0. /\ now \in Int /\ \A c \in Claim : signatures[c] \in Int
      /\ tx \in [Claim -> [Method -> {"NONE", "PENDING", "SUCCESS", "REVERTED"}]]
  BY Numbers DEF TypeOK
<1>1. CASE OthersCall
  BY <1>1, KeptByFrame DEF OthersCall, CollectByOther, ExpireReservation, RefundExpired, dbVars,
     envVars
<1>2. ASSUME NEW c \in Claim, NEW m \in Method, Arrives(c, m) PROVE Kept
  <2>1. \/ /\ tx[c][m] = "PENDING"
           /\ \/ tx' = [tx EXCEPT ![c][m] = "SUCCESS"]
              \/ tx' = [tx EXCEPT ![c][m] = "REVERTED"]
        \/ tx' = tx
    BY <1>2 DEF Arrives, Execute, PresentedByOther
  <2>2. \A d \in Claim : \A n \in Method : /\ tx[d][n] = "SUCCESS" => tx'[d][n] = "SUCCESS"
                                           /\ tx[d][n] # "NONE" => tx'[d][n] # "NONE"
    BY <1>0, <2>1
  <2>3. UNCHANGED <<assessment, recorded, signatures, now>>
    BY <1>2 DEF Arrives, Execute, PresentedByOther, dbVars, envVars
  <2> QED BY <1>0, <2>2, <2>3 DEF Kept
<1>3. ASSUME NEW c \in Claim, VerifierStep(c) PROVE Kept
  <2>1. CASE Assess(c)
    <3>1. /\ assessment[c].outcome = "NONE"
          /\ \E verdict \in Verdicts : assessment' = [assessment EXCEPT ![c] = verdict]
      BY <2>1 DEF Assess
    <3>2. \A d \in Claim : assessment[d].outcome # "NONE" => assessment'[d] = assessment[d]
      BY <3>1 DEF TypeOK
    <3> QED BY <1>0, <2>1, <3>2 DEF Assess, Kept, chainVars, envVars
  <2>2. CASE ~ Assess(c)
    <3>1. UNCHANGED <<tx, assessment, signatures, now, recorded>>
      BY <1>3, <2>2 DEF VerifierStep, Serve, AdmitAgain, Admit, AssessAgain, Refuse, chainVars,
         envVars, dbVars
    <3> QED BY <3>1, KeptByFrame
  <2> QED BY <2>1, <2>2
<1>4. ASSUME NEW c \in Claim,
             Start(c) \/ Acquire(c) \/ ReadChain(c) \/ Throw(c) \/ Crash(c)
      PROVE  Kept
  <2>1. UNCHANGED <<tx, assessment, signatures, now, recorded>>
    BY <1>4 DEF Start, Acquire, ReadChain, Throw, Crash, chainVars, envVars, dbVars
  <2> QED BY <2>1, KeptByFrame
<1>5. ASSUME NEW c \in Claim, NEW m \in Method,
             BeginStep(c, m) \/ Send(c, m) \/ SaveHash(c, m) \/ SaveStep(c, m)
      PROVE  Kept
  <2>1. CASE Send(c, m)
    <3>1. \/ tx' = [tx EXCEPT ![c][m] = "PENDING"] /\ tx[c][m] = "NONE"
          \/ tx' = [tx EXCEPT ![c][m] = tx[c][m]]
      BY <1>0, <2>1 DEF Send
    <3>2. \A d \in Claim : \A n \in Method : /\ tx[d][n] = "SUCCESS" => tx'[d][n] = "SUCCESS"
                                             /\ tx[d][n] # "NONE" => tx'[d][n] # "NONE"
      BY <1>0, <3>1
    <3> QED BY <1>0, <2>1, <3>2 DEF Send, Kept, envVars
  <2>2. CASE BeginStep(c, m) \/ SaveHash(c, m) \/ SaveStep(c, m)
    <3>1. UNCHANGED <<tx, assessment, signatures, now>> /\ recorded \subseteq recorded'
      BY <2>2 DEF BeginStep, SaveHash, SaveStep, SaveEvent, chainVars, envVars
    <3> QED BY <3>1, KeptByFrame
  <2> QED BY <1>5, <2>1, <2>2
<1>6. ASSUME NEW c \in Claim,
             \/ RecordAdmissionExpired(c) \/ RequestRecovery(c) \/ SaveExternalPayment(c)
             \/ CloseIntent(c) \/ AwaitQuorum(c) \/ PassQuorum(c) \/ ReleaseIfPaid(c)
      PROVE  Kept
  <2>1. CASE AwaitQuorum(c)
    <3>1. \A d \in Claim : signatures'[d] >= signatures[d]
      BY <1>0, <2>1, TypeGroups DEF AwaitQuorum, RowTypes
    <3> QED BY <1>0, <2>1, <3>1 DEF AwaitQuorum, Kept, chainVars, envVars
  <2>2. CASE ~ AwaitQuorum(c)
    <3>1. UNCHANGED <<tx, assessment, signatures, now>> /\ recorded \subseteq recorded'
      BY <1>6, <2>2 DEF RecordAdmissionExpired, RequestRecovery, SaveExternalPayment, SaveEvent,
         CloseIntent, PassQuorum, ReleaseIfPaid, chainVars, envVars, dbVars
    <3> QED BY <3>1, KeptByFrame
  <2> QED BY <2>1, <2>2
<1>7. CASE Tick
  BY <1>0, <1>7 DEF Tick, Kept, chainVars, dbVars
<1>8. ASSUME NEW c \in Claim, SubmitClaim(c) \/ SignApproval(c) PROVE Kept
  <2>1. \A d \in Claim : signatures'[d] >= signatures[d]
    BY <1>0, <1>8, TypeGroups DEF SubmitClaim, SignApproval, RowTypes
  <2> QED BY <1>0, <1>8, <2>1 DEF SubmitClaim, SignApproval, Kept, chainVars, envVars
<1>9. ASSUME NEW i \in 1 .. Len(log), Reconcile(i) PROVE Kept
  <2>1. UNCHANGED <<tx, assessment, signatures, now>> /\ recorded \subseteq recorded'
    BY <1>9 DEF Reconcile, chainVars, envVars
  <2> QED BY <2>1, KeptByFrame
<1> QED BY <1>1, <1>2, <1>3, <1>4, <1>5, <1>6, <1>7, <1>8, <1>9, NextGroups

-----------------------------------------------------------------------------
(* The chain.                                                              *)

\* Each entry of the log names a claim or nobody.
LEMMA LogTypes ==
  ASSUME TypeOK
  PROVE  /\ Len(log) \in Nat
         /\ \A i \in 1 .. Len(log) : log[i] \in LogEntry /\ log[i].claim \in Claim \cup {NoClaim}
<1>1. log \in Seq(LogEntry)
  BY TypeGroups DEF ChainTypes
<1>2. \A i \in 1 .. Len(log) : log[i] \in LogEntry
  BY <1>1
<1> QED BY <1>1, <1>2 DEF LogEntry

\* A step that is not the chain's.
LEMMA ChainFrame ==
  ASSUME TypeOK, ChainInv, Kept, UNCHANGED <<escrow, log>>
  PROVE  ChainInv'
<1>1. /\ \A name, c : Positions(name, c)' = Positions(name, c)
      /\ \A c : (\A name : Final(name, c)' <=> Final(name, c))
  BY PositionsStay DEF Final
<1>2. ClaimIsReserved'
  BY <1>1 DEF ChainInv, ClaimIsReserved, WasReserved, Kept, Method
<1>3. ExpiredIsOver'
  BY <1>1 DEF ChainInv, ExpiredIsOver, ExpiredBy
<1>4. CreditIsAssessed'
  BY <1>1 DEF ChainInv, CreditIsAssessed, Kept
<1>5. EscrowFollowsLog'
  BY DEF ChainInv, EscrowFollowsLog
<1> QED BY <1>2, <1>3, <1>4, <1>5 DEF ChainInv

\* One more event, of a claim that was reserved, or of none.
LEMMA EventKeeps ==
  ASSUME TypeOK, ChainInv, Kept, Grows, Len(log') = Len(log) + 1,
         NEW e \in LogEntry, log'[Len(log')] = e, UNCHANGED assessment,
         e.claim # NoClaim => WasReserved(e.claim)',
         IF escrow'.state \in {"FUNDED", "REFUNDED"} THEN escrow'.claim = NoClaim
         ELSE escrow'.claim \in Claim /\ WasReserved(escrow.claim)',
         e.name = "ClaimReserved" => e.claim \in Claim /\ tx[e.claim]["reserveClaim"] # "NONE",
         escrow'.state = ChainStateAfter(e.name),
         e.name = "ClaimQualified" =>
           /\ escrow.claim = e.claim /\ escrow'.claim = e.claim
           /\ e.claim \in Claim /\ assessment[e.claim].outcome = "QUALIFIES",
         escrow'.claim # NoClaim /\ escrow'.claim # escrow.claim =>
           ~ \E c \in Claim : c = escrow'.claim /\ WasReserved(c),
         e.name = "ClaimReserved" => escrow.claim = NoClaim,
         e.name \in {"ReservationExpired", "BountyRefunded"} =>
           escrow'.claim = NoClaim /\ escrow.state \in {"FUNDED", "RESERVED"} /\ e.claim = escrow.claim
  PROVE  ChainInv'
<1> DEFINE n == Len(log')
<1>0. /\ n \in Nat /\ Len(log) \in Nat /\ n = Len(log) + 1
      /\ \A i \in 1 .. n : (i \in 1 .. Len(log) /\ log'[i] = log[i]) \/ i = n
  BY DEF Grows
<1>1. ClaimIsReserved'
  <2>1. \A c : WasReserved(c) => WasReserved(c)'
    BY PositionsGrow DEF WasReserved, Final
  <2>2. \A i \in 1 .. n : log'[i].claim # NoClaim => WasReserved(log[i].claim)'
    BY <1>0, <2>1 DEF ChainInv, ClaimIsReserved
  <2>3. \A c \in Claim : WasReserved(c)' => tx'[c]["reserveClaim"] # "NONE"
    <3>1. \A c \in Claim : WasReserved(c)' =>
            WasReserved(c) \/ (e.name = "ClaimReserved" /\ e.claim = c)
      BY PositionsAdd DEF WasReserved, Final
    <3> QED BY <3>1 DEF ChainInv, ClaimIsReserved, Kept, Method
  <2> QED BY <2>2, <2>3 DEF ClaimIsReserved
<1>2. \A c \in Claim : Final("ClaimQualified", c)' =>
        Final("ClaimQualified", c) \/ (e.name = "ClaimQualified" /\ e.claim = c)
  BY PositionsAdd DEF Final
<1>3. \A c \in Claim : Final("ClaimQualified", c) => WasReserved(c)
  BY SettlementAssumption DEF Final, Positions, ChainInv, ClaimIsReserved
<1>4. \A c \in Claim : \A i \in 1 .. Len(log) : ExpiredBy(i) = c => WasReserved(c)
  BY SettlementAssumption DEF ExpiredBy, ChainInv, ClaimIsReserved
<1>5. ExpiredIsOver'
  <2> SUFFICES ASSUME NEW c \in Claim, NEW i \in 1 .. n, ExpiredBy(i)' = c
               PROVE  escrow'.claim # c /\ ~ Final("ClaimQualified", c)'
    BY DEF ExpiredIsOver
  <2>1. CASE i \in 1 .. Len(log) /\ log'[i] = log[i]
    <3>1. ExpiredBy(i) = c
      BY <2>1 DEF ExpiredBy
    <3>2. escrow.claim # c /\ ~ Final("ClaimQualified", c) /\ WasReserved(c)
      BY <2>1, <3>1, <1>4 DEF ChainInv, ExpiredIsOver
    <3>3. escrow'.claim # c
      BY <3>2, SettlementAssumption
    <3> QED BY <3>2, <3>3, <1>2
  <2>2. CASE i = n
    <3>1. e.name \in {"ReservationExpired", "BountyRefunded"} /\ e.claim = c
      BY <2>2, SettlementAssumption DEF ExpiredBy
    <3>2. escrow'.claim # c /\ escrow.claim = c /\ escrow.state = "RESERVED"
      BY <3>1, SettlementAssumption DEF ChainInv, ClaimIsReserved
    <3>3. ~ Final("ClaimQualified", c)
      BY <3>2 DEF ChainInv, CreditIsAssessed
    <3> QED BY <3>1, <3>2, <3>3, <1>2
  <2> QED BY <1>0, <2>1, <2>2
<1>6. CreditIsAssessed'
  <2>1. ASSUME escrow'.state = "RESERVED", Final("ClaimQualified", escrow.claim)'
        PROVE  FALSE
    <3>1. escrow'.claim \in Claim /\ e.name = "ClaimReserved" /\ escrow.claim = NoClaim
      BY <2>1 DEF ChainStateAfter
    <3>2. PICK c \in Claim : c = escrow'.claim
      BY <3>1
    <3>3. Positions("ClaimQualified", c)' = Positions("ClaimQualified", c)
      BY <3>1, PositionsAdd
    <3>4. Final("ClaimQualified", c)
      BY <2>1, <3>2, <3>3 DEF Final
    <3> QED BY <3>1, <3>2, <3>4, <1>3, SettlementAssumption
  <2>2. \A c \in Claim : Final("ClaimQualified", c)' => assessment'[c].outcome = "QUALIFIES"
    BY <1>2 DEF ChainInv, CreditIsAssessed
  <2> QED BY <2>1, <2>2 DEF CreditIsAssessed
<1>7. EscrowFollowsLog'
  BY <1>0 DEF EscrowFollowsLog
<1> QED BY <1>1, <1>5, <1>6, <1>7 DEF ChainInv

\* A payment, whoever collects it.
LEMMA PaymentKeeps ==
  ASSUME TypeOK, ChainInv, Kept,
         escrow.state = "QUALIFIED", escrow'.state = "PAID", escrow'.claim = escrow.claim,
         ChainEvent("Paid", escrow.claim, assessment[escrow.claim].reward),
         tx' \in [Claim -> [Method -> {"NONE", "PENDING", "SUCCESS", "REVERTED"}]],
         UNCHANGED <<envVars, verifierVars, workerVars, dbVars>>
  PROVE  ChainInv'
<1> DEFINE e == Event("Paid", escrow.claim, assessment[escrow.claim].reward)
<1>1. Grows /\ Len(log') = Len(log) + 1 /\ log'[Len(log')] = e
  BY ChainEventTypes
<1>2. e \in LogEntry /\ e.name = "Paid" /\ e.claim = escrow.claim
  BY DEF ChainEvent, Event, LogEntry
<1>3. escrow.claim \in Claim /\ WasReserved(escrow.claim)'
  <2>1. escrow.claim \in Claim /\ WasReserved(escrow.claim)
    BY DEF ChainInv, ClaimIsReserved
  <2>2. PICK c \in Claim : c = escrow.claim /\ c = escrow'.claim
    BY <2>1
  <2>3. WasReserved(c)'
    BY <1>1, <2>1, <2>2, PositionsGrow DEF WasReserved, Final
  <2> QED BY <2>2, <2>3
<1>4. ChainStateAfter(e.name) = "PAID"
  BY <1>2 DEF ChainStateAfter
<1>5. UNCHANGED assessment
  BY DEF dbVars
<1> HIDE DEF e
<1> QED BY <1>1, <1>2, <1>3, <1>4, <1>5, EventKeeps

\* Every signed call that the escrow accepts is such an event.
LEMMA ChainOfArrival ==
  ASSUME TypeOK, ChainInv, Kept, NEW c \in Claim, NEW m \in Method, Arrives(c, m)
  PROVE  ChainInv'
<1> DEFINE Sent == \/ tx[c][m] = "PENDING" /\ tx' = [tx EXCEPT ![c][m] = "SUCCESS"]
                   \/ tx[c][m] # "NONE" /\ tx' = tx
<1>0. /\ ClaimIsReserved
      /\ UNCHANGED <<envVars, verifierVars, workerVars, dbVars>>
      /\ UNCHANGED assessment
      /\ tx \in [Claim -> [Method -> {"NONE", "PENDING", "SUCCESS", "REVERTED"}]]
      /\ "reserveClaim" \in Method
  BY DEF ChainInv, Arrives, Execute, PresentedByOther, dbVars, TypeOK, Method
<1>1. CASE /\ tx[c][m] = "PENDING" /\ tx' = [tx EXCEPT ![c][m] = "REVERTED"]
           /\ UNCHANGED <<escrow, log>>
  BY <1>1, ChainFrame
<1>2. ASSUME Sent
      PROVE  /\ tx' \in [Claim -> [Method -> {"NONE", "PENDING", "SUCCESS", "REVERTED"}]]
             /\ tx[c][m] # "NONE"
  BY <1>0, <1>2
<1>3. \A d \in Claim : WasReserved(d) /\ Grows => WasReserved(d)'
  BY PositionsGrow DEF WasReserved, Final
<1>4. CASE /\ Sent /\ m = "reserveClaim" /\ escrow.state = "FUNDED" /\ ~ WasReserved(c)
           /\ escrow'.state = "RESERVED" /\ escrow'.claim = c
           /\ ChainEvent("ClaimReserved", c, Reward)
  <2> DEFINE e == Event("ClaimReserved", c, Reward)
  <2>1. Grows /\ Len(log') = Len(log) + 1 /\ log'[Len(log')] = e
    BY <1>0, <1>2, <1>4, ChainEventTypes
  <2>2. e \in LogEntry /\ e.name = "ClaimReserved" /\ e.claim = c
    BY Numbers DEF Event, LogEntry, EventName
  <2>3. WasReserved(c)'
    <3>1. Len(log') \in 1 .. Len(log') /\ log'[Len(log')].name = "ClaimReserved"
          /\ log'[Len(log')].claim = c
      BY <2>1, <2>2 DEF Grows
    <3> QED BY <3>1 DEF WasReserved, Final, Positions
  <2>4. escrow.claim = NoClaim
    BY <1>4 DEF ChainInv, ClaimIsReserved
  <2>5. ChainStateAfter(e.name) = "RESERVED"
    BY <2>2 DEF ChainStateAfter
  <2>6. tx[c]["reserveClaim"] # "NONE"
    BY <1>2, <1>4
  <2>7. WasReserved(escrow.claim)'
    BY <1>4, <2>3
  <2> HIDE DEF e, Sent
  <2> QED BY <1>0, <1>4, <2>1, <2>2, <2>3, <2>4, <2>5, <2>6, <2>7, EventKeeps
<1>5. CASE /\ Sent /\ m = "submitAssessment" /\ escrow.state = "RESERVED" /\ escrow.claim = c
           /\ assessment[c].outcome = "QUALIFIES"
           /\ escrow'.state = "QUALIFIED" /\ escrow'.claim = c
           /\ ChainEvent("ClaimQualified", c, assessment[c].reward)
  <2> DEFINE e == Event("ClaimQualified", c, assessment[c].reward)
  <2>1. Grows /\ Len(log') = Len(log) + 1 /\ log'[Len(log')] = e
    BY <1>0, <1>2, <1>5, ChainEventTypes
  <2>2. e \in LogEntry /\ e.name = "ClaimQualified" /\ e.claim = c
    BY <1>5 DEF ChainEvent, Event, LogEntry
  <2>3. WasReserved(c)'
    BY <1>3, <1>5, <2>1 DEF ChainInv, ClaimIsReserved
  <2>4. ChainStateAfter(e.name) = "QUALIFIED"
    BY <2>2 DEF ChainStateAfter
  <2>6. WasReserved(escrow.claim)'
    BY <1>5, <2>3
  <2> HIDE DEF e, Sent
  <2> QED BY <1>0, <1>5, <2>1, <2>2, <2>3, <2>4, <2>6, EventKeeps
<1>6. CASE /\ Sent /\ m = "submitAssessment" /\ escrow.state = "RESERVED" /\ escrow.claim = c
           /\ escrow' = FundedEscrow
           /\ ChainEvent("ClaimRejected", c, 0)
  <2> DEFINE e == Event("ClaimRejected", c, 0)
  <2>1. Grows /\ Len(log') = Len(log) + 1 /\ log'[Len(log')] = e
    BY <1>0, <1>2, <1>6, ChainEventTypes
  <2>2. e \in LogEntry /\ e.name = "ClaimRejected" /\ e.claim = c
    BY <1>6 DEF ChainEvent, Event, LogEntry
  <2>3. WasReserved(c)'
    BY <1>3, <1>6, <2>1 DEF ChainInv, ClaimIsReserved
  <2>4. escrow'.claim = NoClaim /\ escrow'.state = "FUNDED" /\ ChainStateAfter(e.name) = "FUNDED"
    BY <1>6, <2>2 DEF FundedEscrow, ChainStateAfter
  <2> HIDE DEF e, Sent
  <2> QED BY <1>0, <2>1, <2>2, <2>3, <2>4, EventKeeps
<1>7. CASE /\ Sent /\ m = "collectPayment" /\ escrow.state = "QUALIFIED"
           /\ escrow'.state = "PAID" /\ escrow'.claim = escrow.claim
           /\ ChainEvent("Paid", escrow.claim, assessment[escrow.claim].reward)
  <2> HIDE DEF Sent
  <2> QED BY <1>0, <1>2, <1>7, PaymentKeeps
<1> QED BY <1>1, <1>4, <1>5, <1>6, <1>7, ArrivalShape DEF ChainInv

\* The calls of others keep the chain's invariant.
LEMMA ChainOfOthers ==
  ASSUME TypeOK, ChainInv, Kept, OthersCall
  PROVE  ChainInv'
<1>0. /\ ClaimIsReserved
      /\ UNCHANGED <<envVars, verifierVars, workerVars, dbVars>>
      /\ UNCHANGED assessment /\ tx' = tx
      /\ tx' \in [Claim -> [Method -> {"NONE", "PENDING", "SUCCESS", "REVERTED"}]]
  BY DEF ChainInv, OthersCall, CollectByOther, ExpireReservation, RefundExpired, dbVars, TypeOK
<1>1. CASE /\ escrow.state = "QUALIFIED" /\ escrow'.state = "PAID" /\ escrow'.claim = escrow.claim
           /\ ChainEvent("Paid", escrow.claim, assessment[escrow.claim].reward)
  BY <1>0, <1>1, PaymentKeeps
<1>2. CASE \/ /\ escrow.state = "RESERVED" /\ escrow' = FundedEscrow
              /\ ChainEvent("ReservationExpired", escrow.claim, 0)
           \/ /\ escrow.state \in {"FUNDED", "RESERVED"}
              /\ escrow'.state = "REFUNDED" /\ escrow'.claim = NoClaim
              /\ ChainEvent("BountyRefunded", escrow.claim, Reward)
  <2>1. PICK e \in {Event("ReservationExpired", escrow.claim, 0),
                    Event("BountyRefunded", escrow.claim, Reward)} :
          /\ ChainEvent(e.name, escrow.claim, e.amount)
          /\ e = Event(e.name, escrow.claim, e.amount)
          /\ e.name \in {"ReservationExpired", "BountyRefunded"} /\ e.claim = escrow.claim
          /\ escrow'.claim = NoClaim /\ escrow.state \in {"FUNDED", "RESERVED"}
          /\ escrow'.state = ChainStateAfter(e.name) /\ escrow'.state \in {"FUNDED", "REFUNDED"}
    BY <1>2 DEF Event, FundedEscrow, ChainStateAfter
  <2>2. Grows /\ Len(log') = Len(log) + 1 /\ log'[Len(log')] = e
    BY <1>0, <2>1, ChainEventTypes
  <2>3. e \in LogEntry
    BY <2>1 DEF ChainEvent, Event, LogEntry
  <2>4. e.claim # NoClaim => WasReserved(e.claim)'
    <3>1. e.claim # NoClaim => WasReserved(e.claim)
      BY <1>0, <2>1 DEF ClaimIsReserved
    <3> QED BY <2>2, <3>1, PositionsGrow DEF WasReserved, Final
  <2> QED BY <1>0, <2>1, <2>2, <2>3, <2>4, EventKeeps
<1> QED BY <1>0, <1>1, <1>2, OthersShape

\* Every step keeps the chain's invariant.
LEMMA ChainOfNext ==
  ASSUME TypeOK, ChainInv, Next
  PROVE  ChainInv'
<1>1. Kept
  BY KeptByNext
<1>2. CASE OthersCall
  BY <1>1, <1>2, ChainOfOthers
<1>3. CASE \E c \in Claim, m \in Method : Arrives(c, m)
  BY <1>1, <1>3, ChainOfArrival
<1>4. CASE ~ OthersCall /\ ~ \E c \in Claim, m \in Method : Arrives(c, m)
  <2>1. UNCHANGED <<escrow, log>>
    BY <1>4, NextGroups DEF VerifierStep, Serve, AdmitAgain, Admit, AssessAgain, Assess, Refuse,
       Start, Acquire, ReadChain, Throw, Crash, BeginStep, Send, SaveHash, SaveStep,
       RecordAdmissionExpired, RequestRecovery, SaveExternalPayment, CloseIntent, AwaitQuorum,
       PassQuorum, ReleaseIfPaid, Tick, SubmitClaim, SignApproval, Reconcile, chainVars
  <2> QED BY <1>1, <2>1, ChainFrame
<1> QED BY <1>2, <1>3, <1>4

-----------------------------------------------------------------------------
(* The bounty's row.                                                       *)

\* An event is recorded by saveEvent or by recovery.
LEMMA RecordingSteps ==
  ASSUME Next
  PROVE  \/ UNCHANGED <<recorded, bounty>>
         \/ UNCHANGED log /\ \E c \in Claim : \E i \in 1 .. Len(log) : SaveEvent(c, i)
         \/ \E i \in 1 .. Len(log) : Reconcile(i)
BY NextGroups DEF OthersCall, CollectByOther, ExpireReservation, RefundExpired,
   Arrives, Execute, PresentedByOther, VerifierStep, Serve, AdmitAgain, Admit, AssessAgain, Assess, Refuse,
   Start, Acquire, ReadChain, Throw, Crash, BeginStep, Send, SaveHash, SaveStep,
   RecordAdmissionExpired, RequestRecovery, SaveExternalPayment, CloseIntent, AwaitQuorum,
   PassQuorum, ReleaseIfPaid, Tick, SubmitClaim, SignApproval, dbVars, chainVars

\* The bounty's row keeps following the log: an event the chain adds is not
\* recorded yet, and one that is recorded is followed past the last only.
LEMMA BountyOfNext ==
  ASSUME TypeOK, ChainInv, BountyFollowsLog, Next, Grows
  PROVE  BountyFollowsLog'
<1>0. /\ Len(log) \in Nat /\ recorded \subseteq 1 .. Len(log) /\ bounty.lastEvent \in 1 .. Len(log)
      /\ bounty \in [state : ChainState, lastEvent : 1 .. Len(log)]
      /\ log'[bounty.lastEvent] = log[bounty.lastEvent]
  BY TypeGroups, LogTypes DEF RecordTypes, Grows
<1>1. CASE UNCHANGED <<recorded, bounty>>
  <2>1. Len(log') \in recorded' => Len(log') = Len(log)
    BY <1>0, <1>1 DEF Grows
  <2> QED BY <1>0, <1>1, <2>1 DEF BountyFollowsLog
<1>2. ASSUME NEW i \in 1 .. Len(log), FollowEvent(i), recorded' = recorded \cup {i}, UNCHANGED log
      PROVE  BountyFollowsLog'
  <2>1. CASE bounty.lastEvent < i
    <3>1. bounty'.state = ChainStateAfter(log[i].name) /\ bounty'.lastEvent = i
      BY <1>2, <2>1 DEF FollowEvent
    <3>2. Len(log) \in recorded => bounty.lastEvent = Len(log)
      BY DEF BountyFollowsLog
    <3> QED BY <1>0, <1>2, <2>1, <3>1, <3>2 DEF BountyFollowsLog
  <2>2. CASE ~ (bounty.lastEvent < i)
    <3>1. UNCHANGED bounty
      BY <1>2, <2>2 DEF FollowEvent
    <3>2. Len(log) \in recorded' => bounty.lastEvent = Len(log)
      BY <1>0, <1>2, <2>2 DEF BountyFollowsLog
    <3> QED BY <1>0, <1>2, <3>1, <3>2 DEF BountyFollowsLog
  <2> QED BY <2>1, <2>2
<1>3. CASE UNCHANGED log /\ \E c \in Claim : \E i \in 1 .. Len(log) : SaveEvent(c, i)
  BY <1>2, <1>3 DEF SaveEvent
<1>4. ASSUME NEW i \in 1 .. Len(log), Reconcile(i) PROVE BountyFollowsLog'
  <2>1. UNCHANGED log /\ recorded' = recorded \cup {i}
    BY <1>4 DEF Reconcile, chainVars
  <2>2. CASE FollowEvent(i)
    BY <1>2, <2>1, <2>2
  <2>3. CASE ~ FollowEvent(i)
    <3>1. /\ UNCHANGED bounty /\ escrow.state # "FUNDED" /\ log[i].name = "ReservationExpired"
      BY <1>4, <2>3 DEF Reconcile
    <3>2. i # Len(log)
      BY <3>1 DEF ChainInv, EscrowFollowsLog, ChainStateAfter
    <3> QED BY <1>0, <2>1, <3>1, <3>2 DEF BountyFollowsLog
  <2> QED BY <2>2, <2>3
<1> QED BY <1>1, <1>3, <1>4, RecordingSteps

-----------------------------------------------------------------------------
(* The job's memory, the gate and the intents.                             *)

\* What a job found remains true: records, credits, signatures and payments
\* stay, and so does the end of an admission whose intent is not replaced.
LEMMA GateKept ==
  ASSUME TypeOK, TypeOK', ChainInv, Kept, Grows, NEW c \in Claim
  PROVE  /\ CreditRecorded(c) => CreditRecorded(c)'
         /\ Gated(c) => Gated(c)'
         /\ Final("Paid", c) => Final("Paid", c)'
         /\ AdmissionIsOver(c) /\ intent'[c]["reserveClaim"].validUntil
                                    = intent[c]["reserveClaim"].validUntil => AdmissionIsOver(c)'
<1>1. \A name : Positions(name, c) \subseteq Positions(name, c)'
  BY PositionsGrow
<1>2. CreditRecorded(c) => CreditRecorded(c)'
  BY <1>1 DEF CreditRecorded, Kept
<1>3. CreditRecorded(c) => assessment'[c] = assessment[c]
  BY DEF CreditRecorded, ChainInv, CreditIsAssessed, Final, Kept
<1>4. /\ signatures[c] \in Int /\ signatures'[c] \in Int /\ signatures'[c] >= signatures[c]
      /\ RequiredApprovals \in Int
  BY Numbers DEF TypeOK, Kept
<1>5. HasQuorum(c) => HasQuorum(c)'
  BY <1>4 DEF HasQuorum
<1>6. Gated(c) => Gated(c)'
  BY <1>2, <1>3, <1>5 DEF Gated, NeedsQuorum
<1>7. Final("Paid", c) => Final("Paid", c)'
  BY <1>1 DEF Final
<1>8. now \in Nat /\ now' \in Nat /\ now' >= now /\ intent[c]["reserveClaim"].validUntil \in Nat
  <2>1. IntentTypes /\ "reserveClaim" \in Method
    BY TypeGroups DEF Method
  <2>2. intent[c]["reserveClaim"].validUntil \in Nat
    BY <2>1 DEF IntentTypes
  <2> QED BY <2>2, Numbers DEF TypeOK, Kept
<1> QED BY <1>2, <1>6, <1>7, <1>8 DEF AdmissionIsOver

\* What a step has to show for the claim it is about; it leaves the jobs and
\* the intents of the other claims alone.
JobStep(c) ==
  /\ \A d \in Claim \ {c} :
       at'[d] = at[d] /\ intent'[d] = intent[d] /\ tx'[d]["collectPayment"] = tx[d]["collectPayment"]
  /\ at'[c] = Step("quorum", "none") => at'[c] = at[c] \/ CreditRecorded(c)'
  /\ at'[c][2] = "collectPayment" => at'[c] = at[c] \/ Gated(c)'
  /\ at'[c] = Step("reconcile", "none") => at'[c] = at[c] \/ Final("Paid", c)'
  /\ at'[c] = Step("admission-expired", "none") => AdmissionIsOver(c)'
  /\ tx'[c]["collectPayment"] # "NONE" => tx[c]["collectPayment"] # "NONE" \/ Gated(c)'
  /\ \A m \in Method : intent'[c][m].state = "CONFIRMED" =>
       intent[c][m].state = "CONFIRMED" \/ tx'[c][m] = "SUCCESS"
  /\ intent'[c]["collectPayment"].state = "RECONCILED" =>
       intent[c]["collectPayment"].state = "RECONCILED" \/ Final("Paid", c)'
  /\ intent'[c]["reserveClaim"].state = "EXPIRED" =>
       \/ AdmissionIsOver(c)'
       \/ intent'[c]["reserveClaim"] = intent[c]["reserveClaim"]

\* Such a step of one job keeps the invariant of all.
LEMMA JobStepKeeps ==
  ASSUME TypeOK, TypeOK', ChainInv, JobInv, Kept, Grows, NEW c \in Claim, JobStep(c)
  PROVE  JobInv'
<1>1. JobRemembers'
  <2> SUFFICES ASSUME NEW d \in Claim
               PROVE  /\ at'[d] = Step("quorum", "none") => CreditRecorded(d)'
                      /\ at'[d][2] = "collectPayment" => Gated(d)'
                      /\ at'[d] = Step("reconcile", "none") => Final("Paid", d)'
                      /\ at'[d] = Step("admission-expired", "none") => AdmissionIsOver(d)'
    BY DEF JobRemembers, Step
  <2>1. CASE d = c
    BY <2>1, GateKept DEF JobStep, JobInv, JobRemembers
  <2>2. CASE d # c
    <3>1. at'[d] = at[d] /\ intent'[d] = intent[d]
      BY <2>2 DEF JobStep
    <3> QED BY <3>1, GateKept DEF JobInv, JobRemembers
  <2> QED BY <2>1, <2>2
<1>2. PayoutIsGated'
  <2> SUFFICES ASSUME NEW d \in Claim, tx'[d]["collectPayment"] # "NONE" PROVE Gated(d)'
    BY DEF PayoutIsGated, Gated, CreditRecorded
  <2>1. tx[d]["collectPayment"] # "NONE" \/ Gated(d)'
    BY DEF JobStep
  <2>2. tx[d]["collectPayment"] # "NONE" => Gated(d)
    BY DEF JobInv, PayoutIsGated, Gated, CreditRecorded
  <2> QED BY <2>1, <2>2, GateKept
<1>3. IntentsTellTheTruth'
  <2> SUFFICES ASSUME NEW d \in Claim
               PROVE  /\ \A m \in Method : intent'[d][m].state = "CONFIRMED" => tx'[d][m] = "SUCCESS"
                      /\ intent'[d]["collectPayment"].state = "RECONCILED" => Final("Paid", d)'
                      /\ intent'[d]["reserveClaim"].state = "EXPIRED"
                           /\ tx'[d]["reserveClaim"] # "SUCCESS" => AdmissionIsOver(d)'
    BY DEF IntentsTellTheTruth, AdmissionIsOver
  <2>1. \A m \in Method : intent'[d][m].state = "CONFIRMED" => tx'[d][m] = "SUCCESS"
    BY DEF JobStep, JobInv, IntentsTellTheTruth, Kept
  <2>2. intent'[d]["collectPayment"].state = "RECONCILED" => Final("Paid", d)'
    BY GateKept DEF JobStep, JobInv, IntentsTellTheTruth
  <2>3. intent'[d]["reserveClaim"].state = "EXPIRED" /\ tx'[d]["reserveClaim"] # "SUCCESS" =>
          AdmissionIsOver(d)'
    <3>1. tx'[d]["reserveClaim"] # "SUCCESS" => tx[d]["reserveClaim"] # "SUCCESS"
      BY DEF Kept, Method
    <3>2. intent[d]["reserveClaim"].state = "EXPIRED" /\ tx[d]["reserveClaim"] # "SUCCESS" =>
            AdmissionIsOver(d)
      BY DEF JobInv, IntentsTellTheTruth, AdmissionIsOver
    <3>3. intent'[d]["reserveClaim"].state = "EXPIRED" =>
            AdmissionIsOver(d)' \/ intent'[d]["reserveClaim"] = intent[d]["reserveClaim"]
      BY DEF JobStep
    <3> QED BY <3>1, <3>2, <3>3, GateKept
  <2> QED BY <2>1, <2>2, <2>3
<1> QED BY <1>1, <1>2, <1>3 DEF JobInv

\* Steps that leave the jobs, the intents and the requests of a payment alone.
LEMMA JobFrame ==
  ASSUME TypeOK, TypeOK', ChainInv, JobInv, Kept, Grows, UNCHANGED <<at, intent>>,
         \A c \in Claim : tx'[c]["collectPayment"] # "NONE" => tx[c]["collectPayment"] # "NONE"
  PROVE  JobInv'
<1>1. JobRemembers'
  <2> SUFFICES ASSUME NEW d \in Claim
               PROVE  /\ at[d] = Step("quorum", "none") => CreditRecorded(d)'
                      /\ at[d][2] = "collectPayment" => Gated(d)'
                      /\ at[d] = Step("reconcile", "none") => Final("Paid", d)'
                      /\ at[d] = Step("admission-expired", "none") => AdmissionIsOver(d)'
    BY DEF JobRemembers, Step
  <2> QED BY GateKept DEF JobInv, JobRemembers
<1>2. PayoutIsGated'
  <2> SUFFICES ASSUME NEW d \in Claim, tx'[d]["collectPayment"] # "NONE" PROVE Gated(d)'
    BY DEF PayoutIsGated, Gated, CreditRecorded
  <2>1. Gated(d)
    BY DEF JobInv, PayoutIsGated, Gated, CreditRecorded
  <2> QED BY <2>1, GateKept
<1>3. IntentsTellTheTruth'
  <2> SUFFICES ASSUME NEW d \in Claim
               PROVE  /\ \A m \in Method : intent[d][m].state = "CONFIRMED" => tx'[d][m] = "SUCCESS"
                      /\ intent[d]["collectPayment"].state = "RECONCILED" => Final("Paid", d)'
                      /\ intent[d]["reserveClaim"].state = "EXPIRED"
                           /\ tx'[d]["reserveClaim"] # "SUCCESS" => AdmissionIsOver(d)'
    BY DEF IntentsTellTheTruth, AdmissionIsOver
  <2>1. \A m \in Method : intent[d][m].state = "CONFIRMED" => tx'[d][m] = "SUCCESS"
    BY DEF JobInv, IntentsTellTheTruth, Kept
  <2>2. intent[d]["collectPayment"].state = "RECONCILED" => Final("Paid", d)'
    BY GateKept DEF JobInv, IntentsTellTheTruth
  <2>3. tx'[d]["reserveClaim"] # "SUCCESS" => tx[d]["reserveClaim"] # "SUCCESS"
    BY DEF Kept, Method
  <2>4. intent[d]["reserveClaim"].state = "EXPIRED" /\ tx[d]["reserveClaim"] # "SUCCESS" =>
          AdmissionIsOver(d)
    BY DEF JobInv, IntentsTellTheTruth, AdmissionIsOver
  <2> QED BY <2>1, <2>2, <2>3, <2>4, GateKept
<1> QED BY <1>1, <1>2, <1>3 DEF JobInv

\* A job that stands at a place where nothing has to be remembered.
Plain(p) == /\ p[2] # "collectPayment"
            /\ p \notin {Step("quorum", "none"), Step("reconcile", "none"),
                         Step("admission-expired", "none")}

\* A step that takes a job to such a place and leaves its intents alone.
LEMMA PlainStep ==
  ASSUME NEW c \in Claim, Plain(at'[c]), UNCHANGED <<intent, tx>>,
         \A d \in Claim \ {c} : at'[d] = at[d]
  PROVE  JobStep(c)
BY DEF Plain, JobStep, Step

\* The end of a job is such a step.
LEMMA LeaveStep ==
  ASSUME TypeOK, NEW c \in Claim, Leave(c), UNCHANGED <<intent, tx>>
  PROVE  JobStep(c)
<1>1. at'[c] = <<"idle", "none">> /\ \A d \in Claim \ {c} : at'[d] = at[d]
  BY TypeGroups, LeaveTypes
<1>2. Plain(at'[c])
  BY <1>1 DEF Plain, Step
<1> QED BY <1>1, <1>2, PlainStep

\* Where a job that goes on is afterwards.
LEMMA Going ==
  ASSUME TypeOK, NEW c \in Claim, NEW s \in Stage, NEW m \in Method \cup {"none"},
         Goto(c, Step(s, m))
  PROVE  at'[c] = <<s, m>> /\ \A d \in Claim \ {c} : at'[d] = at[d]
BY TypeGroups, GotoTypes DEF WorkerTypes

\* An answer sets a prepared intent of a claim that waits for it.
LEMMA AnsweredStep ==
  ASSUME TypeOK, NEW c \in Claim, NEW m \in Method \ {"collectPayment"}, NEW v \in Nat,
         Answered(c, m, v), UNCHANGED <<lock, row, tx>>
  PROVE  UNCHANGED <<at, intent>> \/ JobStep(c)
<1>1. IntentTypes /\ WorkerTypes
  BY TypeGroups
<1>2. CASE UNCHANGED <<at, intent>>
  BY <1>2
<1>3. CASE /\ intent' = [intent EXCEPT ![c][m] =
                           [state |-> "PREPARED", hash |-> FALSE, validUntil |-> v]]
           /\ at' = [at EXCEPT ![c] = Step("send", m)]
  <2> DEFINE i == [state |-> "PREPARED", hash |-> FALSE, validUntil |-> v]
  <2>1. i \in [state : IntentState, hash : BOOLEAN, validUntil : Nat] /\ i.state = "PREPARED"
    BY DEF IntentState
  <2>2. intent' = [intent EXCEPT ![c][m] = i]
    BY <1>3
  <2> HIDE DEF i
  <2>3. /\ intent'[c][m] = i
        /\ \A d \in Claim : \A n \in Method : d # c \/ n # m => intent'[d][n] = intent[d][n]
    <3>1. IntentTypes
      BY <1>1
    <3> QED BY <2>1, <2>2, <3>1, IntentTypesUpdate
  <2>4. \A d \in Claim \ {c} : intent'[d] = intent[d]
    BY <1>1, <2>2 DEF IntentTypes
  <2>5. at'[c] = <<"send", m>> /\ \A d \in Claim \ {c} : at'[d] = at[d]
    BY <1>1, <1>3 DEF WorkerTypes, AtTypes, Step
  <2>6. {"collectPayment", "reserveClaim"} \subseteq Method
    BY DEF Method
  <2> QED BY <2>1, <2>3, <2>4, <2>5, <2>6 DEF JobStep, Step
<1> QED BY <1>2, <1>3 DEF Answered

\* The verifier moves the job that waits for its answer, or none.
LEMMA JobOfVerifier ==
  ASSUME TypeOK, NEW c \in Claim, VerifierStep(c)
  PROVE  UNCHANGED tx /\ (UNCHANGED <<at, intent>> \/ JobStep(c))
<1>0. {"reserveClaim", "submitAssessment"} \subseteq Method \ {"collectPayment"} /\ 0 \in Nat
  BY DEF Method
<1>1. CASE \E kind \in {"ADMIT", "ASSESS"} : Serve(c, kind)
  BY <1>1 DEF Serve, chainVars, workerVars, dbVars
<1>2. CASE AdmitAgain(c)
  <2>1. admission[c].validUntil \in Nat
    BY DEF TypeOK
  <2>2. Answered(c, "reserveClaim", admission[c].validUntil) /\ UNCHANGED <<lock, row, tx>>
    BY <1>2 DEF AdmitAgain, chainVars
  <2> QED BY <1>0, <2>1, <2>2, AnsweredStep
<1>3. CASE Admit(c)
  <2> DEFINE v == Lesser(seen[c].now + AdmissionWindow, SubmissionDeadline)
  <2>1. v \in Nat
    BY Numbers DEF TypeOK, Lesser
  <2>2. Answered(c, "reserveClaim", v) /\ UNCHANGED <<lock, row, tx>>
    BY <1>3 DEF Admit, chainVars
  <2> HIDE DEF v
  <2> QED BY <1>0, <2>1, <2>2, AnsweredStep
<1>4. CASE AssessAgain(c) \/ Assess(c)
  <2>1. Answered(c, "submitAssessment", 0) /\ UNCHANGED <<lock, row, tx>>
    BY <1>4 DEF AssessAgain, Assess, chainVars
  <2> QED BY <1>0, <2>1, AnsweredStep
<1>5. CASE Refuse(c)
  <2>1. UNCHANGED <<intent, tx>> /\ (Leave(c) \/ UNCHANGED at)
    BY <1>5 DEF Refuse, chainVars, workerVars
  <2> QED BY <2>1, LeaveStep
<1> QED BY <1>1, <1>2, <1>3, <1>4, <1>5 DEF VerifierStep

\* Starting, stopping and placing a job.
LEMMA JobOfQueue ==
  ASSUME TypeOK, TypeOK', NEW c \in Claim,
         Start(c) \/ Acquire(c) \/ ReadChain(c) \/ Throw(c) \/ Crash(c)
  PROVE  JobStep(c)
<1>0. {"lock", "release", "read", "admission-expired", "reservation-over", "begin"} \subseteq Stage
      /\ "none" \in Method \cup {"none"} /\ "reserveClaim" \in Method
  BY DEF Stage, Method
<1>1. CASE Start(c)
  <2>1. Goto(c, Step("lock", "none")) /\ UNCHANGED <<intent, tx>>
    BY <1>1 DEF Start, Locked, Step, chainVars, dbVars
  <2>2. at'[c] = <<"lock", "none">> /\ \A d \in Claim \ {c} : at'[d] = at[d]
    BY <1>0, <2>1, Going
  <2> QED BY <2>1, <2>2, PlainStep DEF Plain, Step
<1>2. CASE Acquire(c)
  <2>1. UNCHANGED <<intent, tx>>
    BY <1>2 DEF Acquire, chainVars, dbVars
  <2>2. Leave(c) \/ \E s \in {"release", "read"} : Goto(c, Step(s, "none"))
    BY <1>2 DEF Acquire
  <2>3. ASSUME NEW s \in {"release", "read"}, Goto(c, Step(s, "none")) PROVE JobStep(c)
    <3>1. at'[c] = <<s, "none">> /\ \A d \in Claim \ {c} : at'[d] = at[d]
      BY <1>0, <2>3, Going
    <3> QED BY <2>1, <3>1, PlainStep DEF Plain, Step
  <2> QED BY <2>1, <2>2, <2>3, LeaveStep
<1>3. CASE ReadChain(c)
  <2>1. UNCHANGED <<intent, tx, now>>
    BY <1>3 DEF ReadChain, chainVars, dbVars, envVars
  <2>2. \/ Goto(c, Step("admission-expired", "none")) /\ AdmissionIsOver(c)
        \/ Goto(c, Step("reservation-over", "none"))
        \/ Goto(c, Step("begin", "reserveClaim"))
    BY <1>3 DEF ReadChain
  <2>3. CASE Goto(c, Step("admission-expired", "none")) /\ AdmissionIsOver(c)
    <3>1. at'[c] = <<"admission-expired", "none">> /\ \A d \in Claim \ {c} : at'[d] = at[d]
      BY <1>0, <2>3, Going
    <3>2. AdmissionIsOver(c)'
      BY <2>1, <2>3 DEF AdmissionIsOver
    <3> QED BY <2>1, <3>1, <3>2 DEF JobStep, Step
  <2>4. CASE Goto(c, Step("reservation-over", "none")) \/ Goto(c, Step("begin", "reserveClaim"))
    <3>1. at'[c] \in {<<"reservation-over", "none">>, <<"begin", "reserveClaim">>}
          /\ \A d \in Claim \ {c} : at'[d] = at[d]
      BY <1>0, <2>4, Going
    <3> QED BY <2>1, <3>1, PlainStep DEF Plain, Step
  <2> QED BY <2>2, <2>3, <2>4
<1>4. CASE Throw(c) \/ Crash(c)
  BY <1>4, LeaveStep DEF Throw, Crash, chainVars, dbVars
<1> QED BY <1>1, <1>2, <1>3, <1>4

\* A change of the state of one intent, to one that claims nothing.
LEMMA IntentStep ==
  ASSUME TypeOK, NEW c \in Claim, NEW m \in Method,
         NEW s \in IntentState \ {"CONFIRMED", "EXPIRED", "RECONCILED"},
         intent' = [intent EXCEPT ![c][m].state = s] \/ UNCHANGED intent
  PROVE  /\ \A d \in Claim \ {c} : intent'[d] = intent[d]
         /\ \A n \in Method : intent'[c][n].state = "CONFIRMED" => intent[c][n].state = "CONFIRMED"
         /\ intent'[c]["collectPayment"].state = "RECONCILED" =>
              intent[c]["collectPayment"].state = "RECONCILED"
         /\ intent'[c]["reserveClaim"].state = "EXPIRED" =>
              intent'[c]["reserveClaim"] = intent[c]["reserveClaim"]
<1>1. CASE intent' = [intent EXCEPT ![c][m].state = s]
  <2>1. s \in IntentState
    OBVIOUS
  <2>2. Writes(c, m, s)
    BY <1>1, <2>1, IntentStateTypes
  <2> QED BY <2>2 DEF Writes, Method
<1> QED BY <1>1

\* The stages of a relayed step: for a payment, the gate was passed before.
LEMMA JobOfSteps ==
  ASSUME TypeOK, TypeOK', ChainInv, JobInv, Kept, Grows, NEW c \in Claim, NEW m \in Method,
         BeginStep(c, m) \/ Send(c, m) \/ SaveHash(c, m) \/ SaveStep(c, m)
  PROVE  JobStep(c)
<1>0. /\ {"begin", "verify", "send", "hash", "receipt", "save-external", "quorum", "release"}
           \subseteq Stage
      /\ "none" \in Method \cup {"none"} /\ m \in Method \cup {"none"}
      /\ {"submitAssessment", "reserveClaim", "collectPayment"} \subseteq Method
  BY DEF Stage, Method
\* While the job is at a step of the payment, the gate was passed.
<1>1. m = "collectPayment" /\ at[c][2] = m => Gated(c)'
  BY GateKept DEF JobInv, JobRemembers
\* It goes on with the same step and writes an intent that claims nothing.
<1>2. ASSUME at[c][2] = m,
             NEW s \in {"save-external", "receipt", "send", "verify", "hash"}, Goto(c, Step(s, m)),
             NEW i \in IntentState \ {"CONFIRMED", "EXPIRED", "RECONCILED"},
             intent' = [intent EXCEPT ![c][m].state = i] \/ UNCHANGED intent,
             UNCHANGED tx \/ tx' = [tx EXCEPT ![c][m] = IF @ = "NONE" THEN "PENDING" ELSE @]
      PROVE  JobStep(c)
  <2>1. s \in Stage
    BY <1>0, <1>2
  <2>2. at'[c] = <<s, m>> /\ \A d \in Claim \ {c} : at'[d] = at[d]
    BY <1>0, <1>2, <2>1, Going
  <2>3. /\ \A d \in Claim \ {c} : tx'[d] = tx[d]
        /\ m # "collectPayment" => tx'[c]["collectPayment"] = tx[c]["collectPayment"]
    <3>1. CASE UNCHANGED tx
      BY <3>1
    <3>2. CASE tx' = [tx EXCEPT ![c][m] = IF @ = "NONE" THEN "PENDING" ELSE @]
      <4>1. tx \in [Claim -> [Method -> {"NONE", "PENDING", "SUCCESS", "REVERTED"}]]
        BY DEF TypeOK
      <4>2. PICK t \in {"PENDING", tx[c][m]} : tx' = [tx EXCEPT ![c][m] = t]
        BY <3>2, <4>1
      <4> QED BY <1>0, <4>1, <4>2
    <3> QED BY <1>2, <3>1, <3>2
  <2>4. /\ \A d \in Claim \ {c} : intent'[d] = intent[d]
        /\ \A n \in Method : intent'[c][n].state = "CONFIRMED" => intent[c][n].state = "CONFIRMED"
        /\ intent'[c]["collectPayment"].state = "RECONCILED" =>
             intent[c]["collectPayment"].state = "RECONCILED"
        /\ intent'[c]["reserveClaim"].state = "EXPIRED" =>
             intent'[c]["reserveClaim"] = intent[c]["reserveClaim"]
    BY <1>2, IntentStep
  <2> QED BY <1>1, <1>2, <2>2, <2>3, <2>4 DEF JobStep, Step
<1>3. CASE BeginStep(c, m)
  <2>1. at[c][2] = m /\ UNCHANGED tx
    BY <1>3 DEF BeginStep, Step, chainVars
  <2>2. /\ \E s \in {"save-external", "receipt", "send", "verify"} : Goto(c, Step(s, m))
        /\ intent' = intent \/ intent' = [intent EXCEPT ![c][m].state = "PREPARED"]
    BY <1>3 DEF BeginStep
  <2>3. "PREPARED" \in IntentState \ {"CONFIRMED", "EXPIRED", "RECONCILED"}
    BY DEF IntentState
  <2> QED BY <1>2, <2>1, <2>2, <2>3
<1>4. CASE Send(c, m)
  <2>1. at[c][2] = m
    BY <1>4 DEF Send, Step
  <2>2. "SUBMITTED" \in IntentState \ {"CONFIRMED", "EXPIRED", "RECONCILED"}
    BY DEF IntentState
  <2>3. /\ Goto(c, Step("hash", m)) /\ intent' = [intent EXCEPT ![c][m].state = "SUBMITTED"]
        /\ tx' = [tx EXCEPT ![c][m] = IF @ = "NONE" THEN "PENDING" ELSE @]
    BY <1>4 DEF Send
  <2> QED BY <1>2, <2>1, <2>2, <2>3
<1>5. CASE SaveHash(c, m)
  <2>1. at[c][2] = m /\ Goto(c, Step("receipt", m)) /\ UNCHANGED tx
    BY <1>5 DEF SaveHash, Step, chainVars
  <2>2. at'[c] = <<"receipt", m>> /\ \A d \in Claim \ {c} : at'[d] = at[d]
    BY <1>0, <2>1, Going
  <2>3. Writes(c, m, "BROADCAST")
    BY <1>5, HashSaved
  <2> QED BY <1>0, <1>1, <2>1, <2>2, <2>3 DEF JobStep, Step, Writes
<1>6. CASE SaveStep(c, m)
  <2>1. tx[c][m] = "SUCCESS" /\ UNCHANGED tx
        /\ intent' = [intent EXCEPT ![c][m].state = "CONFIRMED"]
    BY <1>6 DEF SaveStep, chainVars
  <2>2. "CONFIRMED" \in IntentState
    BY DEF IntentState
  <2>3. Writes(c, m, "CONFIRMED")
    BY <2>1, <2>2, IntentStateTypes
  <2>4. /\ \A d \in Claim \ {c} : at'[d] = at[d]
        /\ Plain(at'[c]) \/ (at'[c] = Step("quorum", "none") /\ m = "submitAssessment"
                               /\ assessment[c].outcome = "QUALIFIES")
    <3>1. CASE Leave(c)
      <4>1. at'[c] = <<"idle", "none">> /\ \A d \in Claim \ {c} : at'[d] = at[d]
        BY <3>1, TypeGroups, LeaveTypes
      <4> QED BY <4>1 DEF Plain, Step
    <3>2. CASE Goto(c, AfterStep(m)) /\ (m = "submitAssessment" => assessment[c].outcome = "QUALIFIES")
      <4>1. \E s \in Stage, n \in Method \cup {"none"} : AfterStep(m) = Step(s, n)
        BY <1>0 DEF AfterStep
      <4>2. at'[c] = AfterStep(m) /\ \A d \in Claim \ {c} : at'[d] = at[d]
        BY <3>2, <4>1, Going DEF Step
      <4>3. Plain(AfterStep(m)) \/ (AfterStep(m) = Step("quorum", "none") /\ m = "submitAssessment")
        BY DEF AfterStep, Plain, Step, Method
      <4> QED BY <3>2, <4>2, <4>3
    <3> QED BY <1>6, <3>1, <3>2 DEF SaveStep
  <2>5. m = "submitAssessment" /\ assessment[c].outcome = "QUALIFIES" => CreditRecorded(c)'
    <3> SUFFICES ASSUME m = "submitAssessment", assessment[c].outcome = "QUALIFIES"
                 PROVE  CreditRecorded(c)'
      OBVIOUS
    <3>1. PICK i \in 1 .. Len(log) : Proves(c, m, i) /\ recorded' = recorded \cup {i}
      BY <1>6 DEF SaveStep, SaveEvent
    <3>2. i \in Positions("ClaimQualified", c)
      BY <3>1 DEF Proves, EventOf
    <3>3. UNCHANGED log
      BY <1>6 DEF SaveStep, chainVars
    <3> QED BY <3>1, <3>2, <3>3 DEF CreditRecorded, Positions
  <2>6. CASE Plain(at'[c])
    BY <1>0, <2>1, <2>3, <2>4, <2>6 DEF JobStep, Plain, Step, Writes
  <2>7. CASE at'[c] = Step("quorum", "none") /\ CreditRecorded(c)'
    BY <1>0, <2>1, <2>3, <2>4, <2>7 DEF JobStep, Step, Writes
  <2> QED BY <2>4, <2>5, <2>6, <2>7
<1> QED BY <1>3, <1>4, <1>5, <1>6

\* The job's other transactions.
LEMMA JobOfRecords ==
  ASSUME TypeOK, TypeOK', ChainInv, JobInv, Kept, Grows, NEW c \in Claim,
         \/ RecordAdmissionExpired(c) \/ RequestRecovery(c) \/ SaveExternalPayment(c)
         \/ CloseIntent(c) \/ AwaitQuorum(c) \/ PassQuorum(c) \/ ReleaseIfPaid(c)
  PROVE  JobStep(c)
<1>0. /\ {"begin", "reconcile", "release"} \subseteq Stage
      /\ "none" \in Method \cup {"none"}
      /\ {"submitAssessment", "reserveClaim", "collectPayment"} \subseteq Method
      /\ {"EXPIRED", "RECONCILED"} \subseteq IntentState
  BY DEF Stage, Method, IntentState
<1>1. CASE RecordAdmissionExpired(c)
  <2>1. /\ Leave(c) /\ UNCHANGED <<tx, now>> /\ at[c] = Step("admission-expired", "none")
        /\ intent' = [intent EXCEPT ![c]["reserveClaim"].state = "EXPIRED"]
    BY <1>1 DEF RecordAdmissionExpired, chainVars, envVars
  <2>2. at'[c] = <<"idle", "none">> /\ \A d \in Claim \ {c} : at'[d] = at[d]
    BY <2>1, TypeGroups, LeaveTypes
  <2>3. Writes(c, "reserveClaim", "EXPIRED")
    BY <1>0, <2>1, IntentStateTypes
  <2>4. AdmissionIsOver(c)'
    BY <2>1, <2>3, GateKept DEF JobInv, JobRemembers, Writes
  <2> QED BY <1>0, <2>1, <2>2, <2>3, <2>4 DEF JobStep, Step, Writes
<1>2. CASE RequestRecovery(c) \/ AwaitQuorum(c) \/ ReleaseIfPaid(c)
  BY <1>2, LeaveStep DEF RequestRecovery, AwaitQuorum, ReleaseIfPaid, chainVars
<1>3. CASE SaveExternalPayment(c)
  <2>1. /\ Goto(c, Step("reconcile", "none")) /\ UNCHANGED <<intent, tx, log>>
        /\ \E i \in 1 .. Len(log) : Proves(c, "collectPayment", i)
    BY <1>3 DEF SaveExternalPayment, chainVars
  <2>2. at'[c] = <<"reconcile", "none">> /\ \A d \in Claim \ {c} : at'[d] = at[d]
    BY <1>0, <2>1, Going
  <2>3. Final("Paid", c)'
    BY <2>1 DEF Proves, EventOf, Final, Positions
  <2> QED BY <2>1, <2>2, <2>3 DEF JobStep, Step
<1>4. CASE CloseIntent(c)
  <2>1. /\ Goto(c, Step("release", "none")) /\ UNCHANGED tx
        /\ at[c] = Step("reconcile", "none")
        /\ intent' = intent \/ intent' = [intent EXCEPT ![c]["collectPayment"].state = "RECONCILED"]
    BY <1>4 DEF CloseIntent, chainVars
  <2>2. at'[c] = <<"release", "none">> /\ \A d \in Claim \ {c} : at'[d] = at[d]
    BY <1>0, <2>1, Going
  <2>3. Final("Paid", c)'
    BY <2>1, GateKept DEF JobInv, JobRemembers
  <2>4. CASE intent' = intent
    BY <2>1, <2>2, <2>4 DEF JobStep, Step
  <2>5. CASE intent' = [intent EXCEPT ![c]["collectPayment"].state = "RECONCILED"]
    <3>1. Writes(c, "collectPayment", "RECONCILED")
      BY <1>0, <2>5, IntentStateTypes
    <3> QED BY <1>0, <2>1, <2>2, <2>3, <3>1 DEF JobStep, Step, Writes
  <2> QED BY <2>1, <2>4, <2>5
<1>5. CASE PassQuorum(c)
  <2>1. /\ Goto(c, Step("begin", "collectPayment")) /\ UNCHANGED <<intent, tx>>
        /\ at[c] = Step("quorum", "none") /\ (NeedsQuorum(c) => HasQuorum(c))
    BY <1>5 DEF PassQuorum, chainVars, dbVars
  <2>2. at'[c] = <<"begin", "collectPayment">> /\ \A d \in Claim \ {c} : at'[d] = at[d]
    BY <1>0, <2>1, Going
  <2>3. Gated(c)'
    BY <2>1, GateKept DEF JobInv, JobRemembers, Gated
  <2> QED BY <2>1, <2>2, <2>3 DEF JobStep, Step
<1> QED BY <1>1, <1>2, <1>3, <1>4, <1>5

\* Every step keeps what the jobs remember, the gate and the intents.
LEMMA JobOfNext ==
  ASSUME TypeOK, TypeOK', ChainInv, JobInv, Kept, Grows, Next
  PROVE  JobInv'
<1>1. CASE \E c \in Claim : JobStep(c)
  BY <1>1, JobStepKeeps
<1>2. CASE UNCHANGED <<at, intent, tx>>
  BY <1>2, JobFrame
<1>3. CASE OthersCall \/ Tick \/ (\E c \in Claim : SubmitClaim(c) \/ SignApproval(c))
           \/ \E i \in 1 .. Len(log) : Reconcile(i)
  <2>1. UNCHANGED <<at, intent, tx>>
    BY <1>3 DEF OthersCall, CollectByOther, ExpireReservation, RefundExpired, Tick, SubmitClaim,
       SignApproval, Reconcile, workerVars, dbVars, chainVars
  <2> QED BY <2>1, <1>2
<1>4. ASSUME NEW c \in Claim, NEW m \in Method, Arrives(c, m) PROVE JobInv'
  <2>1. /\ UNCHANGED <<at, intent>>
        /\ \/ /\ tx[c][m] = "PENDING"
              /\ \/ tx' = [tx EXCEPT ![c][m] = "SUCCESS"]
                 \/ tx' = [tx EXCEPT ![c][m] = "REVERTED"]
           \/ tx' = tx
    BY <1>4 DEF Arrives, Execute, PresentedByOther, workerVars, dbVars
  <2>2. \A d \in Claim : tx'[d]["collectPayment"] # "NONE" => tx[d]["collectPayment"] # "NONE"
    <3>1. tx \in [Claim -> [Method -> {"NONE", "PENDING", "SUCCESS", "REVERTED"}]]
          /\ "collectPayment" \in Method
      BY DEF TypeOK, Method
    <3> QED BY <2>1, <3>1
  <2> QED BY <2>1, <2>2, JobFrame
<1>5. CASE \E c \in Claim : VerifierStep(c)
  BY <1>1, <1>2, <1>5, JobOfVerifier
<1>6. CASE \E c \in Claim : Start(c) \/ Acquire(c) \/ ReadChain(c) \/ Throw(c) \/ Crash(c)
  BY <1>1, <1>6, JobOfQueue
<1>7. CASE \E c \in Claim, m \in Method :
             BeginStep(c, m) \/ Send(c, m) \/ SaveHash(c, m) \/ SaveStep(c, m)
  BY <1>1, <1>7, JobOfSteps
<1>8. CASE \E c \in Claim :
             \/ RecordAdmissionExpired(c) \/ RequestRecovery(c) \/ SaveExternalPayment(c)
             \/ CloseIntent(c) \/ AwaitQuorum(c) \/ PassQuorum(c) \/ ReleaseIfPaid(c)
  BY <1>1, <1>8, JobOfRecords
<1> QED BY <1>3, <1>4, <1>5, <1>6, <1>7, <1>8, NextGroups

-----------------------------------------------------------------------------
(* Reports.                                                                *)

\* What a step may do with reports, given what the chain and the records say.
ReportStep ==
  /\ \A c \in Claim : report'[c] = "AVAILABLE" => report[c] = "AVAILABLE" \/ Final("Paid", c)
  /\ \A c \in Claim : report'[c] = "RESOLVED" =>
       report[c] = "RESOLVED" \/ \E i \in 1 .. Len(log) : ExpiredBy(i) = c
  /\ Adapter = "FIXTURE" => \A c \in Claim : \A i \in recorded' :
       i \in 1 .. Len(log) /\ ExpiredBy(i) = c => Quiet(c)'

\* What an event says of an expiry never changes.
LEMMA ExpiredByKept ==
  ASSUME Grows, NEW i \in 1 .. Len(log)
  PROVE  ExpiredBy(i)' = ExpiredBy(i)
BY DEF Grows, ExpiredBy

\* Such a step keeps the invariant, when it records events of the log only.
LEMMA ReportStepKeeps ==
  ASSUME TypeOK, ReportInv, Grows, recorded' \subseteq 1 .. Len(log), ReportStep
  PROVE  ReportInv'
<1>1. \A c \in Claim : Final("Paid", c) => Final("Paid", c)'
  BY PositionsGrow DEF Final
<1>2. \A c \in Claim : report'[c] = "AVAILABLE" => Final("Paid", c)'
  BY <1>1 DEF ReportInv, ReportStep
<1>3. ASSUME NEW c \in Claim, report'[c] = "RESOLVED"
      PROVE  \E i \in 1 .. Len(log') : ExpiredBy(i)' = c
  <2>1. \E i \in 1 .. Len(log) : ExpiredBy(i) = c
    BY <1>3 DEF ReportInv, ReportStep
  <2>2. PICK i \in 1 .. Len(log) : ExpiredBy(i) = c
    BY <2>1
  <2>3. ExpiredBy(i)' = c /\ i \in 1 .. Len(log')
    BY <2>2, ExpiredByKept DEF Grows
  <2> QED BY <2>3
<1>4. ASSUME Adapter = "FIXTURE", NEW c \in Claim, Expired(c)' PROVE Quiet(c)'
  <2>1. PICK i \in recorded' : ExpiredBy(i)' = c
    BY <1>4 DEF Expired
  <2>2. i \in 1 .. Len(log) /\ ExpiredBy(i) = c
    BY <2>1, ExpiredByKept
  <2> QED BY <1>4, <2>1, <2>2 DEF ReportStep
<1>5. (\A c \in Claim : report[c] = "RESOLVED" => \E i \in 1 .. Len(log) : ExpiredBy(i) = c)'
  BY <1>3
<1> QED BY <1>2, <1>4, <1>5 DEF ReportInv

\* A step that records nothing and makes no hold and no assessment possible.
LEMMA QuietStep ==
  ASSUME TypeOK, ReportInv, UNCHANGED recorded,
         \A c \in Claim : report'[c] = "AVAILABLE" => report[c] = "AVAILABLE" \/ Final("Paid", c),
         \A c \in Claim : report'[c] = "RESOLVED" => report[c] = "RESOLVED",
         \A c \in Claim : report'[c] = "HELD" => report[c] = "HELD",
         \A c \in Claim : serving'[c] = "ASSESS" /\ seen'[c].allowed =>
           \/ serving[c] = "ASSESS" /\ seen[c].allowed
           \/ \A i \in 1 .. Len(log) : ExpiredBy(i) # c
  PROVE  ReportStep
<1>1. recorded \subseteq 1 .. Len(log)
  BY DEF TypeOK
<1>2. ASSUME Adapter = "FIXTURE", NEW c \in Claim, NEW i \in recorded, ExpiredBy(i) = c
      PROVE  Quiet(c)'
  <2>1. Quiet(c)
    BY <1>2 DEF ReportInv, Expired
  <2>2. ~ (\A j \in 1 .. Len(log) : ExpiredBy(j) # c)
    BY <1>1, <1>2
  <2> QED BY <2>1, <2>2 DEF Quiet
<1> QED BY <1>2 DEF ReportStep

\* While the escrow holds a claim's reservation, no expiry of the claim is final.
LEMMA NotExpired ==
  ASSUME ChainInv, NEW c \in Claim, escrow.claim = c \/ Final("ClaimQualified", c)
  PROVE  \A i \in 1 .. Len(log) : ExpiredBy(i) # c
BY DEF ChainInv, ExpiredIsOver

\* An event that proves a step of a claim is no expiry.
LEMMA ProofsExpireNobody ==
  ASSUME NEW c \in Claim, NEW m \in Method, NEW i, Proves(c, m, i)
  PROVE  ExpiredBy(i) \notin Claim
<1>1. log[i].name \notin {"ReservationExpired", "BountyRefunded"}
  BY DEF Proves, Positions, EventOf
<1> QED BY <1>1, SettlementAssumption DEF ExpiredBy

\* The chain's steps and the worker's, except those that record or release.
LEMMA ReportFrame ==
  ASSUME TypeOK, ReportInv, UNCHANGED <<recorded, report, serving, seen>>
  PROVE  ReportStep
BY QuietStep

\* A request that ends leaves nobody who could still make a hold.
LEMMA ReportOfServed ==
  ASSUME TypeOK, ReportInv, NEW c \in Claim, Served(c), UNCHANGED <<recorded, report>>
  PROVE  ReportStep
<1>1. \A d \in Claim : serving'[d] = "ASSESS" => serving[d] = "ASSESS" /\ seen'[d] = seen[d]
  BY DEF Served, TypeOK
<1> QED BY <1>1, QuietStep

\* The verifier makes a hold only for a claim it found reserved, which no
\* recorded expiry names.
LEMMA ReportOfVerifier ==
  ASSUME TypeOK, ChainInv, ReportInv, NEW c \in Claim, VerifierStep(c)
  PROVE  ReportStep
<1>1. CASE \E kind \in {"ADMIT", "ASSESS"} : Serve(c, kind)
  <2>1. PICK kind \in {"ADMIT", "ASSESS"} : Serve(c, kind)
    BY <1>1
  <2>2. UNCHANGED <<recorded, report>>
    BY <2>1 DEF Serve, dbVars
  <2>3. ASSUME NEW d \in Claim, serving'[d] = "ASSESS", seen'[d].allowed
        PROVE  \/ serving[d] = "ASSESS" /\ seen[d].allowed
               \/ \A i \in 1 .. Len(log) : ExpiredBy(i) # d
    <3>1. CASE d # c
      <4>1. serving'[d] = serving[d] /\ seen'[d] = seen[d]
        BY <2>1, <3>1 DEF Serve, TypeOK
      <4> QED BY <2>3, <4>1
    <3>2. CASE d = c
      <4>1. kind = "ASSESS" /\ Allowed(c, kind)
        BY <2>1, <2>3, <3>2 DEF Serve, TypeOK
      <4>2. escrow.claim = c
        BY <4>1 DEF Allowed
      <4> QED BY <3>2, <4>2, NotExpired
    <3> QED BY <3>1, <3>2
  <2> QED BY <2>2, <2>3, QuietStep
<1>2. CASE AdmitAgain(c) \/ Admit(c) \/ AssessAgain(c) \/ Refuse(c)
  BY <1>2, ReportOfServed DEF AdmitAgain, Admit, AssessAgain, Refuse
<1>3. CASE Assess(c)
  <2>1. /\ serving[c] = "ASSESS" /\ seen[c].allowed /\ UNCHANGED recorded
        /\ \E s \in {"HELD", "SEALED"} : report' = [report EXCEPT ![c] = s]
        /\ Served(c)
    BY <1>3 DEF Assess
  <2>2. /\ \A d \in Claim \ {c} : report'[d] = report[d]
        /\ report'[c] \in {"HELD", "SEALED"}
    BY <2>1 DEF TypeOK
  <2>3. \A d \in Claim : serving'[d] = "ASSESS" => d # c /\ serving[d] = "ASSESS" /\ seen'[d] = seen[d]
    BY <2>1 DEF Served, TypeOK
  <2>4. ASSUME Adapter = "FIXTURE", NEW d \in Claim, NEW i \in recorded', ExpiredBy(i) = d
        PROVE  Quiet(d)'
    <3>1. Quiet(d)
      BY <2>1, <2>4 DEF ReportInv, Expired
    <3>2. d # c
      BY <2>1, <3>1 DEF Quiet
    <3> QED BY <2>2, <2>3, <3>1, <3>2 DEF Quiet
  <2> QED BY <2>2, <2>4 DEF ReportStep
<1> QED BY <1>1, <1>2, <1>3 DEF VerifierStep

\* An event a job saves expires nobody.
LEMMA ReportOfSaving ==
  ASSUME TypeOK, ReportInv, NEW c \in Claim, NEW m \in Method, NEW i \in 1 .. Len(log),
         Proves(c, m, i), recorded' = recorded \cup {i}, UNCHANGED <<report, serving, seen>>
  PROVE  ReportStep
<1>1. ASSUME Adapter = "FIXTURE", NEW d \in Claim, NEW j \in recorded', ExpiredBy(j) = d
      PROVE  Quiet(d)'
  <2>1. j # i
    BY <1>1, ProofsExpireNobody
  <2>2. j \in recorded
    BY <2>1
  <2>3. Quiet(d)
    BY <1>1, <2>2 DEF ReportInv, Expired
  <2> QED BY <2>3 DEF Quiet
<1> QED BY <1>1 DEF ReportStep

\* The release follows the recorded payment.
LEMMA ReportOfRelease ==
  ASSUME TypeOK, ReportInv, NEW c \in Claim, ReleaseIfPaid(c)
  PROVE  ReportStep
<1>1. UNCHANGED <<recorded, serving, seen>>
  BY DEF ReleaseIfPaid, verifierVars
<1>2. CASE Releasable(c)
  <2>1. report' = [report EXCEPT ![c] = "AVAILABLE"] /\ Final("Paid", c)
    BY <1>2 DEF ReleaseIfPaid, Releasable, PaymentRecorded, Final
  <2>2. \A d \in Claim : report'[d] = IF d = c THEN "AVAILABLE" ELSE report[d]
    BY <2>1 DEF TypeOK
  <2> QED BY <1>1, <2>1, <2>2, QuietStep
<1>3. CASE ~ Releasable(c)
  BY <1>1, <1>3, ReportFrame DEF ReleaseIfPaid
<1> QED BY <1>2, <1>3

\* Recovery resolves the hold, or finds nobody to resolve it for; it waits for
\* the verifier it knows.
LEMMA ReportOfRecovery ==
  ASSUME TypeOK, ReportInv, NEW i \in 1 .. Len(log), Reconcile(i)
  PROVE  ReportStep
<1>1. /\ UNCHANGED <<serving, seen>> /\ recorded' = recorded \cup {i}
      /\ recorded \subseteq 1 .. Len(log)
  BY DEF Reconcile, verifierVars, TypeOK
<1>2. \A d \in Claim : d # ExpiredBy(i) => report'[d] = report[d]
  BY DEF Reconcile, TypeOK
<1>3. ExpiredBy(i) \in Claim \cup {NoClaim}
  BY LogTypes DEF ExpiredBy
<1>4. ASSUME NEW c \in Claim, c = ExpiredBy(i)
      PROVE  /\ ~ VerifierBusy(c)
             /\ report'[c] = IF report[c] \in {"HELD", "SEALED"} THEN "RESOLVED" ELSE report[c]
  <2>1. c # NoClaim
    BY SettlementAssumption
  <2>2. /\ ~ VerifierBusy(c)
        /\ report' = [report EXCEPT ![c] =
                         IF @ \in {"HELD", "SEALED"} THEN "RESOLVED" ELSE @]
    BY <1>4, <2>1 DEF Reconcile
  <2> QED BY <2>2 DEF TypeOK
<1>5. ASSUME Adapter = "FIXTURE", NEW d \in Claim, NEW j \in recorded', ExpiredBy(j) = d
      PROVE  Quiet(d)'
  <2>1. CASE d = ExpiredBy(i)
    BY <1>1, <1>4, <1>5, <2>1 DEF VerifierBusy, Quiet
  <2>2. CASE d # ExpiredBy(i)
    <3>1. j \in recorded
      BY <1>1, <1>5, <2>2
    <3>2. Quiet(d)
      BY <1>5, <3>1 DEF ReportInv, Expired
    <3> QED BY <1>1, <1>2, <2>2, <3>2 DEF Quiet
  <2> QED BY <2>1, <2>2
<1>6. \A d \in Claim : report'[d] = "AVAILABLE" => report[d] = "AVAILABLE"
  BY <1>2, <1>4
<1>7. \A d \in Claim : report'[d] = "RESOLVED" => report[d] = "RESOLVED" \/ d = ExpiredBy(i)
  BY <1>2
<1> QED BY <1>5, <1>6, <1>7 DEF ReportStep

\* Every step keeps the reports' invariant.
LEMMA ReportOfNext ==
  ASSUME TypeOK, ChainInv, ReportInv, Grows, Next
  PROVE  ReportInv'
<1>0. recorded' \subseteq 1 .. Len(log)
  <2>1. recorded \subseteq 1 .. Len(log)
    BY DEF TypeOK
  <2> QED BY <2>1, RecordingSteps DEF SaveEvent, Reconcile
<1> SUFFICES ReportStep
  BY <1>0, ReportStepKeeps
<1>1. CASE OthersCall \/ Tick \/ \E c \in Claim, m \in Method : Arrives(c, m)
  <2>1. UNCHANGED <<recorded, report, serving, seen>>
    BY <1>1 DEF OthersCall, CollectByOther, ExpireReservation, RefundExpired, Arrives, Execute,
       PresentedByOther, Tick, verifierVars, dbVars
  <2> QED BY <2>1, ReportFrame
<1>2. CASE \E c \in Claim :
             \/ SubmitClaim(c) \/ SignApproval(c)
             \/ Start(c) \/ Acquire(c) \/ ReadChain(c) \/ Throw(c) \/ Crash(c)
             \/ RecordAdmissionExpired(c) \/ RequestRecovery(c)
             \/ CloseIntent(c) \/ AwaitQuorum(c) \/ PassQuorum(c)
  <2>1. UNCHANGED <<recorded, report, serving, seen>>
    BY <1>2 DEF SubmitClaim, SignApproval, Start, Acquire, ReadChain, Throw, Crash,
       RecordAdmissionExpired, RequestRecovery, CloseIntent, AwaitQuorum, PassQuorum,
       verifierVars, dbVars
  <2> QED BY <2>1, ReportFrame
<1>3. CASE \E c \in Claim, m \in Method : BeginStep(c, m) \/ Send(c, m) \/ SaveHash(c, m)
  <2>1. UNCHANGED <<recorded, report, serving, seen>>
    BY <1>3 DEF BeginStep, Send, SaveHash, verifierVars
  <2> QED BY <2>1, ReportFrame
<1>4. ASSUME NEW c \in Claim, NEW m \in Method, SaveStep(c, m) PROVE ReportStep
  <2>1. \E i \in 1 .. Len(log) : Proves(c, m, i) /\ SaveEvent(c, i)
    BY <1>4 DEF SaveStep
  <2>2. UNCHANGED <<report, serving, seen>>
    BY <1>4 DEF SaveStep, verifierVars
  <2> QED BY <2>1, <2>2, ReportOfSaving DEF SaveEvent
<1>5. ASSUME NEW c \in Claim, SaveExternalPayment(c) PROVE ReportStep
  <2>1. "collectPayment" \in Method
    BY DEF Method
  <2>2. \E i \in 1 .. Len(log) : Proves(c, "collectPayment", i) /\ SaveEvent(c, i)
    BY <1>5 DEF SaveExternalPayment
  <2>3. UNCHANGED <<report, serving, seen>>
    BY <1>5 DEF SaveExternalPayment, verifierVars
  <2> QED BY <2>1, <2>2, <2>3, ReportOfSaving DEF SaveEvent
<1> QED BY <1>1, <1>2, <1>3, <1>4, <1>5, ReportOfVerifier, ReportOfRelease, ReportOfRecovery,
           NextGroups

-----------------------------------------------------------------------------
(* The invariant is inductive.                                             *)

\* The invariant holds of the bounty just funded.
LEMMA InitIsSafe ==
  ASSUME Init
  PROVE  IInv
<1>1. /\ 0 \in Nat /\ {0} \subseteq 0 .. MaxTime /\ {0} \subseteq 0 .. MaxCrashes
      /\ -1 \in -1 .. RequiredApprovals /\ 0 \in 0 .. Reward
  BY Numbers
<1> DEFINE funded == Event("BountyFunded", NoClaim, Reward)
<1>2. funded \in LogEntry /\ funded.name = "BountyFunded" /\ funded.claim = NoClaim
  BY Numbers DEF LogEntry, Event, EventName
<1>3. log = <<funded>>
  BY DEF Init
<1> HIDE DEF funded
<1>4. log \in Seq(LogEntry) /\ Len(log) = 1 /\ log[1] = funded
  BY <1>2, <1>3
<1>5. TypeOK
  <2>1. ClockTypes /\ VerifierTypes /\ WorkerTypes
    BY <1>1 DEF Init, ClockTypes, VerifierTypes, WorkerTypes, AtTypes, Unread, Idle, Stage, JobState
  <2>2. ChainTypes
    BY <1>1, <1>4 DEF Init, ChainTypes, FundedEscrow, ChainState
  <2>3. RecordTypes
    BY <1>4 DEF Init, RecordTypes, ChainState
  <2>4. IntentTypes /\ JobTypes
    BY <1>1 DEF Init, IntentTypes, JobTypes, NoIntent, IntentState, JobState
  <2>5. RowTypes
    BY <1>1 DEF Init, RowTypes
  <2> QED BY <2>1, <2>2, <2>3, <2>4, <2>5, TypeGroups
<1>6. \A name : name # "BountyFunded" => \A c : Positions(name, c) = {}
  BY <1>2, <1>4 DEF Positions
<1>7. \A i \in 1 .. Len(log) : log[i] = funded /\ ExpiredBy(i) = NoClaim
  BY <1>2, <1>4 DEF ExpiredBy
<1>8. ChainInv
  <2>1. ClaimIsReserved
    BY <1>2, <1>6, <1>7 DEF Init, ClaimIsReserved, FundedEscrow, WasReserved, Final
  <2>2. ExpiredIsOver
    BY <1>7, SettlementAssumption DEF ExpiredIsOver
  <2>3. CreditIsAssessed
    BY <1>6 DEF Init, CreditIsAssessed, FundedEscrow, Final
  <2>4. EscrowFollowsLog
    BY <1>2, <1>4 DEF Init, EscrowFollowsLog, FundedEscrow, ChainStateAfter
  <2> QED BY <2>1, <2>2, <2>3, <2>4 DEF ChainInv
<1>9. BountyFollowsLog
  BY <1>2, <1>4 DEF Init, BountyFollowsLog, ChainStateAfter
<1>10. JobInv
  <2>1. \A c \in Claim : at[c] = <<"idle", "none">>
    BY DEF Init, Idle
  <2>2. JobRemembers
    BY <2>1 DEF JobRemembers, Step
  <2>3. \A c \in Claim : \A m \in Method : tx[c][m] = "NONE" /\ intent[c][m] = NoIntent
    BY DEF Init
  <2>4. PayoutIsGated /\ IntentsTellTheTruth
    BY <2>3 DEF PayoutIsGated, IntentsTellTheTruth, NoIntent, Method
  <2> QED BY <2>2, <2>4 DEF JobInv
<1>11. ReportInv
  <2>1. \A c \in Claim : report[c] = "NONE"
    BY DEF Init
  <2>2. \A c \in Claim : ~ (serving[c] = "ASSESS")
    BY DEF Init
  <2> QED BY <2>1, <2>2 DEF ReportInv, Quiet
<1> QED BY <1>5, <1>8, <1>9, <1>10, <1>11 DEF IInv

\* A step that changes nothing keeps it.
LEMMA StutteringIsSafe ==
  ASSUME IInv, UNCHANGED vars
  PROVE  IInv'
<1>1. /\ UNCHANGED <<now, crashes, escrow, log, tx, requested, serving, seen, lock, at, row, job>>
      /\ UNCHANGED <<admission, assessment, report, intent, recorded, bounty, signatures>>
  BY DEF vars, envVars, chainVars, verifierVars, workerVars, dbVars
<1>2. TypeOK'
  BY <1>1 DEF IInv, TypeOK
<1>3. Grows /\ Kept
  <2>1. log \in Seq(LogEntry) /\ TypeOK
    BY TypeGroups DEF IInv, ChainTypes
  <2> QED BY <1>1, <2>1, GrowsStaying, KeptByFrame
<1>4. ChainInv' /\ JobInv'
  BY <1>1, <1>2, <1>3, ChainFrame, JobFrame DEF IInv
<1>5. BountyFollowsLog'
  BY <1>1 DEF IInv, BountyFollowsLog
<1>6. ReportInv'
  <2>1. ReportStep /\ recorded' \subseteq 1 .. Len(log)
    BY <1>1, ReportFrame DEF IInv, TypeOK
  <2> QED BY <1>3, <2>1, ReportStepKeeps DEF IInv
<1> QED BY <1>2, <1>4, <1>5, <1>6 DEF IInv

\* Every step keeps it.
LEMMA StepsAreSafe ==
  ASSUME IInv, [Next]_vars
  PROVE  IInv'
<1>1. CASE Next
  <2>1. TypeOK' /\ Grows /\ Kept
    BY <1>1, TypesOfNext, KeptByNext DEF IInv, ChainInv
  <2>2. ChainInv' /\ BountyFollowsLog' /\ JobInv' /\ ReportInv'
    BY <1>1, <2>1, ChainOfNext, BountyOfNext, JobOfNext, ReportOfNext DEF IInv
  <2> QED BY <2>1, <2>2 DEF IInv
<1>2. CASE UNCHANGED vars
  BY <1>2, StutteringIsSafe
<1> QED BY <1>1, <1>2

\* It holds in every state of every behaviour.
LEMMA Inductive == Spec => []IInv
<1>1. Init => IInv
  BY InitIsSafe
<1>2. IInv /\ [Next]_vars => IInv'
  BY StepsAreSafe
<1> QED BY <1>1, <1>2, PTL DEF Spec

-----------------------------------------------------------------------------
(* What follows, whatever the constants.                                   *)

\* Every variable of the settlement keeps its type, an approval's count of
\* signatures included: it never passes the number required.
THEOREM TypesHold == Spec => []TypeOK
<1>1. IInv => TypeOK
  BY DEF IInv
<1> QED BY <1>1, Inductive, PTL

\* Once every final event is recorded, in whatever order the claim jobs and
\* recovery recorded them, the bounty's row shows the escrow's state.
THEOREM RowConverges == Spec => []ViewConverges
<1>1. IInv => ViewConverges
  <2> SUFFICES ASSUME IInv, recorded = 1 .. Len(log) PROVE bounty.state = escrow.state
    BY DEF ViewConverges
  <2>1. Len(log) \in 1 .. Len(log)
    BY LogTypes DEF IInv, ChainInv, EscrowFollowsLog
  <2> QED BY <2>1 DEF IInv, ChainInv, EscrowFollowsLog, BountyFollowsLog
<1> QED BY <1>1, Inductive, PTL

\* A report is opened only after its claim's payment, and a hold resolved only
\* when the claim has no credit and cannot get one.
THEOREM ReportsFollow == Spec => []ReportFollowsChain
<1>1. IInv => ReportFollowsChain
  BY DEF IInv, ReportInv, ReportFollowsChain, ChainInv, ExpiredIsOver
<1> QED BY <1>1, Inductive, PTL

\* What a closed transaction intent says of the chain is true.
THEOREM IntentsHold == Spec => []IntentsTellTheTruth
<1>1. IInv => IntentsTellTheTruth
  BY DEF IInv, JobInv
<1> QED BY <1>1, Inductive, PTL

\* The relayer is never asked to collect a payment whose credit is not
\* recorded, or whose quorum has not signed.
THEOREM PayoutsAreGated == Spec => []PayoutIsGated
<1>1. IInv => PayoutIsGated
  BY DEF IInv, JobInv
<1> QED BY <1>1, Inductive, PTL

\* With the fixture verifier, whose requests recovery waits for, a recorded
\* expiry leaves no hold.  (The finding verifier takes another lock, and the
\* run finding_hold shows the hold it leaves.)
THEOREM HoldsAreResolved ==
  ASSUME Adapter = "FIXTURE"
  PROVE  Spec => []HoldResolved
<1>1. IInv => HoldResolved
  BY DEF IInv, ReportInv, HoldResolved, Expired, Quiet
<1> QED BY <1>1, Inductive, PTL

-----------------------------------------------------------------------------
(* The bounty's one projected reservation: the invariant it needs, for     *)
(* each claim, when recovery waits for the verifier (the fixture's).       *)

Deadline(c) == intent[c]["reserveClaim"].validUntil
Latest(t) == Lesser(t + AdmissionWindow, SubmissionDeadline)

\* The claim's reservation is recorded; an event that ends it is recorded, or
\* final; its expiry is final; the admission its intent carries is the newest
\* one signed, and the bounty goes on.
Reserved(c) == recorded \cap Positions("ClaimReserved", c) # {}
Ends(i, c) == ExpiredBy(i) = c \/ (log[i].name = "ClaimRejected" /\ log[i].claim = c)
Ended(c) == \E i \in recorded : Ends(i, c)
Over(c) == \E i \in 1 .. Len(log) : Ends(i, c)
ExpiredOnChain(c) == \E i \in 1 .. Len(log) : ExpiredBy(i) = c
Same(c) == admission[c].validUntil = Deadline(c) /\ escrow.state # "REFUNDED"

\* No admission outlasts its window, as the request that signs it and as the
\* intent that carries it know it.
SigningInv(c) ==
  /\ seen[c].now <= now
  /\ admission[c].validUntil <= Latest(now)
  /\ Deadline(c) <= admission[c].validUntil
  /\ serving[c] # "NONE" => admission[c].validUntil <= Latest(seen[c].now)
  /\ serving[c] = "ADMIT" /\ seen[c].allowed => seen[c].now < SubmissionDeadline

\* A transaction comes after its intent, the intent after its admission or
\* assessment, and an assessment after a reservation.
PreparingInv(c) ==
  /\ job[c] = "UPLOADING" => at[c] = Idle /\ tx[c]["reserveClaim"] = "NONE"
  /\ \A m \in Method :
       /\ WaitsFor(c, m) => intent[c][m].state = "NONE"
       /\ at[c] = Step("send", m) \/ at[c] = Step("hash", m) \/ tx[c][m] # "NONE" =>
            intent[c][m].state # "NONE"
  /\ intent[c]["reserveClaim"].state # "NONE" => admission[c].state # "NONE"
  /\ intent[c]["submitAssessment"].state # "NONE" =>
       assessment[c].outcome # "NONE" /\ Reserved(c)
  /\ at[c][2] = "submitAssessment" \/ "ASSESS" \in requested[c] \/ serving[c] = "ASSESS" =>
       Reserved(c)
  /\ job[c] \in Projected => WasReserved(c)

\* A claim that was reserved is the escrow's, or an event ended it.  A
\* reservation expires after it was made, so within a window of its deadline.
EndingInv(c) ==
  /\ WasReserved(c) /\ escrow.claim # c => Over(c)
  /\ escrow.state = "RESERVED" /\ escrow.claim = c =>
       Deadline(c) <= escrow.expiresAt + AdmissionWindow
  /\ ExpiredOnChain(c) => Deadline(c) < now + AdmissionWindow
  /\ Expired(c) /\ serving[c] # "NONE" => Deadline(c) < seen[c].now + AdmissionWindow
  /\ Final("ClaimRejected", c) => assessment[c].outcome = "DOES_NOT_QUALIFY"
                                  /\ intent[c]["submitAssessment"].state # "NONE"

\* The claim's admission is over and, if it was the longest possible, so is
\* the time in which anybody may reserve.
NoMoreReserved(c) ==
  /\ now > Deadline(c)
  /\ Deadline(c) >= SubmissionDeadline => escrow.state \in {"FUNDED", "REFUNDED"}
Turned == {"ADMISSION_EXPIRED", "EXPIRED"}
Waiting == {"ADMISSION_PENDING", "RESERVING"}

\* An expired claim that a late request admitted again until the submission
\* deadline: its job finds the admission over whenever it runs.
Stuck(c) ==
  /\ job[c] = "RESERVING" /\ Deadline(c) >= SubmissionDeadline /\ NoMoreReserved(c)
  /\ \/ at[c] = Idle
     \/ at[c] = Locked /\ row[c] \in Turned \cup {"RESERVING"}
     \/ at[c] = Step("read", "none") /\ row[c] = "RESERVING"
     \/ at[c] = Step("admission-expired", "none")

\* A claim whose admission ended was not reserved; a reserved claim's job is
\* past its admission; and a claim whose end is recorded is out of the slot
\* and does not come back to it.
SlotInv(c) ==
  /\ at[c] = Step("admission-expired", "none") => NoMoreReserved(c)
  /\ Same(c) /\ admission[c].state = "EXPIRED" =>
       /\ job[c] \in Turned /\ ~ Reserved(c) /\ NoMoreReserved(c)
       /\ at[c] = Idle \/ (at[c] = Locked /\ row[c] \in Turned)
  /\ Same(c) /\ Reserved(c) =>
       /\ job[c] \notin {"UPLOADING"} \cup Waiting
       /\ admission[c].state = "SIGNED" /\ at[c] # Step("admission-expired", "none")
       /\ at[c] = Locked \/ at[c] = Step("read", "none") => row[c] \notin Waiting
  /\ Same(c) /\ Ended(c) =>
       /\ job[c] \notin Projected
       /\ job[c] \in {"UPLOADING"} \cup Waiting => Stuck(c)

SlotParts(c) == SigningInv(c) /\ PreparingInv(c) /\ EndingInv(c) /\ SlotInv(c)
SlotsInv == \A c \in Claim : SlotParts(c)

\* The two deadlines, in order.
LEMMA Deadlines ==
  /\ SubmissionDeadline \in Nat /\ SettlementDeadline \in Nat /\ Duration \in Nat
  /\ AdmissionWindow \in Nat /\ SubmissionDeadline <= SettlementDeadline
BY SettlementAssumption

\* The end of an admission's window does not run back, and comes neither
\* before the admission nor later than a window after it.
LEMMA Windows ==
  /\ \A s, t \in Nat : s <= t => Latest(s) <= Latest(t)
  /\ \A t \in Nat : /\ Latest(t) \in Nat /\ Latest(t) <= t + AdmissionWindow
                    /\ t < SubmissionDeadline => t <= Latest(t)
BY Deadlines DEF Latest, Lesser

\* The variables the slot's invariant reads have their types.
LEMMA SlotTypes ==
  ASSUME TypeOK, NEW c \in Claim
  PROVE  /\ now \in Nat /\ seen[c].now \in Nat /\ admission[c].validUntil \in Nat
         /\ Deadline(c) \in Nat /\ escrow.expiresAt \in Nat
         /\ Len(log) \in Nat /\ recorded \subseteq 1 .. Len(log)
         /\ \A t \in Nat : Latest(t) \in Nat
<1>1. /\ seen[c].now \in Nat /\ admission[c].validUntil \in Nat /\ escrow.expiresAt \in Nat
      /\ recorded \subseteq 1 .. Len(log)
  BY DEF TypeOK
<1>2. now \in Nat
  BY Numbers DEF TypeOK
<1>3. Deadline(c) \in Nat
  BY TypeGroups DEF IntentTypes, Method, Deadline
<1> QED BY <1>1, <1>2, <1>3, LogTypes, Windows

\* What the records say of a claim stays, unless a new record names it.
LEMMA RecordsOf ==
  ASSUME TypeOK, Grows, NEW c \in Claim, recorded \subseteq recorded',
         recorded' \subseteq 1 .. Len(log)
  PROVE  /\ Reserved(c) => Reserved(c)'
         /\ Ended(c) => Ended(c)'
         /\ Expired(c) => Expired(c)'
         /\ Over(c) => Over(c)'
         /\ (\A i \in recorded' \ recorded :
               ~ (log[i].name = "ClaimReserved" /\ log[i].claim = c)) => (Reserved(c)' => Reserved(c))
         /\ (\A i \in recorded' \ recorded : ~ Ends(i, c)) => (Ended(c)' => Ended(c))
         /\ (\A i \in recorded' \ recorded : ExpiredBy(i) # c) => (Expired(c)' => Expired(c))
<1>1. /\ recorded \subseteq 1 .. Len(log) /\ 1 .. Len(log) \subseteq 1 .. Len(log')
      /\ \A i \in 1 .. Len(log) : log'[i] = log[i]
  BY DEF TypeOK, Grows
<1>2. \A i \in 1 .. Len(log) : ExpiredBy(i)' = ExpiredBy(i) /\ (Ends(i, c)' <=> Ends(i, c))
  BY <1>1 DEF ExpiredBy, Ends
<1>3. /\ Ended(c) => Ended(c)'
      /\ Expired(c) => Expired(c)'
      /\ Over(c) => Over(c)'
      /\ (\A i \in recorded' \ recorded : ~ Ends(i, c)) => (Ended(c)' => Ended(c))
      /\ (\A i \in recorded' \ recorded : ExpiredBy(i) # c) => (Expired(c)' => Expired(c))
  BY <1>1, <1>2 DEF Ended, Expired, Over
<1>4. /\ Reserved(c) <=> \E i \in recorded : log[i].name = "ClaimReserved" /\ log[i].claim = c
      /\ Reserved(c)' <=> \E i \in recorded' : log[i].name = "ClaimReserved" /\ log[i].claim = c
  BY <1>1 DEF Reserved, Positions
<1> QED BY <1>3, <1>4

\* A claim whose reservation or end is recorded was reserved, after its
\* transaction was sent.
LEMMA RecordedIsReserved ==
  ASSUME TypeOK, ChainInv, NEW c \in Claim
  PROVE  /\ Reserved(c) => WasReserved(c)
         /\ Ended(c) => WasReserved(c) /\ Over(c)
         /\ Over(c) => WasReserved(c)
         /\ WasReserved(c) => tx[c]["reserveClaim"] # "NONE"
         /\ Expired(c) => ExpiredOnChain(c) /\ Ended(c)
         /\ Ended(c) => Expired(c) \/ Final("ClaimRejected", c)
<1>1. recorded \subseteq 1 .. Len(log) /\ c # NoClaim
  BY SettlementAssumption DEF TypeOK
<1>2. /\ \A i \in 1 .. Len(log) : log[i].claim = c => WasReserved(c)
      /\ WasReserved(c) => tx[c]["reserveClaim"] # "NONE"
  BY <1>1 DEF ChainInv, ClaimIsReserved
<1>3. \A i \in 1 .. Len(log) : Ends(i, c) => log[i].claim = c
  BY <1>1 DEF Ends, ExpiredBy
<1>4. Reserved(c) => \E i \in 1 .. Len(log) : log[i].claim = c
  BY <1>1 DEF Reserved, Positions
<1>5. Ended(c) => Expired(c) \/ Final("ClaimRejected", c)
  BY <1>1 DEF Ended, Ends, Expired, Final, Positions
<1> QED BY <1>1, <1>2, <1>3, <1>4, <1>5 DEF Ended, Over, Expired, ExpiredOnChain, Ends

-----------------------------------------------------------------------------
(* Steps of the chain and the clock.                                       *)

\* What a step of the chain or the clock means for one claim.
ChainMove(d) ==
  /\ escrow.state = "REFUNDED" => escrow'.state = "REFUNDED"
  /\ now >= SubmissionDeadline /\ escrow.state \in {"FUNDED", "REFUNDED"} =>
       escrow'.state \in {"FUNDED", "REFUNDED"}
  /\ escrow'.state = "RESERVED" /\ escrow'.claim = d =>
       escrow' = escrow \/ (escrow'.expiresAt >= now /\ now' = now)
  /\ \A i \in 1 .. Len(log') : ExpiredBy(i)' = d =>
       i \in 1 .. Len(log)
         \/ (escrow.state = "RESERVED" /\ escrow.claim = d /\ now > escrow.expiresAt)
  /\ \A i \in 1 .. Len(log') : log'[i].name = "ClaimRejected" /\ log'[i].claim = d =>
       \/ i \in 1 .. Len(log)
       \/ /\ assessment[d].outcome # "QUALIFIES" /\ tx[d]["submitAssessment"] # "NONE"
  /\ escrow.claim = d /\ escrow'.claim # d => Over(d)'
  /\ WasReserved(d)' => WasReserved(d) \/ escrow'.claim = d
  /\ \A m \in Method : tx'[d][m] # "NONE" => tx[d][m] # "NONE"

\* A new event, as the claims see it.
LEMMA NewEvent ==
  ASSUME TypeOK, Grows, Len(log') = Len(log) + 1, NEW e, log'[Len(log')] = e, NEW d \in Claim
  PROVE  /\ \A i \in 1 .. Len(log') : i \notin 1 .. Len(log) => i = Len(log') /\ log'[i] = e
         /\ \A i \in 1 .. Len(log') : ExpiredBy(i)' = d /\ i \notin 1 .. Len(log) =>
              e.name \in {"ReservationExpired", "BountyRefunded"} /\ e.claim = d
         /\ e.name \in {"ReservationExpired", "BountyRefunded", "ClaimRejected"} /\ e.claim = d =>
              Over(d)'
         /\ WasReserved(d)' => WasReserved(d) \/ (e.name = "ClaimReserved" /\ e.claim = d)
<1>1. \A i \in 1 .. Len(log') : i \notin 1 .. Len(log) => i = Len(log') /\ log'[i] = e
  BY LogTypes
<1>2. d # NoClaim
  BY SettlementAssumption
<1>3. \A i \in 1 .. Len(log') : ExpiredBy(i)' = d /\ i \notin 1 .. Len(log) =>
        e.name \in {"ReservationExpired", "BountyRefunded"} /\ e.claim = d
  BY <1>1, <1>2 DEF ExpiredBy
<1>4. Len(log') \in 1 .. Len(log')
  BY LogTypes
<1>5. e.name \in {"ReservationExpired", "BountyRefunded", "ClaimRejected"} /\ e.claim = d => Over(d)'
  BY <1>4 DEF Over, Ends, ExpiredBy
<1>6. WasReserved(d)' => WasReserved(d) \/ (e.name = "ClaimReserved" /\ e.claim = d)
  BY PositionsAdd DEF WasReserved, Final
<1> QED BY <1>1, <1>3, <1>5, <1>6

\* Each step of the chain moves each claim so.
LEMMA ChainMoves ==
  ASSUME TypeOK, ChainInv, Grows, OthersCall \/ Tick \/ \E c \in Claim, m \in Method : Arrives(c, m),
         NEW d \in Claim
  PROVE  ChainMove(d) /\ UNCHANGED <<verifierVars, workerVars, dbVars>>
<1>0. /\ now \in Nat /\ escrow.expiresAt \in Nat
      /\ tx \in [Claim -> [Method -> {"NONE", "PENDING", "SUCCESS", "REVERTED"}]]
      /\ d # NoClaim /\ {"reserveClaim", "submitAssessment", "collectPayment"} \subseteq Method
      /\ Method \subseteq {"reserveClaim", "submitAssessment", "collectPayment"}
      /\ escrow \in [state : ChainState, claim : Claim \cup {NoClaim}, expiresAt : Nat]
  <2>1. /\ tx \in [Claim -> [Method -> {"NONE", "PENDING", "SUCCESS", "REVERTED"}]]
        /\ escrow \in [state : ChainState, claim : Claim \cup {NoClaim}, expiresAt : Nat]
    BY DEF TypeOK
  <2>2. /\ {"reserveClaim", "submitAssessment", "collectPayment"} \subseteq Method
        /\ Method \subseteq {"reserveClaim", "submitAssessment", "collectPayment"}
    BY DEF Method
  <2>3. d # NoClaim
    BY SettlementAssumption
  <2> QED BY <2>1, <2>2, <2>3, SlotTypes
<1>1. CASE Tick
  <2>1. UNCHANGED <<escrow, log, tx, verifierVars, workerVars, dbVars>>
    BY <1>1 DEF Tick, chainVars
  <2>2. WasReserved(d)' <=> WasReserved(d)
    BY <2>1, PositionsStay DEF WasReserved, Final
  <2> QED BY <1>0, <2>1, <2>2 DEF ChainMove, ExpiredBy
<1>2. CASE OthersCall
  <2>0. UNCHANGED <<envVars, verifierVars, workerVars, dbVars, tx>>
    BY <1>2 DEF OthersCall, CollectByOther, ExpireReservation, RefundExpired
  <2>1. CASE CollectByOther
    <3>1. /\ escrow.state = "QUALIFIED" /\ escrow'.state = "PAID" /\ escrow'.claim = escrow.claim
          /\ escrow.claim \in Claim /\ assessment[escrow.claim].reward \in Nat
          /\ Emit("Paid", escrow.claim, assessment[escrow.claim].reward)
      BY <2>1, <1>0, EscrowNamesClaim DEF CollectByOther, ChainInv
    <3> DEFINE e == Event("Paid", escrow.claim, assessment[escrow.claim].reward)
    <3>2. Len(log') = Len(log) + 1 /\ log'[Len(log')] = e /\ e.name = "Paid"
      BY <3>1, GrowsEmitting, TypeGroups DEF ChainTypes, EventName, Event
    <3> HIDE DEF e
    <3> QED BY <1>0, <2>0, <3>1, <3>2, NewEvent DEF ChainMove
  <2>2. CASE ExpireReservation
    <3>1. /\ escrow.state = "RESERVED" /\ now > escrow.expiresAt
          /\ escrow'.state = "FUNDED" /\ escrow'.claim = NoClaim
          /\ Emit("ReservationExpired", escrow.claim, 0)
      BY <2>2 DEF ExpireReservation, ReservationIsOver, FundedEscrow
    <3> DEFINE e == Event("ReservationExpired", escrow.claim, 0)
    <3>2. /\ Len(log') = Len(log) + 1 /\ log'[Len(log')] = e
          /\ e.name = "ReservationExpired" /\ e.claim = escrow.claim
      BY <1>0, <3>1, GrowsEmitting, TypeGroups DEF ChainTypes, EventName, Event
    <3> HIDE DEF e
    <3> QED BY <1>0, <2>0, <3>1, <3>2, NewEvent DEF ChainMove
  <2>3. CASE RefundExpired
    <3>1. /\ escrow.state = "FUNDED" \/ (escrow.state = "RESERVED" /\ now > escrow.expiresAt)
          /\ escrow'.state = "REFUNDED" /\ escrow'.claim = NoClaim
          /\ Emit("BountyRefunded", escrow.claim, Reward)
      BY <2>3 DEF RefundExpired, ReservationIsOver, FundedEscrow
    <3>2. escrow.state = "FUNDED" => escrow.claim = NoClaim
      BY DEF ChainInv, ClaimIsReserved
    <3> DEFINE e == Event("BountyRefunded", escrow.claim, Reward)
    <3>3. /\ Len(log') = Len(log) + 1 /\ log'[Len(log')] = e
          /\ e.name = "BountyRefunded" /\ e.claim = escrow.claim
      BY <1>0, <3>1, GrowsEmitting, TypeGroups, Numbers DEF ChainTypes, EventName, Event
    <3> HIDE DEF e
    <3> QED BY <1>0, <2>0, <3>1, <3>2, <3>3, NewEvent DEF ChainMove
  <2> QED BY <1>2, <2>0, <2>1, <2>2, <2>3 DEF OthersCall
<1>3. ASSUME NEW c \in Claim, NEW m \in Method, Arrives(c, m)
      PROVE  ChainMove(d) /\ UNCHANGED <<verifierVars, workerVars, dbVars>>
  <2>0. UNCHANGED <<envVars, verifierVars, workerVars, dbVars>> /\ now' = now
    BY <1>3 DEF Arrives, Execute, PresentedByOther, envVars
  <2>1. CASE /\ tx[c][m] = "PENDING" /\ tx' = [tx EXCEPT ![c][m] = "REVERTED"]
             /\ UNCHANGED <<escrow, log>>
    <3>1. WasReserved(d)' <=> WasReserved(d)
      BY <2>1, PositionsStay DEF WasReserved, Final
    <3>2. \A n \in Method : tx'[d][n] # tx[d][n] => tx[d][n] = "PENDING" /\ tx'[d][n] = "REVERTED"
      BY <1>0, <2>1
    <3> QED BY <1>0, <2>0, <2>1, <3>1, <3>2 DEF ChainMove, ExpiredBy
  <2>2. CASE /\ Succeeds(c, m) /\ Effect(c, m)
             /\ \/ tx[c][m] = "PENDING" /\ tx' = [tx EXCEPT ![c][m] = "SUCCESS"]
                \/ tx[c][m] # "NONE" /\ tx' = tx
    <3>1. tx[c][m] # "NONE"
      BY <2>2
    <3>2. \A n \in Method : tx'[d][n] # "NONE" => tx[d][n] # "NONE"
      BY <1>0, <2>2
    <3>3. CASE m = "reserveClaim"
      <4>1. /\ escrow.state = "FUNDED" /\ now < SubmissionDeadline
            /\ escrow' = [state |-> "RESERVED", claim |-> c,
                          expiresAt |-> Lesser(now + Duration, SettlementDeadline)]
            /\ Emit("ClaimReserved", c, Reward)
        BY <2>2, <3>3 DEF Succeeds, Effect
      <4>2. escrow'.expiresAt >= now /\ escrow'.state = "RESERVED" /\ escrow'.claim = c
        BY <1>0, <4>1, Deadlines DEF Lesser
      <4>3. escrow.claim = NoClaim
        BY <4>1 DEF ChainInv, ClaimIsReserved
      <4> DEFINE e == Event("ClaimReserved", c, Reward)
      <4>4. Len(log') = Len(log) + 1 /\ log'[Len(log')] = e /\ e.name = "ClaimReserved"
            /\ e.claim = c
        BY <4>1, GrowsEmitting, TypeGroups, Numbers DEF ChainTypes, EventName, Event
      <4> HIDE DEF e
      <4> QED BY <1>0, <2>0, <3>2, <4>1, <4>2, <4>3, <4>4, NewEvent, Deadlines DEF ChainMove
    <3>4. CASE m = "submitAssessment" /\ assessment[c].outcome = "QUALIFIES"
      <4>1. /\ escrow.state = "RESERVED" /\ escrow.claim = c
            /\ escrow' = [escrow EXCEPT !.state = "QUALIFIED"]
            /\ Emit("ClaimQualified", c, assessment[c].reward)
        BY <2>2, <3>4 DEF Succeeds, Effect
      <4>2. escrow'.state = "QUALIFIED" /\ escrow'.claim = c
        BY <1>0, <4>1
      <4>3. assessment[c].reward \in Nat
        BY <4>1, <1>0, EscrowNamesClaim DEF ChainInv
      <4> DEFINE e == Event("ClaimQualified", c, assessment[c].reward)
      <4>4. Len(log') = Len(log) + 1 /\ log'[Len(log')] = e /\ e.name = "ClaimQualified"
        BY <4>1, <4>3, GrowsEmitting, TypeGroups DEF ChainTypes, EventName, Event
      <4> HIDE DEF e
      <4> QED BY <1>0, <2>0, <3>2, <3>4, <4>1, <4>2, <4>4, NewEvent DEF ChainMove
    <3>5. CASE m = "submitAssessment" /\ assessment[c].outcome # "QUALIFIES"
      <4>1. /\ escrow.state = "RESERVED" /\ escrow.claim = c
            /\ escrow'.state = "FUNDED" /\ escrow'.claim = NoClaim
            /\ Emit("ClaimRejected", c, 0)
        BY <2>2, <3>5 DEF Succeeds, Effect, FundedEscrow
      <4> DEFINE e == Event("ClaimRejected", c, 0)
      <4>4. /\ Len(log') = Len(log) + 1 /\ log'[Len(log')] = e /\ e.name = "ClaimRejected"
            /\ e.claim = c
        BY <4>1, GrowsEmitting, TypeGroups DEF ChainTypes, EventName, Event
      <4> HIDE DEF e
      <4> QED BY <1>0, <2>0, <3>1, <3>2, <3>5, <4>1, <4>4, NewEvent DEF ChainMove
    <3>6. CASE m = "collectPayment"
      <4>1. /\ escrow.state = "QUALIFIED"
            /\ escrow' = [escrow EXCEPT !.state = "PAID"]
            /\ Emit("Paid", escrow.claim, assessment[escrow.claim].reward)
        BY <2>2, <3>6 DEF Succeeds, Effect
      <4>2. escrow'.state = "PAID" /\ escrow'.claim = escrow.claim
        BY <1>0, <4>1
      <4>3. escrow.claim \in Claim /\ assessment[escrow.claim].reward \in Nat
        BY <4>1, <1>0, EscrowNamesClaim DEF ChainInv
      <4> DEFINE e == Event("Paid", escrow.claim, assessment[escrow.claim].reward)
      <4>4. Len(log') = Len(log) + 1 /\ log'[Len(log')] = e /\ e.name = "Paid"
        BY <4>1, <4>3, GrowsEmitting, TypeGroups DEF ChainTypes, EventName, Event
      <4> HIDE DEF e
      <4> QED BY <1>0, <2>0, <3>2, <3>6, <4>1, <4>2, <4>4, NewEvent DEF ChainMove
    <3> QED BY <1>0, <3>3, <3>4, <3>5, <3>6
  <2> QED BY <1>3, <2>1, <2>2 DEF Arrives, Execute, PresentedByOther
<1> QED BY <1>1, <1>2, <1>3

\* The chain takes nothing from a claim's invariant: a reservation is made
\* before its admission ends, and expires after its own end.
LEMMA ChainKeepsSlot ==
  ASSUME TypeOK, TypeOK', ChainInv, Grows, Kept, NEW d \in Claim, SlotParts(d),
         ChainMove(d), UNCHANGED <<verifierVars, workerVars, dbVars>>
  PROVE  SlotParts(d)'
<1>0. /\ UNCHANGED <<requested, serving, seen, lock, at, row, job, admission>>
      /\ UNCHANGED <<assessment, report, intent, recorded>>
      /\ Deadline(d)' = Deadline(d) /\ now' >= now
      /\ "reserveClaim" \in Method /\ "submitAssessment" \in Method
      /\ WasReserved(d) => WasReserved(d)'
  BY PositionsGrow DEF verifierVars, workerVars, dbVars, Deadline, Kept, Method, WasReserved, Final
<1>1. /\ now \in Nat /\ now' \in Nat /\ seen[d].now \in Nat /\ admission[d].validUntil \in Nat
      /\ Deadline(d) \in Nat /\ escrow.expiresAt \in Nat /\ escrow'.expiresAt \in Nat
      /\ recorded \subseteq 1 .. Len(log)
      /\ SubmissionDeadline \in Nat /\ AdmissionWindow \in Nat
  <2>1. escrow'.expiresAt \in Nat /\ now' \in Nat /\ recorded \subseteq 1 .. Len(log)
    BY Numbers DEF TypeOK
  <2> QED BY <2>1, SlotTypes, Numbers
<1>2. /\ Reserved(d)' <=> Reserved(d)
      /\ Ended(d)' <=> Ended(d)
      /\ Expired(d)' <=> Expired(d)
      /\ Over(d) => Over(d)'
  BY <1>0, <1>1, RecordsOf
<1>3. Latest(now)' = Latest(now') /\ Latest(seen[d].now)' = Latest(seen[d].now)
      /\ Latest(now') >= Latest(now)
  <2>1. Latest(now)' = Latest(now') /\ Latest(seen[d].now)' = Latest(seen[d].now)
    BY <1>0 DEF Latest
  <2>2. Latest(now) <= Latest(now') /\ Latest(now) \in Nat /\ Latest(now') \in Nat
    BY <1>0, <1>1, Windows
  <2> QED BY <2>1, <2>2
<1>4. SigningInv(d)'
  <2>1. Latest(now') \in Nat /\ Latest(now) \in Nat
    BY <1>1, SlotTypes
  <2> QED BY <1>0, <1>1, <1>3, <2>1 DEF SlotParts, SigningInv
<1>5. PreparingInv(d)'
  BY <1>0, <1>2 DEF SlotParts, PreparingInv, ChainMove, WaitsFor
<1>6. EndingInv(d)'
  <2>1. WasReserved(d)' /\ escrow'.claim # d => Over(d)'
    BY <1>2 DEF SlotParts, EndingInv, ChainMove
  <2>2. escrow'.state = "RESERVED" /\ escrow'.claim = d =>
          Deadline(d) <= escrow'.expiresAt + AdmissionWindow
    <3>1. Deadline(d) <= now + AdmissionWindow
      <4>1. Latest(now) \in Nat /\ Latest(now) <= now + AdmissionWindow
        BY <1>1, Windows
      <4>2. Deadline(d) <= admission[d].validUntil /\ admission[d].validUntil <= Latest(now)
        BY DEF SlotParts, SigningInv
      <4> QED BY <1>1, <4>1, <4>2
    <3> QED BY <1>1, <3>1 DEF SlotParts, EndingInv, ChainMove
  <2>3. ExpiredOnChain(d)' => Deadline(d) < now' + AdmissionWindow
    <3>1. SUFFICES ASSUME NEW i \in 1 .. Len(log'), ExpiredBy(i)' = d
                   PROVE  Deadline(d) < now' + AdmissionWindow
      BY DEF ExpiredOnChain
    <3>2. CASE i \in 1 .. Len(log)
      <4>1. ExpiredOnChain(d)
        BY <3>1, <3>2, ExpiredByKept DEF ExpiredOnChain
      <4> QED BY <1>0, <1>1, <4>1 DEF SlotParts, EndingInv
    <3>3. CASE escrow.state = "RESERVED" /\ escrow.claim = d /\ now > escrow.expiresAt
      BY <1>0, <1>1, <3>3 DEF SlotParts, EndingInv
    <3> QED BY <3>1, <3>2, <3>3 DEF ChainMove
  <2>4. Expired(d)' /\ serving'[d] # "NONE" => Deadline(d) < seen'[d].now + AdmissionWindow
    BY <1>0, <1>2 DEF SlotParts, EndingInv
  <2>5. Final("ClaimRejected", d)' =>
          assessment[d].outcome = "DOES_NOT_QUALIFY" /\ intent[d]["submitAssessment"].state # "NONE"
    <3>1. SUFFICES ASSUME NEW i \in 1 .. Len(log'),
                          log'[i].name = "ClaimRejected", log'[i].claim = d
                   PROVE  assessment[d].outcome = "DOES_NOT_QUALIFY"
                          /\ intent[d]["submitAssessment"].state # "NONE"
      BY DEF Final, Positions
    <3>2. CASE i \in 1 .. Len(log)
      <4>1. Final("ClaimRejected", d)
        BY <3>1, <3>2 DEF Final, Positions, Grows
      <4> QED BY <4>1 DEF SlotParts, EndingInv
    <3>3. CASE assessment[d].outcome # "QUALIFIES" /\ tx[d]["submitAssessment"] # "NONE"
      <4>1. intent[d]["submitAssessment"].state # "NONE" /\ assessment[d].outcome # "NONE"
        BY <1>0, <3>3 DEF SlotParts, PreparingInv
      <4> QED BY <3>3, <4>1 DEF TypeOK
    <3> QED BY <3>1, <3>2, <3>3 DEF ChainMove
  <2> QED BY <1>0, <2>1, <2>2, <2>3, <2>4, <2>5 DEF EndingInv
<1>7. SlotInv(d)'
  <2>1. NoMoreReserved(d) => NoMoreReserved(d)'
    BY <1>0, <1>1 DEF NoMoreReserved, ChainMove
  <2>2. Same(d)' => Same(d)
    BY <1>0 DEF Same, ChainMove
  <2>3. Stuck(d) => Stuck(d)'
    BY <1>0, <2>1 DEF Stuck
  <2> QED BY <1>0, <1>2, <2>1, <2>2, <2>3 DEF SlotParts, SlotInv
<1> QED BY <1>4, <1>5, <1>6, <1>7 DEF SlotParts

-----------------------------------------------------------------------------
(* Steps of one claim's job, its verifier and its records.                 *)

\* A step that leaves what is written and known of claim d alone.
Untouched(d) ==
  /\ job'[d] = job[d] /\ row'[d] = row[d] /\ at'[d] = at[d]
  /\ admission'[d] = admission[d] /\ assessment'[d] = assessment[d]
  /\ intent'[d] = intent[d] /\ tx'[d] = tx[d]
  /\ requested'[d] = requested[d] /\ serving'[d] = serving[d] /\ seen'[d] = seen[d]
  /\ \A i \in recorded' \ recorded : log[i].claim # d

\* It keeps the claim's invariant while the chain stands still.
LEMMA UntouchedKeeps ==
  ASSUME TypeOK, TypeOK', UNCHANGED <<now, escrow, log>>, NEW d \in Claim, SlotParts(d),
         recorded \subseteq recorded', recorded' \subseteq 1 .. Len(log), Untouched(d)
  PROVE  SlotParts(d)'
<1>0. /\ Deadline(d)' = Deadline(d) /\ d # NoClaim
      /\ (Latest(now))' = Latest(now) /\ Latest(seen[d].now)' = Latest(seen[d].now)
  BY SettlementAssumption DEF Untouched, Deadline, Latest
<1>1. Grows
  BY TypeGroups, GrowsStaying DEF ChainTypes
<1>2. \A i \in recorded' \ recorded : ~ Ends(i, d) /\ ExpiredBy(i) # d
  BY <1>0 DEF Untouched, Ends, ExpiredBy
<1>3. /\ Reserved(d)' <=> Reserved(d)
      /\ Ended(d)' <=> Ended(d)
      /\ Expired(d)' <=> Expired(d)
  BY <1>1, <1>2, RecordsOf DEF Untouched
<1>4. Over(d)' <=> Over(d)
  BY DEF Over, Ends, ExpiredBy
<1>5. ExpiredOnChain(d)' <=> ExpiredOnChain(d)
  BY DEF ExpiredOnChain, ExpiredBy
<1>6. /\ Final("ClaimRejected", d)' <=> Final("ClaimRejected", d)
      /\ WasReserved(d)' <=> WasReserved(d)
  BY DEF WasReserved, Final, Positions
<1>7. SigningInv(d)' /\ PreparingInv(d)'
  BY <1>0, <1>3, <1>6 DEF SlotParts, SigningInv, PreparingInv, Untouched, WaitsFor
<1>8. EndingInv(d)'
  BY <1>0, <1>3, <1>4, <1>5, <1>6 DEF SlotParts, EndingInv, Untouched
<1>9. SlotInv(d)'
  BY <1>0, <1>3 DEF SlotParts, SlotInv, Untouched, NoMoreReserved, Same, Stuck
<1> QED BY <1>7, <1>8, <1>9 DEF SlotParts

\* A step about claim c: the chain stands still, the other claims are untouched.
LocalStep(c) ==
  /\ UNCHANGED <<now, escrow, log>>
  /\ recorded \subseteq recorded' /\ recorded' \subseteq 1 .. Len(log)
  /\ \A d \in Claim \ {c} : Untouched(d)

\* Without a new record, what the chain and the records say stands.
LEMMA StandingStill ==
  ASSUME UNCHANGED <<now, escrow, log, recorded>>, NEW c \in Claim
  PROVE  /\ WasReserved(c)' <=> WasReserved(c)
         /\ Reserved(c)' <=> Reserved(c)
         /\ Ended(c)' <=> Ended(c)
         /\ Expired(c)' <=> Expired(c)
         /\ Over(c)' <=> Over(c)
         /\ ExpiredOnChain(c)' <=> ExpiredOnChain(c)
         /\ Final("ClaimRejected", c)' <=> Final("ClaimRejected", c)
BY DEF WasReserved, Reserved, Ended, Expired, Over, ExpiredOnChain, Final, Positions, Ends, ExpiredBy

\* A step of a job that leaves what is written of the claim alone: it keeps
\* the invariant if it keeps the part about the slot.
LEMMA PlacingKeeps ==
  ASSUME NEW c \in Claim, SlotParts(c), SlotInv(c)', UNCHANGED <<now, escrow, log, recorded>>,
         UNCHANGED <<tx, job, admission, assessment, intent, requested, serving, seen>>,
         job[c] = "UPLOADING" => at'[c] = Idle,
         at'[c][1] \notin {"verify", "send", "hash"}, at'[c][2] # "submitAssessment"
  PROVE  SlotParts(c)'
<1>1. SigningInv(c)'
  BY DEF SlotParts, SigningInv, Latest, Deadline
<1>2. PreparingInv(c)'
  BY StandingStill DEF SlotParts, PreparingInv, WaitsFor, Step
<1>3. EndingInv(c)'
  BY StandingStill DEF SlotParts, EndingInv, Deadline
<1> QED BY <1>1, <1>2, <1>3 DEF SlotParts

\* Starting, stopping and placing a job.
LEMMA SlotOfQueue ==
  ASSUME TypeOK, TypeOK', ChainInv, NEW c \in Claim, SlotParts(c),
         Start(c) \/ Acquire(c) \/ ReadChain(c) \/ Throw(c) \/ Crash(c)
  PROVE  LocalStep(c) /\ SlotParts(c)'
<1>0. {"lock", "release", "read", "admission-expired", "reservation-over", "begin"} \subseteq Stage
      /\ "none" \in Method \cup {"none"} /\ "reserveClaim" \in Method
  BY DEF Stage, Method
<1>1. /\ UNCHANGED <<now, escrow, log, recorded>>
      /\ UNCHANGED <<tx, job, admission, assessment, intent, requested, serving, seen>>
      /\ recorded \subseteq 1 .. Len(log)
  BY DEF Start, Acquire, ReadChain, Throw, Crash, envVars, chainVars, verifierVars, dbVars, TypeOK
<1>2. /\ Reserved(c)' <=> Reserved(c)
      /\ Ended(c)' <=> Ended(c)
      /\ NoMoreReserved(c)' <=> NoMoreReserved(c)
      /\ Same(c)' <=> Same(c)
      /\ Deadline(c)' = Deadline(c)
  BY <1>1, StandingStill DEF NoMoreReserved, Same, Deadline
<1>3. ASSUME \A d \in Claim \ {c} : at'[d] = at[d] /\ row'[d] = row[d] PROVE LocalStep(c)
  BY <1>1, <1>3 DEF LocalStep, Untouched
<1>4. CASE Leave(c)
  <2>1. at'[c] = <<"idle", "none">> /\ \A d \in Claim \ {c} : at'[d] = at[d]
    BY <1>4, TypeGroups, LeaveTypes
  <2>2. \A d \in Claim \ {c} : row'[d] = row[d]
    BY <1>4 DEF Leave, TypeOK
  <2>3. SlotInv(c)'
    BY <1>1, <1>2, <2>1 DEF SlotParts, SlotInv, Stuck, Step, Idle, Locked
  <2> QED BY <1>1, <1>3, <2>1, <2>2, <2>3, PlacingKeeps DEF Idle
<1>5. CASE Start(c)
  <2>1. Goto(c, Step("lock", "none")) /\ row' = [row EXCEPT ![c] = job[c]]
        /\ at[c] = Idle /\ job[c] # "UPLOADING"
    BY <1>5 DEF Start, Locked, Step
  <2>2. at'[c] = <<"lock", "none">> /\ \A d \in Claim \ {c} : at'[d] = at[d]
    BY <1>0, <2>1, Going
  <2>3. row'[c] = job[c] /\ \A d \in Claim \ {c} : row'[d] = row[d]
    BY <2>1 DEF TypeOK
  <2>4. SlotInv(c)'
    BY <1>1, <1>2, <2>1, <2>2, <2>3 DEF SlotParts, SlotInv, Stuck, Step, Idle, Locked
  <2> QED BY <1>1, <1>3, <2>1, <2>2, <2>3, <2>4, PlacingKeeps
<1>6. CASE Acquire(c) /\ ~ Leave(c)
  <2>1. /\ at[c] = Locked /\ UNCHANGED row
        /\ row[c] \notin {"EXPIRED", "ADMISSION_EXPIRED", "INVALID_FIXTURE"}
        /\ Goto(c, Step(IF row[c] = "SETTLED" THEN "release" ELSE "read", "none"))
    BY <1>6 DEF Acquire
  <2>2. /\ at'[c] = <<IF row[c] = "SETTLED" THEN "release" ELSE "read", "none">>
        /\ \A d \in Claim \ {c} : at'[d] = at[d]
    BY <1>0, <2>1, Going
  <2>3. SlotInv(c)'
    BY <1>1, <1>2, <2>1, <2>2 DEF SlotParts, SlotInv, Stuck, Step, Idle, Locked, Turned
  <2>4. job[c] # "UPLOADING"
    BY <2>1 DEF SlotParts, PreparingInv, Idle, Locked
  <2> QED BY <1>1, <1>3, <2>1, <2>2, <2>3, <2>4, PlacingKeeps
<1>7. CASE ReadChain(c)
  <2> DEFINE ended == /\ escrow.state = "FUNDED" /\ row[c] \in Waiting /\ AdmissionIsOver(c)
                      /\ intent[c]["reserveClaim"].state # "NONE"
  <2>1. /\ at[c] = Step("read", "none") /\ UNCHANGED row
        /\ ended => Goto(c, Step("admission-expired", "none"))
        /\ ~ ended => \/ Goto(c, Step("reservation-over", "none"))
                      \/ Goto(c, Step("begin", "reserveClaim"))
    BY <1>7 DEF ReadChain, Waiting
  <2>2. job[c] # "UPLOADING"
    BY <2>1 DEF SlotParts, PreparingInv, Idle, Step
  <2>3. AdmissionIsOver(c) <=> now > Deadline(c)
    BY DEF AdmissionIsOver, Deadline
  <2>4. CASE ended
    <3>1. /\ at'[c] = <<"admission-expired", "none">>
          /\ \A d \in Claim \ {c} : at'[d] = at[d]
      BY <1>0, <2>1, <2>4, Going
    <3>2. NoMoreReserved(c)
      BY <2>3, <2>4 DEF NoMoreReserved
    <3>3. SlotInv(c)'
      BY <1>1, <1>2, <2>1, <2>4, <3>1, <3>2 DEF SlotParts, SlotInv, Stuck, Step, Idle, Locked
    <3> QED BY <1>1, <1>3, <2>1, <2>2, <3>1, <3>3, PlacingKeeps
  <2>5. CASE ~ ended
    <3>1. /\ at'[c] \in {<<"reservation-over", "none">>, <<"begin", "reserveClaim">>}
          /\ \A d \in Claim \ {c} : at'[d] = at[d]
      BY <1>0, <2>1, <2>5, Going
    <3>2. Same(c) /\ Ended(c) => ~ Stuck(c)
      <4>1. Ended(c) => intent[c]["reserveClaim"].state # "NONE"
        BY <1>0, RecordedIsReserved DEF SlotParts, PreparingInv
      <4> QED BY <2>1, <2>3, <2>5, <4>1 DEF Stuck, NoMoreReserved, Same, Step, Idle, Locked, Waiting,
              SlotParts
    <3>3. SlotInv(c)'
      BY <1>1, <1>2, <2>1, <3>1, <3>2 DEF SlotParts, SlotInv, Step, Idle, Locked
    <3> QED BY <1>1, <1>3, <2>1, <2>2, <3>1, <3>3, PlacingKeeps
  <2> QED BY <2>4, <2>5
<1>8. CASE Throw(c) \/ Crash(c)
  BY <1>4, <1>8 DEF Throw, Crash
<1> QED BY <1>4, <1>5, <1>6, <1>7, <1>8

\* A step that writes one intent, which exists or is a payment's, and moves
\* the job to another stage of the same method.
Writing(c, m, s1, s2) ==
  /\ UNCHANGED <<now, escrow, log, recorded, job, admission, assessment, serving, seen, row>>
  /\ at[c] = <<s1, m>> /\ at'[c] = <<s2, m>>
  /\ intent' = intent \/ \E s \in IntentState \ {"NONE"} : Writes(c, m, s)
  /\ m # "collectPayment" => intent' = intent \/ intent[c][m].state # "NONE"
  /\ \A n \in Method \ {m} : tx'[c][n] = tx[c][n]
  /\ \/ tx'[c][m] = tx[c][m]
     \/ tx[c][m] = "NONE" /\ tx'[c][m] = "PENDING" /\ intent'[c][m].state # "NONE"
  /\ s2 = "verify" => intent'[c][m].state = "NONE"
  /\ s2 \in {"send", "hash"} => intent'[c][m].state # "NONE"
  /\ \/ requested'[c] = requested[c]
     \/ m = "submitAssessment" /\ requested'[c] = requested[c] \cup {"ASSESS"}
     \/ m = "reserveClaim" /\ requested'[c] = requested[c] \cup {"ADMIT"}

\* Such a step keeps the claim's invariant.
LEMMA WritingKeeps ==
  ASSUME TypeOK, NEW c \in Claim, SlotParts(c), NEW m \in Method,
         NEW s1 \in {"begin", "send", "hash"},
         NEW s2 \in {"save-external", "receipt", "send", "verify", "hash"}, Writing(c, m, s1, s2)
  PROVE  SlotParts(c)'
<1> USE DEF Writing
<1>0. Method = {"reserveClaim", "submitAssessment", "collectPayment"}
  BY DEF Method
<1>1. Deadline(c)' = Deadline(c)
  BY <1>0 DEF Deadline, Writes
<1>2. \A n \in Method : intent[c][n].state # "NONE" => intent'[c][n].state # "NONE"
  BY DEF Writes
<1>3. \A n \in Method \ {m} : intent'[c][n] = intent[c][n]
  BY DEF Writes
<1>4. job[c] # "UPLOADING"
  BY DEF SlotParts, PreparingInv, Idle
<1>5. SigningInv(c)'
  BY <1>1 DEF SlotParts, SigningInv, Latest
<1>6. \A n \in {"reserveClaim", "submitAssessment"} :
        intent'[c][n].state # "NONE" => intent[c][n].state # "NONE"
  BY <1>0, <1>3
<1>7. PreparingInv(c)'
  <2>1. \A n \in Method :
          /\ WaitsFor(c, n)' => intent'[c][n].state = "NONE"
          /\ at'[c] = Step("send", n) \/ at'[c] = Step("hash", n) \/ tx'[c][n] # "NONE" =>
               intent'[c][n].state # "NONE"
    BY <1>2 DEF SlotParts, PreparingInv, WaitsFor, Step
  <2>2. at[c][2] = "submitAssessment" <=> at'[c][2] = "submitAssessment"
    OBVIOUS
  <2>3. "ASSESS" \in requested'[c] => "ASSESS" \in requested[c] \/ at[c][2] = "submitAssessment"
    OBVIOUS
  <2>4. /\ Reserved(c)' <=> Reserved(c)
        /\ WasReserved(c)' <=> WasReserved(c)
    BY StandingStill
  <2> QED BY <1>4, <1>6, <2>1, <2>2, <2>3, <2>4 DEF SlotParts, PreparingInv
<1>8. EndingInv(c)'
  BY <1>0, <1>1, <1>2, StandingStill DEF SlotParts, EndingInv
<1>9. SlotInv(c)'
  <2>1. /\ Reserved(c)' <=> Reserved(c)
        /\ Ended(c)' <=> Ended(c)
        /\ Same(c)' <=> Same(c)
    BY <1>1, StandingStill DEF Same
  <2> QED BY <2>1 DEF SlotParts, SlotInv, Stuck, Step, Idle, Locked
<1> QED BY <1>5, <1>7, <1>8, <1>9 DEF SlotParts

\* An event saved for a claim is one that its transaction made.
LEMMA SavingKeeps ==
  ASSUME TypeOK, TypeOK', ChainInv, NEW c \in Claim, SlotParts(c), UNCHANGED <<now, escrow, log, tx>>,
         UNCHANGED <<admission, assessment, requested, serving, seen>>,
         NEW m \in Method, NEW s1 \in {"receipt", "save-external"}, at[c] = <<s1, m>>,
         m # "collectPayment" => tx[c][m] = "SUCCESS",
         NEW i \in 1 .. Len(log), Proves(c, m, i), SaveEvent(c, i),
         UNCHANGED intent \/ \E s \in IntentState : Writes(c, m, s) /\ s # "NONE",
         \/ at'[c] = <<"idle", "none">> /\ m = "submitAssessment"
         \/ at'[c] = AfterStep(m) /\ (m = "submitAssessment" => assessment[c].outcome = "QUALIFIES")
         \/ at'[c] = <<"reconcile", "none">> /\ m = "collectPayment"
  PROVE  SlotParts(c)'
<1>0. Method = {"reserveClaim", "submitAssessment", "collectPayment"}
  BY DEF Method
<1>1. Deadline(c)' = Deadline(c)
  BY <1>0 DEF Deadline, Writes
<1>2. \A n \in Method : intent[c][n].state # "NONE" => intent'[c][n].state # "NONE"
  BY DEF Writes
<1>3. \A n \in {"reserveClaim", "submitAssessment"} :
        intent'[c][n].state # "NONE" => intent[c][n].state # "NONE"
  <2>1. m # "collectPayment" => intent[c][m].state # "NONE"
    BY DEF SlotParts, PreparingInv
  <2> QED BY <1>0, <2>1 DEF Writes
<1>4. job[c] # "UPLOADING"
  BY DEF SlotParts, PreparingInv, Idle
<1>5. /\ recorded' = recorded \cup {i} /\ job'[c] = JobAfter(c, log[i].name)
      /\ log[i].name = EventOf(c, m) /\ log[i].claim = c
  BY DEF SaveEvent, Proves, Positions, TypeOK
<1>6. ExpiredBy(i) # c
  BY ProofsExpireNobody
<1>7. /\ recorded \subseteq recorded' /\ recorded' \subseteq 1 .. Len(log)
      /\ \A j \in recorded' \ recorded : j = i
  BY <1>5 DEF TypeOK
<1>8. Grows
  BY TypeGroups, GrowsStaying DEF ChainTypes
<1>9. /\ Reserved(c) => Reserved(c)'
      /\ m # "reserveClaim" => (Reserved(c)' <=> Reserved(c))
      /\ Expired(c)' <=> Expired(c)
      /\ Over(c)' <=> Over(c)
      /\ Ended(c) => Ended(c)'
      /\ m # "submitAssessment" \/ assessment[c].outcome = "QUALIFIES" => (Ended(c)' <=> Ended(c))
  <2>1. /\ m # "reserveClaim" => log[i].name # "ClaimReserved"
        /\ m # "submitAssessment" \/ assessment[c].outcome = "QUALIFIES" => ~ Ends(i, c)
    BY <1>0, <1>5, <1>6 DEF EventOf, Ends
  <2>2. Over(c)' <=> Over(c)
    BY DEF Over, Ends, ExpiredBy
  <2> QED BY <1>6, <1>7, <1>8, <2>1, <2>2, RecordsOf
<1>10. m = "reserveClaim" => Reserved(c)'
  <2>1. m = "reserveClaim" => i \in recorded' /\ i \in Positions("ClaimReserved", c)'
    BY <1>5 DEF EventOf, Positions
  <2> QED BY <2>1 DEF Reserved
<1>11. /\ ExpiredOnChain(c)' <=> ExpiredOnChain(c)
       /\ Final("ClaimRejected", c)' <=> Final("ClaimRejected", c)
  BY DEF ExpiredOnChain, ExpiredBy, Final, Positions
<1>12. SigningInv(c)'
  BY <1>1 DEF SlotParts, SigningInv, Latest
<1>13. /\ WasReserved(c) /\ tx[c]["reserveClaim"] # "NONE"
       /\ WasReserved(c)' <=> WasReserved(c)
  <2>1. log[i].claim = c /\ c # NoClaim
    BY <1>5, SettlementAssumption
  <2>2. WasReserved(c)' <=> WasReserved(c)
    BY DEF WasReserved, Final, Positions
  <2> QED BY <2>1, <2>2 DEF ChainInv, ClaimIsReserved
<1>14. PreparingInv(c)'
  <2>1. /\ at'[c][1] \notin {"verify", "send", "hash"}
        /\ at'[c][2] = "submitAssessment" => m = "reserveClaim"
    BY DEF AfterStep, Step
  <2>2. job'[c] # "UPLOADING"
    BY <1>4, <1>5 DEF JobAfter
  <2> QED BY <1>2, <1>3, <1>9, <1>10, <1>13, <2>1, <2>2
           DEF SlotParts, PreparingInv, WaitsFor, Step
<1>15. EndingInv(c)'
  BY <1>0, <1>1, <1>2, <1>9, <1>11, <1>13 DEF SlotParts, EndingInv
<1>16. SlotInv(c)'
  <2>1. Same(c)' <=> Same(c)
    BY <1>1 DEF Same
  <2>2. /\ at[c] # Idle /\ at[c] # Locked /\ at[c] # Step("read", "none")
        /\ at[c] # Step("admission-expired", "none")
        /\ at'[c] # Locked /\ at'[c] # Step("read", "none")
        /\ at'[c] # Step("admission-expired", "none")
    BY DEF Idle, Locked, Step, AfterStep
  <2>3. ~ Stuck(c)
    BY <2>2 DEF Stuck
  <2>4. Same(c) => admission[c].state = "SIGNED"
    <3>1. intent[c]["reserveClaim"].state # "NONE" /\ admission[c].state # "NONE"
      BY <1>0, <1>13 DEF SlotParts, PreparingInv
    <3>2. Same(c) => admission[c].state # "EXPIRED"
      BY <2>2 DEF SlotParts, SlotInv
    <3> QED BY <3>1, <3>2 DEF TypeOK
  <2>5. job'[c] \notin {"UPLOADING"} \cup Waiting
    BY <1>0, <1>4, <1>5 DEF JobAfter, Waiting, EventOf
  <2>6. Same(c) /\ Ended(c)' => job'[c] \notin Projected
    <3>1. CASE m = "reserveClaim"
      <4>1. Same(c) /\ Ended(c)' => job[c] \notin Projected \cup Waiting
        BY <1>9, <2>3, <3>1 DEF SlotParts, SlotInv
      <4> QED BY <1>5, <3>1, <4>1 DEF JobAfter, EventOf, Waiting, Projected
    <3>2. CASE m = "submitAssessment" /\ assessment[c].outcome = "QUALIFIES"
      <4>1. Final("ClaimQualified", c)
        BY <1>5, <3>2 DEF EventOf, Final, Positions
      <4>2. ~ Expired(c)
        BY <4>1, NotExpired DEF Expired, TypeOK
      <4>3. ~ Final("ClaimRejected", c)
        BY <3>2 DEF SlotParts, EndingInv
      <4> QED BY <1>9, <3>2, <4>2, <4>3, RecordedIsReserved
    <3>3. CASE m = "submitAssessment" /\ assessment[c].outcome # "QUALIFIES"
      BY <1>5, <3>3 DEF JobAfter, EventOf, Projected
    <3>4. CASE m = "collectPayment"
      BY <1>5, <3>4 DEF JobAfter, EventOf, Projected
    <3> QED BY <1>0, <3>1, <3>2, <3>3, <3>4
  <2> QED BY <2>1, <2>2, <2>4, <2>5, <2>6 DEF SlotInv
<1> QED BY <1>12, <1>14, <1>15, <1>16 DEF SlotParts

\* The stages of a relayed step.
LEMMA SlotOfSteps ==
  ASSUME TypeOK, TypeOK', ChainInv, NEW c \in Claim, SlotParts(c), NEW m \in Method,
         BeginStep(c, m) \/ Send(c, m) \/ SaveHash(c, m) \/ SaveStep(c, m)
  PROVE  LocalStep(c) /\ SlotParts(c)'
<1>0. /\ {"begin", "verify", "send", "hash", "receipt", "save-external", "quorum", "release"}
           \subseteq Stage
      /\ "none" \in Method \cup {"none"} /\ m \in Method \cup {"none"}
      /\ {"submitAssessment", "reserveClaim"} \subseteq Method
      /\ m \in {"reserveClaim", "submitAssessment", "collectPayment"}
      /\ tx \in [Claim -> [Method -> {"NONE", "PENDING", "SUCCESS", "REVERTED"}]]
      /\ recorded \subseteq 1 .. Len(log)
  BY DEF Stage, Method, TypeOK
<1>1. CASE BeginStep(c, m)
  <2>1. /\ at[c] = <<"begin", m>>
        /\ UNCHANGED <<now, escrow, log, recorded, tx, job, admission, assessment, serving, seen, row>>
    BY <1>1 DEF BeginStep, Step, envVars, chainVars
  <2>2. \/ /\ \E s \in {"save-external", "receipt"} : Goto(c, Step(s, m))
           /\ UNCHANGED <<intent, requested>>
        \/ /\ intent[c][m].state # "NONE" /\ Goto(c, Step("send", m))
           /\ UNCHANGED <<intent, requested>>
        \/ /\ m = "collectPayment" /\ Goto(c, Step("send", m))
           /\ intent' = [intent EXCEPT ![c][m].state = "PREPARED"] /\ UNCHANGED requested
        \/ /\ m # "collectPayment" /\ Goto(c, Step("verify", m)) /\ UNCHANGED intent
           /\ intent[c][m].state = "NONE"
           /\ requested' = [requested EXCEPT ![c] = @ \cup {KindOf(m)}]
    BY <1>1 DEF BeginStep
  <2>3. PICK s2 \in {"save-external", "receipt", "send", "verify"} :
          /\ Goto(c, Step(s2, m))
          /\ s2 = "verify" => m # "collectPayment" /\ intent' = intent /\ intent[c][m].state = "NONE"
          /\ s2 = "send" => \/ intent' = intent /\ intent[c][m].state # "NONE"
                            \/ intent' = [intent EXCEPT ![c][m].state = "PREPARED"]
    BY <2>2
  <2>4. at'[c] = <<s2, m>> /\ \A d \in Claim \ {c} : at'[d] = at[d]
    BY <1>0, <2>3, Going
  <2>5. \/ UNCHANGED intent
        \/ m = "collectPayment" /\ Writes(c, m, "PREPARED")
    BY <2>2, IntentStateTypes DEF IntentState
  <2>6. /\ \A d \in Claim \ {c} : requested'[d] = requested[d]
        /\ \/ requested'[c] = requested[c]
           \/ m = "submitAssessment" /\ requested'[c] = requested[c] \cup {"ASSESS"}
           \/ m = "reserveClaim" /\ requested'[c] = requested[c] \cup {"ADMIT"}
    <3>1. \/ requested' = requested
          \/ m # "collectPayment" /\ requested' = [requested EXCEPT ![c] = @ \cup {KindOf(m)}]
      BY <2>2
    <3>2. KindOf(m) = IF m = "reserveClaim" THEN "ADMIT" ELSE "ASSESS"
      BY DEF KindOf
    <3>3. requested \in [Claim -> SUBSET {"ADMIT", "ASSESS"}]
      BY DEF TypeOK
    <3>4. /\ \A d \in Claim \ {c} : requested'[d] = requested[d]
          /\ \/ requested'[c] = requested[c]
             \/ m # "collectPayment" /\ requested'[c] = requested[c] \cup {KindOf(m)}
      BY <3>1, <3>3
    <3> QED BY <1>0, <3>2, <3>4
  <2>7. /\ s2 = "verify" => intent'[c][m].state = "NONE"
        /\ s2 = "send" => intent'[c][m].state # "NONE"
    <3>1. intent' = [intent EXCEPT ![c][m].state = "PREPARED"] => intent'[c][m].state = "PREPARED"
      BY IntentStateTypes DEF IntentState, Writes
    <3> QED BY <2>3, <3>1
  <2>8. LocalStep(c)
    BY <1>0, <2>1, <2>4, <2>5, <2>6 DEF LocalStep, Untouched, Writes
  <2>9. "PREPARED" \in IntentState \ {"NONE"}
    BY DEF IntentState
  <2>10. Writing(c, m, "begin", s2)
    BY <2>1, <2>4, <2>5, <2>6, <2>7, <2>9 DEF Writing
  <2> QED BY <2>8, <2>10, WritingKeeps
<1>2. CASE Send(c, m)
  <2>1. /\ at[c] = <<"send", m>>
        /\ UNCHANGED <<now, escrow, log, recorded, job, admission, assessment, requested>>
        /\ UNCHANGED <<serving, seen, row>>
        /\ tx' = [tx EXCEPT ![c][m] = IF @ = "NONE" THEN "PENDING" ELSE @]
        /\ Goto(c, Step("hash", m)) /\ intent' = [intent EXCEPT ![c][m].state = "SUBMITTED"]
    BY <1>2 DEF Send, Step, envVars, verifierVars
  <2>2. at'[c] = <<"hash", m>> /\ \A d \in Claim \ {c} : at'[d] = at[d]
    BY <1>0, <2>1, Going
  <2>3. "SUBMITTED" \in IntentState
    BY DEF IntentState
  <2>4. Writes(c, m, "SUBMITTED")
    BY <2>1, <2>3, IntentStateTypes
  <2>5. /\ \A n \in Method \ {m} : tx'[c][n] = tx[c][n]
        /\ \/ tx'[c][m] = tx[c][m]
           \/ tx[c][m] = "NONE" /\ tx'[c][m] = "PENDING"
        /\ \A d \in Claim \ {c} : tx'[d] = tx[d]
    BY <1>0, <2>1
  <2>6. intent[c][m].state # "NONE" /\ intent'[c][m].state # "NONE"
    BY <2>1, <2>4 DEF SlotParts, PreparingInv, Step, Writes
  <2>7. LocalStep(c)
    BY <1>0, <2>1, <2>2, <2>4, <2>5 DEF LocalStep, Untouched, Writes
  <2>8. Writing(c, m, "send", "hash")
    BY <2>1, <2>2, <2>3, <2>4, <2>5, <2>6 DEF Writing
  <2> QED BY <2>7, <2>8, WritingKeeps
<1>3. CASE SaveHash(c, m)
  <2>1. /\ at[c] = <<"hash", m>> /\ Goto(c, Step("receipt", m))
        /\ UNCHANGED <<now, escrow, log, recorded, tx, job, admission, assessment, requested>>
        /\ UNCHANGED <<serving, seen, row>>
    BY <1>3 DEF SaveHash, Step, envVars, chainVars, verifierVars
  <2>2. at'[c] = <<"receipt", m>> /\ \A d \in Claim \ {c} : at'[d] = at[d]
    BY <1>0, <2>1, Going
  <2>3. "BROADCAST" \in IntentState
    BY DEF IntentState
  <2>4. Writes(c, m, "BROADCAST")
    BY <1>3, HashSaved
  <2>5. intent[c][m].state # "NONE"
    BY <2>1 DEF SlotParts, PreparingInv, Step
  <2>6. LocalStep(c)
    BY <1>0, <2>1, <2>2, <2>4 DEF LocalStep, Untouched, Writes
  <2>7. Writing(c, m, "hash", "receipt")
    BY <2>1, <2>2, <2>3, <2>4, <2>5 DEF Writing
  <2> QED BY <2>6, <2>7, WritingKeeps
<1>4. CASE SaveStep(c, m)
  <2>1. /\ at[c] = <<"receipt", m>> /\ tx[c][m] = "SUCCESS"
        /\ UNCHANGED <<now, escrow, log, tx, admission, assessment, requested, serving, seen>>
        /\ intent' = [intent EXCEPT ![c][m].state = "CONFIRMED"]
    BY <1>4 DEF SaveStep, Step, envVars, chainVars, verifierVars
  <2>2. PICK i \in 1 .. Len(log) : Proves(c, m, i) /\ SaveEvent(c, i)
    BY <1>4 DEF SaveStep
  <2>3. "CONFIRMED" \in IntentState
    BY DEF IntentState
  <2>4. Writes(c, m, "CONFIRMED")
    BY <2>1, <2>3, IntentStateTypes
  <2>5. /\ \A d \in Claim \ {c} : at'[d] = at[d] /\ row'[d] = row[d]
        /\ \/ at'[c] = <<"idle", "none">> /\ m = "submitAssessment"
           \/ /\ at'[c] = AfterStep(m)
              /\ m = "submitAssessment" => assessment[c].outcome = "QUALIFIES"
    <3>1. CASE Leave(c) /\ m = "submitAssessment"
      <4>1. \A d \in Claim \ {c} : row'[d] = row[d]
        BY <3>1 DEF Leave, TypeOK
      <4> QED BY <3>1, <4>1, TypeGroups, LeaveTypes
    <3>2. CASE /\ Goto(c, AfterStep(m)) /\ UNCHANGED row
               /\ m = "submitAssessment" => assessment[c].outcome = "QUALIFIES"
      <4>1. at'[c] = AfterStep(m) /\ \A d \in Claim \ {c} : at'[d] = at[d]
        BY <3>2 DEF Goto, TypeOK
      <4> QED BY <3>2, <4>1
    <3> QED BY <1>4, <3>1, <3>2 DEF SaveStep
  <2>6. LocalStep(c)
    <3>1. \A d \in Claim \ {c} : job'[d] = job[d]
      BY <2>2 DEF SaveEvent, TypeOK
    <3>2. log[i].claim = c /\ recorded' = recorded \cup {i}
      BY <2>2 DEF Proves, Positions, SaveEvent
    <3> QED BY <1>0, <2>1, <2>4, <2>5, <3>1, <3>2 DEF LocalStep, Untouched, Writes
  <2> QED BY <2>1, <2>2, <2>3, <2>4, <2>5, <2>6, SavingKeeps
<1> QED BY <1>1, <1>2, <1>3, <1>4

\* The steps that record, close, gate or release.
LEMMA SlotOfRecords ==
  ASSUME TypeOK, TypeOK', ChainInv, NEW c \in Claim, SlotParts(c),
         \/ RecordAdmissionExpired(c) \/ RequestRecovery(c) \/ SaveExternalPayment(c)
         \/ CloseIntent(c) \/ AwaitQuorum(c) \/ PassQuorum(c) \/ ReleaseIfPaid(c)
  PROVE  LocalStep(c) /\ SlotParts(c)'
<1>0. /\ {"begin", "receipt", "save-external", "reconcile", "quorum", "release"} \subseteq Stage
      /\ "none" \in Method \cup {"none"} /\ {"reserveClaim", "collectPayment"} \subseteq Method
      /\ recorded \subseteq 1 .. Len(log)
  BY DEF Stage, Method, TypeOK
<1>1. CASE RecordAdmissionExpired(c)
  <2>1. /\ at[c] = <<"admission-expired", "none">> /\ Leave(c)
        /\ UNCHANGED <<now, escrow, log, tx, recorded, assessment, requested, serving, seen>>
        /\ job' = [job EXCEPT ![c] = "ADMISSION_EXPIRED"]
        /\ intent' = [intent EXCEPT ![c]["reserveClaim"].state = "EXPIRED"]
        /\ admission' = [admission EXCEPT ![c].state = "EXPIRED"]
    BY <1>1 DEF RecordAdmissionExpired, Step, envVars, chainVars, verifierVars
  <2>2. at'[c] = <<"idle", "none">> /\ \A d \in Claim \ {c} : at'[d] = at[d] /\ row'[d] = row[d]
    <3>1. \A d \in Claim \ {c} : row'[d] = row[d]
      BY <2>1 DEF Leave, TypeOK
    <3> QED BY <2>1, <3>1, TypeGroups, LeaveTypes
  <2>3. "EXPIRED" \in IntentState
    BY DEF IntentState
  <2>4. Writes(c, "reserveClaim", "EXPIRED")
    BY <1>0, <2>1, <2>3, IntentStateTypes
  <2>5. /\ job'[c] = "ADMISSION_EXPIRED" /\ \A d \in Claim \ {c} : job'[d] = job[d]
        /\ admission'[c].state = "EXPIRED" /\ admission'[c].validUntil = admission[c].validUntil
        /\ \A d \in Claim \ {c} : admission'[d] = admission[d]
    BY <2>1 DEF TypeOK
  <2>6. LocalStep(c)
    BY <1>0, <2>1, <2>2, <2>4, <2>5 DEF LocalStep, Untouched, Writes
  <2>7. Deadline(c)' = Deadline(c)
    BY <2>4 DEF Writes, Deadline
  <2>8. SigningInv(c)'
    BY <2>1, <2>5, <2>7 DEF SlotParts, SigningInv, Latest
  <2>9. PreparingInv(c)'
    BY <1>0, <2>1, <2>2, <2>4, <2>5, StandingStill
       DEF SlotParts, PreparingInv, Writes, WaitsFor, Step, Projected
  <2>10. EndingInv(c)'
    BY <2>1, <2>4, <2>7, StandingStill DEF SlotParts, EndingInv, Writes, Method
  <2>11. SlotInv(c)'
    <3>1. /\ Reserved(c)' <=> Reserved(c)
          /\ Ended(c)' <=> Ended(c)
          /\ NoMoreReserved(c)' <=> NoMoreReserved(c)
          /\ Same(c)' <=> Same(c)
      BY <2>1, <2>5, <2>7, StandingStill DEF NoMoreReserved, Same
    <3> QED BY <2>1, <2>2, <2>5, <3>1
            DEF SlotParts, SlotInv, Stuck, Step, Idle, Locked, Turned, Waiting, Projected
  <2> QED BY <2>6, <2>8, <2>9, <2>10, <2>11 DEF SlotParts
<1>2. CASE SaveExternalPayment(c)
  <2>1. /\ at[c] = <<"save-external", "collectPayment">> /\ Goto(c, Step("reconcile", "none"))
        /\ UNCHANGED <<now, escrow, log, tx, admission, assessment, requested, serving, seen>>
        /\ UNCHANGED <<intent, row>>
    BY <1>2 DEF SaveExternalPayment, Step, envVars, chainVars, verifierVars
  <2>2. PICK i \in 1 .. Len(log) : Proves(c, "collectPayment", i) /\ SaveEvent(c, i)
    BY <1>2 DEF SaveExternalPayment
  <2>3. at'[c] = <<"reconcile", "none">> /\ \A d \in Claim \ {c} : at'[d] = at[d]
    BY <1>0, <2>1, Going
  <2>4. LocalStep(c)
    <3>1. \A d \in Claim \ {c} : job'[d] = job[d]
      BY <2>2 DEF SaveEvent, TypeOK
    <3>2. log[i].claim = c /\ recorded' = recorded \cup {i}
      BY <2>2 DEF Proves, Positions, SaveEvent
    <3> QED BY <1>0, <2>1, <2>3, <3>1, <3>2 DEF LocalStep, Untouched
  <2> QED BY <1>0, <2>1, <2>2, <2>3, <2>4, SavingKeeps
<1>3. CASE RequestRecovery(c) \/ AwaitQuorum(c) \/ ReleaseIfPaid(c)
  <2>1. /\ at[c] \in {<<"reservation-over", "none">>, <<"quorum", "none">>, <<"release", "none">>}
        /\ Leave(c)
        /\ UNCHANGED <<now, escrow, log, tx, recorded, admission, assessment, intent>>
        /\ UNCHANGED <<requested, serving, seen>>
        /\ UNCHANGED job \/ \E s \in {"RECOVERY_PENDING", "AWAITING_QUORUM"} :
                              job' = [job EXCEPT ![c] = s]
    BY <1>3 DEF RequestRecovery, AwaitQuorum, ReleaseIfPaid, Step, envVars, chainVars, verifierVars
  <2>2. at'[c] = <<"idle", "none">> /\ \A d \in Claim \ {c} : at'[d] = at[d] /\ row'[d] = row[d]
    <3>1. \A d \in Claim \ {c} : row'[d] = row[d]
      BY <2>1 DEF Leave, TypeOK
    <3> QED BY <2>1, <3>1, TypeGroups, LeaveTypes
  <2>3. /\ job'[c] \in {job[c], "RECOVERY_PENDING", "AWAITING_QUORUM"}
        /\ \A d \in Claim \ {c} : job'[d] = job[d]
    <3>1. job \in [Claim -> JobState]
      BY DEF TypeOK
    <3> QED BY <2>1, <3>1
  <2>4. LocalStep(c)
    BY <1>0, <2>1, <2>2, <2>3 DEF LocalStep, Untouched
  <2>5. SigningInv(c)' /\ EndingInv(c)'
    BY <2>1, StandingStill DEF SlotParts, SigningInv, EndingInv, Latest, Deadline
  <2>6. PreparingInv(c)'
    BY <2>1, <2>2, <2>3, StandingStill DEF SlotParts, PreparingInv, WaitsFor, Step, Idle, Projected
  <2>7. SlotInv(c)'
    <3>1. /\ Reserved(c)' <=> Reserved(c)
          /\ Ended(c)' <=> Ended(c)
          /\ Same(c)' <=> Same(c)
      BY <2>1, StandingStill DEF Same, Deadline
    <3> QED BY <2>1, <2>2, <2>3, <3>1
            DEF SlotParts, SlotInv, Stuck, Step, Idle, Locked, Waiting, Projected
  <2> QED BY <2>4, <2>5, <2>6, <2>7 DEF SlotParts
<1>4. CASE CloseIntent(c) \/ PassQuorum(c)
  <2>1. /\ at[c] \in {<<"reconcile", "none">>, <<"quorum", "none">>}
        /\ Goto(c, Step("release", "none")) \/ Goto(c, Step("begin", "collectPayment"))
        /\ UNCHANGED <<now, escrow, log, tx, recorded, admission, assessment, job, row>>
        /\ UNCHANGED <<requested, serving, seen>>
        /\ UNCHANGED intent \/ intent' = [intent EXCEPT ![c]["collectPayment"].state = "RECONCILED"]
    BY <1>4 DEF CloseIntent, PassQuorum, Step, envVars, chainVars, verifierVars, dbVars
  <2>2. /\ at'[c] \in {<<"release", "none">>, <<"begin", "collectPayment">>}
        /\ \A d \in Claim \ {c} : at'[d] = at[d]
    BY <1>0, <2>1, Going
  <2>3. "RECONCILED" \in IntentState
    BY DEF IntentState
  <2>4. UNCHANGED intent \/ Writes(c, "collectPayment", "RECONCILED")
    BY <1>0, <2>1, <2>3, IntentStateTypes
  <2>5. LocalStep(c)
    BY <1>0, <2>1, <2>2, <2>4 DEF LocalStep, Untouched, Writes
  <2>6. /\ Deadline(c)' = Deadline(c)
        /\ intent'[c]["submitAssessment"] = intent[c]["submitAssessment"]
        /\ intent'[c]["reserveClaim"] = intent[c]["reserveClaim"]
        /\ \A n \in Method : intent[c][n].state # "NONE" => intent'[c][n].state # "NONE"
    BY <2>4 DEF Writes, Deadline, Method
  <2>7. SigningInv(c)' /\ EndingInv(c)'
    BY <2>1, <2>6, StandingStill DEF SlotParts, SigningInv, EndingInv, Latest
  <2>8. PreparingInv(c)'
    BY <2>1, <2>2, <2>6, StandingStill DEF SlotParts, PreparingInv, WaitsFor, Step, Idle
  <2>9. SlotInv(c)'
    <3>1. /\ Reserved(c)' <=> Reserved(c)
          /\ Ended(c)' <=> Ended(c)
          /\ Same(c)' <=> Same(c)
      BY <2>1, <2>6, StandingStill DEF Same
    <3> QED BY <2>1, <2>2, <3>1 DEF SlotParts, SlotInv, Stuck, Step, Idle, Locked
  <2> QED BY <2>5, <2>7, <2>8, <2>9 DEF SlotParts
<1> QED BY <1>1, <1>2, <1>3, <1>4

\* What an answer to a waiting job leaves: a prepared intent that did not
\* exist, or nothing new.
LEMMA AnswerShape ==
  ASSUME TypeOK, NEW c \in Claim, SlotParts(c), NEW m \in Method \ {"collectPayment"},
         NEW v \in Nat, Answered(c, m, v), UNCHANGED <<lock, row>>
  PROVE  /\ \A d \in Claim \ {c} : intent'[d] = intent[d] /\ at'[d] = at[d]
         /\ \/ /\ at[c] = <<"verify", m>> /\ at'[c] = <<"send", m>>
               /\ intent[c][m].state = "NONE"
               /\ intent'[c][m].state = "PREPARED" /\ intent'[c][m].validUntil = v
               /\ \A n \in Method \ {m} : intent'[c][n] = intent[c][n]
            \/ intent' = intent /\ at' = at
<1>1. CASE /\ WaitsFor(c, m)
           /\ intent' = [intent EXCEPT ![c][m] =
                           [state |-> "PREPARED", hash |-> FALSE, validUntil |-> v]]
           /\ at' = [at EXCEPT ![c] = Step("send", m)]
  <2>1. intent \in [Claim -> [Method -> [state : IntentState, hash : BOOLEAN, validUntil : Nat]]]
    BY TypeGroups DEF IntentTypes
  <2> DEFINE i == [state |-> "PREPARED", hash |-> FALSE, validUntil |-> v]
  <2>2. i.state = "PREPARED" /\ i.validUntil = v
    OBVIOUS
  <2>3. intent' = [intent EXCEPT ![c][m] = i]
    BY <1>1
  <2> HIDE DEF i
  <2>4. /\ intent'[c][m] = i /\ \A n \in Method \ {m} : intent'[c][n] = intent[c][n]
        /\ \A d \in Claim \ {c} : intent'[d] = intent[d]
    BY <2>1, <2>3
  <2>5. at'[c] = <<"send", m>> /\ \A d \in Claim \ {c} : at'[d] = at[d]
    BY <1>1, TypeGroups DEF WorkerTypes, AtTypes, Step
  <2>6. at[c] = <<"verify", m>> /\ intent[c][m].state = "NONE"
    BY <1>1 DEF WaitsFor, Step, SlotParts, PreparingInv
  <2> QED BY <2>2, <2>4, <2>5, <2>6
<1>2. CASE UNCHANGED <<intent, at>>
  BY <1>2
<1> QED BY <1>1, <1>2 DEF Answered

\* A request that ends.
LEMMA ServedShape ==
  ASSUME TypeOK, NEW c \in Claim, Served(c)
  PROVE  /\ serving'[c] = "NONE" /\ seen'[c].now = 0
         /\ \A d \in Claim \ {c} : serving'[d] = serving[d] /\ seen'[d] = seen[d]
BY DEF Served, TypeOK, Unread

\* A request that begins sees the clock, which no expiry is ahead of.
LEMMA SlotOfServe ==
  ASSUME TypeOK, TypeOK', ChainInv, NEW c \in Claim, SlotParts(c),
         NEW kind \in {"ADMIT", "ASSESS"}, Serve(c, kind)
  PROVE  LocalStep(c) /\ SlotParts(c)'
<1>1. /\ UNCHANGED <<now, escrow, log, tx, recorded, job, row, at, admission, assessment, intent>>
      /\ kind \in requested[c] /\ serving[c] = "NONE" /\ recorded \subseteq 1 .. Len(log)
  BY DEF Serve, envVars, chainVars, workerVars, dbVars, TypeOK
<1>2. /\ serving'[c] = kind /\ seen'[c].now = now /\ (seen'[c].allowed <=> Allowed(c, kind))
      /\ requested'[c] \subseteq requested[c]
      /\ \A d \in Claim \ {c} :
           serving'[d] = serving[d] /\ seen'[d] = seen[d] /\ requested'[d] = requested[d]
  BY DEF Serve, TypeOK
<1>3. LocalStep(c)
  BY <1>1, <1>2 DEF LocalStep, Untouched
<1>4. SigningInv(c)'
  <2>1. kind = "ADMIT" /\ seen'[c].allowed => now < SubmissionDeadline
    BY <1>2 DEF Allowed
  <2> QED BY <1>1, <1>2, <2>1, SlotTypes DEF SlotParts, SigningInv, Latest, Deadline
<1>5. PreparingInv(c)'
  BY <1>1, <1>2, StandingStill DEF SlotParts, PreparingInv, WaitsFor
<1>6. EndingInv(c)'
  <2>1. Expired(c) => Deadline(c) < now + AdmissionWindow
    BY RecordedIsReserved DEF SlotParts, EndingInv
  <2> QED BY <1>1, <1>2, <2>1, StandingStill DEF SlotParts, EndingInv, Deadline
<1>7. SlotInv(c)'
  <2>1. /\ Reserved(c)' <=> Reserved(c)
        /\ Ended(c)' <=> Ended(c)
        /\ Same(c)' <=> Same(c)
        /\ NoMoreReserved(c)' <=> NoMoreReserved(c)
        /\ Stuck(c)' <=> Stuck(c)
    BY <1>1, StandingStill DEF Same, Deadline, NoMoreReserved, Stuck
  <2> QED BY <1>1, <2>1 DEF SlotParts, SlotInv
<1> QED BY <1>3, <1>4, <1>5, <1>6, <1>7 DEF SlotParts

\* An admission signed for a job that waits is of a claim whose reservation
\* was never sent: none is made, none is recorded.
LEMMA SlotOfNewIntent ==
  ASSUME TypeOK, TypeOK', ChainInv, NEW c \in Claim, SlotParts(c),
         UNCHANGED <<now, escrow, log, tx, recorded, assessment, requested, row>>,
         job'[c] \in {job[c], "RESERVING"}, serving[c] = "ADMIT", serving'[c] = "NONE",
         seen'[c].now = 0, admission'[c].state = "SIGNED",
         admission'[c].validUntil <= Latest(now),
         at[c] = <<"verify", "reserveClaim">>, at'[c] = <<"send", "reserveClaim">>,
         intent[c]["reserveClaim"].state = "NONE", intent'[c]["reserveClaim"].state = "PREPARED",
         intent'[c]["reserveClaim"].validUntil = admission'[c].validUntil,
         \A n \in Method \ {"reserveClaim"} : intent'[c][n] = intent[c][n]
  PROVE  SlotParts(c)'
<1>1. {"reserveClaim", "submitAssessment"} \subseteq Method
  BY DEF Method
<1>2. tx[c]["reserveClaim"] = "NONE"
  BY <1>1 DEF SlotParts, PreparingInv
<1>3. ~ WasReserved(c) /\ ~ Reserved(c) /\ ~ Ended(c) /\ ~ Over(c) /\ ~ Expired(c)
  BY <1>2, RecordedIsReserved
<1>4. ~ ExpiredOnChain(c)
  BY <1>3 DEF ExpiredOnChain, Over, Ends
<1>5. escrow.claim # c
  BY <1>3, SettlementAssumption DEF ChainInv, ClaimIsReserved
<1>6. job[c] # "UPLOADING"
  BY DEF SlotParts, PreparingInv, Idle
<1>7. SigningInv(c)'
  <2>1. admission'[c].validUntil \in Nat /\ now \in Nat
    BY SlotTypes DEF TypeOK
  <2> QED BY <2>1 DEF SigningInv, Deadline, Latest
<1>8. PreparingInv(c)'
  BY <1>1, <1>2, <1>3, <1>6, StandingStill DEF SlotParts, PreparingInv, WaitsFor, Step, Projected
<1>9. EndingInv(c)'
  BY <1>1, <1>2, <1>3, <1>4, <1>5, StandingStill DEF SlotParts, EndingInv
<1>10. SlotInv(c)'
  BY <1>3, StandingStill DEF SlotInv, Step
<1> QED BY <1>7, <1>8, <1>9, <1>10 DEF SlotParts

\* The answer to a request that nobody waits for leaves the job where it is.
LEMMA SlotOfAdmission ==
  ASSUME TypeOK, TypeOK', ChainInv, NEW c \in Claim, SlotParts(c), AdmitAgain(c) \/ Admit(c)
  PROVE  LocalStep(c) /\ SlotParts(c)'
<1> DEFINE v == IF AdmitAgain(c) THEN admission[c].validUntil ELSE Latest(seen[c].now)
<1>1. /\ UNCHANGED <<now, escrow, log, tx, recorded, assessment, requested, row, lock>>
      /\ serving[c] = "ADMIT" /\ recorded \subseteq 1 .. Len(log)
      /\ Served(c)
  BY DEF AdmitAgain, Admit, envVars, chainVars, TypeOK
<1>2. v \in Nat /\ v <= Latest(now) /\ admission[c].validUntil <= v
  <2>1. Latest(seen[c].now) <= Latest(now)
    BY SlotTypes, Windows DEF SlotParts, SigningInv
  <2>2. Latest(seen[c].now) \in Nat
    BY SlotTypes
  <2>3. v = admission[c].validUntil \/ v = Latest(seen[c].now)
    OBVIOUS
  <2> HIDE DEF v
  <2>4. /\ admission[c].validUntil <= Latest(seen[c].now) /\ admission[c].validUntil <= Latest(now)
        /\ admission[c].validUntil \in Nat
    BY <1>1, SlotTypes DEF SlotParts, SigningInv
  <2> QED BY <2>1, <2>2, <2>3, <2>4
<1>3. "reserveClaim" \in Method \ {"collectPayment"} /\ Answered(c, "reserveClaim", v)
  <2>1. ~ (AdmitAgain(c) /\ Admit(c))
    BY DEF AdmitAgain, Admit
  <2> QED BY <2>1 DEF AdmitAgain, Admit, Latest, Method
<1>4. \/ /\ UNCHANGED <<job, admission>> /\ v = admission[c].validUntil
         /\ admission[c].state = "SIGNED"
      \/ /\ ~ SignedBefore(c) /\ seen[c].allowed /\ v = Latest(seen[c].now)
         /\ admission' = [admission EXCEPT ![c] = [state |-> "SIGNED", validUntil |-> v]]
         /\ job' = [job EXCEPT ![c] = "RESERVING"]
  BY DEF AdmitAgain, Admit, SignedBefore, Latest
<1> HIDE DEF v
<1>5. /\ admission'[c].state = "SIGNED" /\ admission'[c].validUntil = v
      /\ job'[c] \in {job[c], "RESERVING"}
      /\ \A d \in Claim \ {c} : admission'[d] = admission[d] /\ job'[d] = job[d]
  <2>1. admission \in [Claim -> [state : {"NONE", "SIGNED", "EXPIRED"}, validUntil : Nat]]
        /\ job \in [Claim -> JobState]
    BY DEF TypeOK
  <2> QED BY <1>4, <2>1
<1>6. /\ \A d \in Claim \ {c} : intent'[d] = intent[d] /\ at'[d] = at[d]
      /\ \/ /\ at[c] = <<"verify", "reserveClaim">> /\ at'[c] = <<"send", "reserveClaim">>
            /\ intent[c]["reserveClaim"].state = "NONE"
            /\ intent'[c]["reserveClaim"].state = "PREPARED"
            /\ intent'[c]["reserveClaim"].validUntil = v
            /\ \A n \in Method \ {"reserveClaim"} : intent'[c][n] = intent[c][n]
         \/ intent' = intent /\ at' = at
  BY <1>1, <1>2, <1>3, AnswerShape
<1>7. /\ serving'[c] = "NONE" /\ seen'[c].now = 0
      /\ \A d \in Claim \ {c} : serving'[d] = serving[d] /\ seen'[d] = seen[d]
  BY <1>1, ServedShape
<1>8. LocalStep(c)
  BY <1>1, <1>5, <1>6, <1>7 DEF LocalStep, Untouched
<1>9. CASE intent' = intent /\ at' = at
  <2>1. Deadline(c)' = Deadline(c)
    BY <1>9 DEF Deadline
  <2>2. SigningInv(c)'
    <3>1. /\ Deadline(c) <= admission[c].validUntil /\ Deadline(c) \in Nat
          /\ admission[c].validUntil \in Nat /\ now \in Nat
      BY SlotTypes DEF SlotParts, SigningInv
    <3>2. Deadline(c) <= v
      BY <3>1, <1>2
    <3>3. UNCHANGED Latest(now)
      BY <1>1 DEF Latest
    <3>4. SigningInv(c)' = /\ seen'[c].now <= now'
                           /\ admission'[c].validUntil <= Latest(now)'
                           /\ Deadline(c)' <= admission'[c].validUntil
                           /\ serving'[c] # "NONE" => admission'[c].validUntil <= Latest(seen[c].now)'
                           /\ serving'[c] = "ADMIT" /\ seen'[c].allowed => seen'[c].now < SubmissionDeadline
      BY DEF SigningInv
    <3> QED BY <3>1, <3>2, <3>3, <3>4, <2>1, <1>1, <1>2, <1>5, <1>7
  <2>3. PreparingInv(c)'
    BY <1>1, <1>5, <1>7, <1>9, StandingStill DEF SlotParts, PreparingInv, WaitsFor, Projected
  <2>4. EndingInv(c)'
    BY <1>1, <1>7, <1>9, <2>1, StandingStill DEF SlotParts, EndingInv
  <2>5. SlotInv(c)'
    <3>1. /\ Reserved(c)' <=> Reserved(c)
          /\ Ended(c)' <=> Ended(c)
          /\ NoMoreReserved(c)' <=> NoMoreReserved(c)
      BY <1>1, <2>1, StandingStill DEF NoMoreReserved
    <3>2. CASE UNCHANGED <<job, admission>>
      <4>1. Same(c)' <=> Same(c)
        BY <1>1, <2>1, <3>2 DEF Same
      <4>2. Stuck(c)' <=> Stuck(c)
        BY <1>1, <1>9, <2>1, <3>1, <3>2 DEF Stuck
      <4> QED BY <1>1, <1>9, <3>1, <3>2, <4>1, <4>2 DEF SlotParts, SlotInv
    <3>3. CASE ~ SignedBefore(c) /\ seen[c].allowed /\ v = Latest(seen[c].now)
               /\ job' = [job EXCEPT ![c] = "RESERVING"]
      <4>1. job'[c] = "RESERVING"
        BY <3>3 DEF TypeOK
      <4>2. Same(c)' => Same(c) /\ Deadline(c) = v
        BY <1>1, <1>2, <1>5, <2>1, SlotTypes DEF Same, SlotParts, SigningInv
      <4>3. Same(c)' => admission[c].state # "SIGNED"
        <5>1. seen[c].now < SubmissionDeadline
          BY <1>1, <3>3 DEF SlotParts, SigningInv
        <5>2. v >= seen[c].now
          BY <3>3, <5>1, SlotTypes, Windows
        <5> QED BY <3>3, <4>2, <5>2 DEF Same, SignedBefore
      <4>4. Same(c)' => ~ Reserved(c)
        BY <4>2, <4>3 DEF SlotParts, SlotInv
      <4>5. Same(c)' /\ Ended(c) => Stuck(c)'
        <5> SUFFICES ASSUME Same(c)', Ended(c) PROVE Stuck(c)'
          OBVIOUS
        <5>1. ~ Final("ClaimRejected", c)
          BY <4>4 DEF SlotParts, EndingInv, PreparingInv
        <5>2. Expired(c)
          BY <5>1, RecordedIsReserved
        <5>3. v < seen[c].now + AdmissionWindow
          BY <1>1, <4>2, <5>2 DEF SlotParts, EndingInv
        <5>4. Deadline(c) >= SubmissionDeadline
          BY <3>3, <4>2, <5>3, SlotTypes, Deadlines DEF Latest, Lesser
        <5>5. tx[c]["reserveClaim"] # "NONE" /\ "reserveClaim" \in Method
          BY RecordedIsReserved DEF Method
        <5>6. admission[c].state = "EXPIRED"
          <6>1. admission[c].state # "NONE"
            BY <5>5 DEF SlotParts, PreparingInv
          <6> QED BY <4>3, <6>1 DEF TypeOK
        <5>7. /\ NoMoreReserved(c)
              /\ at[c] = Idle \/ (at[c] = Locked /\ row[c] \in Turned)
          BY <4>2, <5>6 DEF SlotParts, SlotInv
        <5> QED BY <1>1, <1>9, <2>1, <3>1, <4>1, <5>4, <5>7 DEF Stuck
      <4> QED BY <1>1, <1>5, <1>9, <3>1, <4>1, <4>4, <4>5 DEF SlotParts, SlotInv, Projected
    <3> QED BY <1>4, <3>2, <3>3
  <2> QED BY <1>8, <2>2, <2>3, <2>4, <2>5 DEF SlotParts
<1>10. CASE /\ at[c] = <<"verify", "reserveClaim">> /\ at'[c] = <<"send", "reserveClaim">>
            /\ intent[c]["reserveClaim"].state = "NONE"
            /\ intent'[c]["reserveClaim"].state = "PREPARED"
            /\ intent'[c]["reserveClaim"].validUntil = v
            /\ \A n \in Method \ {"reserveClaim"} : intent'[c][n] = intent[c][n]
  BY <1>1, <1>2, <1>5, <1>7, <1>8, <1>10, SlotOfNewIntent
<1> QED BY <1>6, <1>8, <1>9, <1>10

\* An assessment is begun only for a claim that its job or an earlier request
\* found reserved, and never after its end is recorded.
LEMMA SlotOfAssessment ==
  ASSUME Adapter = "FIXTURE", IInv, IInv', NEW c \in Claim, SlotParts(c),
         AssessAgain(c) \/ Assess(c)
  PROVE  LocalStep(c) /\ SlotParts(c)'
<1>0. /\ TypeOK /\ TypeOK' /\ ChainInv /\ ReportInv
      /\ {"reserveClaim", "submitAssessment"} \subseteq Method
  BY DEF IInv, Method
<1>1. /\ UNCHANGED <<now, escrow, log, tx, recorded, admission, requested, row, lock>>
      /\ serving[c] = "ASSESS" /\ recorded \subseteq 1 .. Len(log)
      /\ Served(c) /\ Answered(c, "submitAssessment", 0)
  BY <1>0 DEF AssessAgain, Assess, envVars, chainVars, TypeOK
<1>2. /\ \A d \in Claim \ {c} : intent'[d] = intent[d] /\ at'[d] = at[d]
      /\ \/ /\ at[c] = <<"verify", "submitAssessment">> /\ at'[c] = <<"send", "submitAssessment">>
            /\ intent'[c]["submitAssessment"].state = "PREPARED"
            /\ intent'[c]["reserveClaim"] = intent[c]["reserveClaim"]
            /\ \A n \in Method \ {"submitAssessment"} : intent'[c][n] = intent[c][n]
         \/ intent' = intent /\ at' = at
  <2>1. "submitAssessment" \in Method \ {"collectPayment"} /\ 0 \in Nat
    BY DEF Method
  <2> QED BY <1>0, <1>1, <2>1, AnswerShape
<1>3. /\ serving'[c] = "NONE" /\ seen'[c].now = 0
      /\ \A d \in Claim \ {c} : serving'[d] = serving[d] /\ seen'[d] = seen[d]
  BY <1>0, <1>1, ServedShape
<1>4. \/ UNCHANGED <<job, assessment>> /\ assessment[c].outcome # "NONE"
      \/ /\ assessment[c].outcome = "NONE" /\ seen[c].allowed
         /\ job' = [job EXCEPT ![c] = "ASSESSED"]
         /\ \E verdict \in Verdicts : assessment' = [assessment EXCEPT ![c] = verdict]
  BY DEF AssessAgain, Assess
<1>5. /\ \A d \in Claim \ {c} : job'[d] = job[d] /\ assessment'[d] = assessment[d]
      /\ assessment'[c].outcome # "NONE"
      /\ \/ job'[c] = job[c] /\ assessment'[c] = assessment[c]
         \/ job'[c] = "ASSESSED" /\ assessment[c].outcome = "NONE" /\ seen[c].allowed
  <2>1. /\ job \in [Claim -> JobState]
        /\ assessment \in [Claim -> [outcome : {"NONE", "QUALIFIES", "DOES_NOT_QUALIFY"},
                                     reward : 0 .. Reward]]
    BY <1>0 DEF TypeOK
  <2>2. \A verdict \in Verdicts : verdict.outcome # "NONE"
    BY DEF Verdicts
  <2> QED BY <1>4, <2>1, <2>2
<1>6. LocalStep(c)
  BY <1>1, <1>2, <1>3, <1>5 DEF LocalStep, Untouched
<1>7. Deadline(c)' = Deadline(c) /\ Reserved(c)
  BY <1>1, <1>2 DEF Deadline, SlotParts, PreparingInv
<1>8. WasReserved(c)
  BY <1>0, <1>7, RecordedIsReserved
<1>9. SigningInv(c)'
  BY <1>0, <1>1, <1>3, <1>7, SlotTypes DEF SlotParts, SigningInv, Latest
<1>10. PreparingInv(c)'
  BY <1>0, <1>1, <1>2, <1>3, <1>5, <1>7, <1>8, StandingStill
     DEF SlotParts, PreparingInv, WaitsFor, Step, Idle
<1>11. EndingInv(c)'
  BY <1>0, <1>1, <1>2, <1>3, <1>5, <1>7, StandingStill DEF SlotParts, EndingInv
<1>12. SlotInv(c)'
  <2>1. /\ Reserved(c)' <=> Reserved(c)
        /\ Ended(c)' <=> Ended(c)
        /\ Same(c)' <=> Same(c)
        /\ NoMoreReserved(c)' <=> NoMoreReserved(c)
    BY <1>1, <1>7, StandingStill DEF Same, NoMoreReserved
  <2>2. job'[c] # job[c] => ~ Ended(c) /\ job'[c] = "ASSESSED"
    <3> SUFFICES ASSUME job'[c] # job[c] PROVE ~ Ended(c) /\ job'[c] = "ASSESSED"
      OBVIOUS
    <3>1. assessment[c].outcome = "NONE" /\ seen[c].allowed /\ job'[c] = "ASSESSED"
      BY <1>5
    <3>2. ~ Expired(c)
      BY <1>0, <1>1, <3>1 DEF ReportInv, Quiet
    <3>3. ~ Final("ClaimRejected", c)
      BY <3>1 DEF SlotParts, EndingInv
    <3> QED BY <1>0, <3>1, <3>2, <3>3, RecordedIsReserved
  <2>3. job'[c] = job[c] => (Stuck(c) => at' = at /\ Stuck(c)')
    BY <1>1, <1>2, <1>7, <2>1 DEF Stuck, Step, Idle, Locked
  <2> QED BY <1>1, <1>2, <1>7, <2>1, <2>2, <2>3
          DEF SlotParts, SlotInv, Step, Idle, Locked, Waiting
<1> QED BY <1>6, <1>9, <1>10, <1>11, <1>12 DEF SlotParts

\* A refusal ends the wait of a job, or leaves it where it is.
LEMMA SlotOfRefusal ==
  ASSUME TypeOK, TypeOK', ChainInv, NEW c \in Claim, SlotParts(c), Refuse(c)
  PROVE  LocalStep(c) /\ SlotParts(c)'
<1>1. /\ UNCHANGED <<now, escrow, log, tx, recorded, admission, assessment, requested, intent>>
      /\ recorded \subseteq 1 .. Len(log) /\ Served(c)
  BY DEF Refuse, envVars, chainVars, TypeOK
<1>2. /\ serving'[c] = "NONE" /\ seen'[c].now = 0
      /\ \A d \in Claim \ {c} : serving'[d] = serving[d] /\ seen'[d] = seen[d]
  BY <1>1, ServedShape
<1>3. /\ \A d \in Claim \ {c} : at'[d] = at[d] /\ row'[d] = row[d]
      /\ \/ at'[c] = <<"idle", "none">> /\ at[c][1] = "verify"
         \/ UNCHANGED <<at, row>>
  <2>1. CASE Leave(c) /\ \E m \in Method : WaitsFor(c, m)
    <3>1. at'[c] = <<"idle", "none">> /\ \A d \in Claim \ {c} : at'[d] = at[d]
      BY <2>1, TypeGroups, LeaveTypes
    <3>2. \A d \in Claim \ {c} : row'[d] = row[d]
      BY <2>1 DEF Leave, TypeOK
    <3>3. at[c][1] = "verify"
      BY <2>1 DEF WaitsFor, Step
    <3> QED BY <3>1, <3>2, <3>3
  <2> QED BY <2>1 DEF Refuse, workerVars
<1>4. /\ \A d \in Claim \ {c} : job'[d] = job[d]
      /\ \/ job'[c] = job[c]
         \/ job'[c] = "INVALID_FIXTURE" /\ at'[c] = <<"idle", "none">> /\ at[c][1] = "verify"
  <2>1. \/ UNCHANGED job
        \/ /\ job' = [job EXCEPT ![c] = "INVALID_FIXTURE"]
           /\ Leave(c) /\ \E m \in Method : WaitsFor(c, m)
    BY DEF Refuse
  <2>2. Leave(c) => at'[c] = <<"idle", "none">>
    BY TypeGroups, LeaveTypes
  <2>3. (\E m \in Method : WaitsFor(c, m)) => at[c][1] = "verify"
    BY DEF WaitsFor, Step
  <2>4. job \in [Claim -> JobState]
    BY DEF TypeOK
  <2> QED BY <2>1, <2>2, <2>3, <2>4
<1>5. LocalStep(c)
  BY <1>1, <1>2, <1>3, <1>4 DEF LocalStep, Untouched
<1>6. Deadline(c)' = Deadline(c)
  BY <1>1 DEF Deadline
<1>7. SigningInv(c)'
  BY <1>1, <1>2, <1>6, SlotTypes DEF SlotParts, SigningInv, Latest
<1>8. PreparingInv(c)'
  BY <1>1, <1>2, <1>3, <1>4, StandingStill
     DEF SlotParts, PreparingInv, WaitsFor, Step, Idle, Projected
<1>9. EndingInv(c)'
  BY <1>1, <1>2, <1>6, StandingStill DEF SlotParts, EndingInv
<1>10. SlotInv(c)'
  <2>1. /\ Reserved(c)' <=> Reserved(c)
        /\ Ended(c)' <=> Ended(c)
        /\ Same(c)' <=> Same(c)
        /\ NoMoreReserved(c)' <=> NoMoreReserved(c)
    BY <1>1, <1>6, StandingStill DEF Same, NoMoreReserved
  <2>2. CASE UNCHANGED <<at, row>>
    <3>1. job'[c] = job[c] => (Stuck(c)' <=> Stuck(c))
      BY <1>6, <2>1, <2>2 DEF Stuck
    <3>2. job'[c] = "INVALID_FIXTURE" \/ job'[c] = job[c]
      BY <1>4
    <3>3. at'[c] = <<"idle", "none">> /\ at[c][1] = "verify" => FALSE
      BY <2>2
    <3> QED BY <1>1, <1>4, <2>1, <2>2, <3>1, <3>3 DEF SlotParts, SlotInv
  <2>3. CASE at'[c] = <<"idle", "none">> /\ at[c][1] = "verify"
    BY <1>1, <1>4, <2>1, <2>3
       DEF SlotParts, SlotInv, Stuck, Step, Idle, Locked, Waiting, Projected, Turned
  <2> QED BY <1>3, <2>2, <2>3
<1> QED BY <1>5, <1>7, <1>8, <1>9, <1>10 DEF SlotParts

\* The upload and the signature of a payout.
LEMMA SlotOfPeople ==
  ASSUME TypeOK, TypeOK', ChainInv, NEW c \in Claim, SlotParts(c), SubmitClaim(c) \/ SignApproval(c)
  PROVE  LocalStep(c) /\ SlotParts(c)'
<1>1. /\ UNCHANGED <<now, escrow, log, tx, recorded, admission, assessment, requested, intent>>
      /\ UNCHANGED <<serving, seen, at, row>> /\ recorded \subseteq 1 .. Len(log)
  BY DEF SubmitClaim, SignApproval, envVars, chainVars, verifierVars, workerVars, TypeOK
<1>2. /\ \A d \in Claim \ {c} : job'[d] = job[d]
      /\ job'[c] = job[c] \/ (job'[c] = "ADMISSION_PENDING" /\ job[c] = "UPLOADING")
  <2>1. job \in [Claim -> JobState]
    BY DEF TypeOK
  <2> QED BY <2>1 DEF SubmitClaim, SignApproval
<1>3. LocalStep(c)
  BY <1>1, <1>2 DEF LocalStep, Untouched
<1>4. /\ Reserved(c)' <=> Reserved(c)
      /\ Ended(c)' <=> Ended(c)
      /\ Same(c)' <=> Same(c)
      /\ NoMoreReserved(c)' <=> NoMoreReserved(c)
      /\ Deadline(c)' = Deadline(c)
  BY <1>1, StandingStill DEF Same, NoMoreReserved, Deadline
<1>5. job[c] = "UPLOADING" => ~ Reserved(c) /\ ~ Ended(c) /\ at[c] = Idle
  BY RecordedIsReserved DEF SlotParts, PreparingInv
<1>6. SigningInv(c)'
  BY <1>1, <1>4 DEF SlotParts, SigningInv, Latest
<1>7. PreparingInv(c)'
  BY <1>1, <1>2, <1>4, StandingStill DEF SlotParts, PreparingInv, WaitsFor, Projected
<1>8. EndingInv(c)'
  BY <1>1, <1>4, StandingStill DEF SlotParts, EndingInv
<1>9. SlotInv(c)'
  <2>1. job'[c] = job[c] => (Stuck(c)' <=> Stuck(c))
    BY <1>1, <1>4 DEF Stuck
  <2> QED BY <1>1, <1>2, <1>4, <1>5, <2>1 DEF SlotParts, SlotInv, Turned, Step, Idle
<1> QED BY <1>3, <1>6, <1>7, <1>8, <1>9 DEF SlotParts

\* Recovery names the claim whose expiry it records, and waits for its
\* verifier.
LEMMA SlotOfRecovery ==
  ASSUME Adapter = "FIXTURE", TypeOK, TypeOK', ChainInv, NEW c \in Claim, SlotParts(c),
         NEW i \in 1 .. Len(log), Reconcile(i), ExpiredBy(i) = c
  PROVE  SlotParts(c)'
<1>1. /\ UNCHANGED <<now, escrow, log, tx, admission, assessment, requested, intent>>
      /\ UNCHANGED <<serving, seen, at, row>> /\ recorded' = recorded \cup {i}
      /\ log[i].name \in {"ReservationExpired", "BountyRefunded"}
  BY DEF Reconcile, envVars, chainVars, verifierVars, workerVars
<1>2. job'[c] = "EXPIRED" /\ serving[c] = "NONE"
  <2>1. ExpiredBy(i) # NoClaim
    BY SettlementAssumption
  <2> QED BY <2>1 DEF Reconcile, VerifierBusy, TypeOK
<1>3. Reserved(c)' <=> Reserved(c)
  <2>1. recorded \subseteq recorded' /\ recorded' \subseteq 1 .. Len(log)
    BY <1>1 DEF TypeOK
  <2>2. Grows
    BY <1>1, TypeGroups, GrowsStaying DEF ChainTypes
  <2> QED BY <1>1, <2>1, <2>2, RecordsOf
<1>4. /\ Over(c)' <=> Over(c)
      /\ WasReserved(c)' <=> WasReserved(c)
      /\ ExpiredOnChain(c)' <=> ExpiredOnChain(c)
      /\ Final("ClaimRejected", c)' <=> Final("ClaimRejected", c)
      /\ Same(c)' <=> Same(c)
      /\ NoMoreReserved(c)' <=> NoMoreReserved(c)
      /\ Deadline(c)' = Deadline(c)
  BY <1>1 DEF WasReserved, Over, Ends, ExpiredBy, ExpiredOnChain, Final, Positions, Same,
              NoMoreReserved, Deadline
<1>5. SigningInv(c)'
  BY <1>1, <1>4 DEF SlotParts, SigningInv, Latest
<1>6. PreparingInv(c)'
  BY <1>1, <1>2, <1>3, <1>4 DEF SlotParts, PreparingInv, WaitsFor, Projected
<1>7. EndingInv(c)'
  BY <1>1, <1>2, <1>4 DEF SlotParts, EndingInv
<1>8. SlotInv(c)'
  BY <1>1, <1>2, <1>3, <1>4 DEF SlotParts, SlotInv, Turned, Waiting, Projected
<1> QED BY <1>5, <1>6, <1>7, <1>8 DEF SlotParts

-----------------------------------------------------------------------------
(* The invariant of the slots is inductive.                                *)

\* Every step keeps it.
LEMMA SlotsOfNext ==
  ASSUME Adapter = "FIXTURE", IInv, IInv', SlotsInv, Next
  PROVE  SlotsInv'
<1>0. /\ TypeOK /\ TypeOK' /\ ChainInv /\ Grows /\ Kept
      /\ recorded' \subseteq 1 .. Len(log')
  BY TypesOfNext, KeptByNext DEF IInv, ChainInv, TypeOK
<1>1. ASSUME NEW c \in Claim, LocalStep(c), SlotParts(c)' PROVE SlotsInv'
  <2>1. \A d \in Claim \ {c} : SlotParts(d)'
    BY <1>0, <1>1, UntouchedKeeps DEF LocalStep, SlotsInv
  <2> QED BY <1>1, <2>1 DEF SlotsInv
<1>2. CASE OthersCall \/ Tick \/ \E c \in Claim, m \in Method : Arrives(c, m)
  <2> SUFFICES ASSUME NEW d \in Claim PROVE SlotParts(d)'
    BY DEF SlotsInv
  <2>1. SlotParts(d)
    BY DEF SlotsInv
  <2>2. ChainMove(d) /\ UNCHANGED <<verifierVars, workerVars, dbVars>>
    BY <1>0, <1>2, ChainMoves
  <2> QED BY <1>0, <2>1, <2>2, ChainKeepsSlot
<1>3. ASSUME NEW c \in Claim, VerifierStep(c) PROVE SlotsInv'
  <2>1. SlotParts(c)
    BY DEF SlotsInv
  <2>2. LocalStep(c) /\ SlotParts(c)'
    BY <1>0, <1>3, <2>1, SlotOfServe, SlotOfAdmission, SlotOfAssessment, SlotOfRefusal
       DEF VerifierStep
  <2> QED BY <1>1, <2>2
<1>4. ASSUME NEW c \in Claim,
             \/ Start(c) \/ Acquire(c) \/ ReadChain(c) \/ Throw(c) \/ Crash(c)
             \/ \E m \in Method : BeginStep(c, m) \/ Send(c, m) \/ SaveHash(c, m) \/ SaveStep(c, m)
             \/ RecordAdmissionExpired(c) \/ RequestRecovery(c) \/ SaveExternalPayment(c)
             \/ CloseIntent(c) \/ AwaitQuorum(c) \/ PassQuorum(c) \/ ReleaseIfPaid(c)
             \/ SubmitClaim(c) \/ SignApproval(c)
      PROVE  SlotsInv'
  <2>1. SlotParts(c)
    BY DEF SlotsInv
  <2>2. LocalStep(c) /\ SlotParts(c)'
    BY <1>0, <1>4, <2>1, SlotOfQueue, SlotOfSteps, SlotOfRecords, SlotOfPeople
  <2> QED BY <1>1, <2>2
<1>5. ASSUME NEW i \in 1 .. Len(log), Reconcile(i) PROVE SlotsInv'
  <2>1. /\ UNCHANGED <<now, escrow, log, tx, admission, assessment, requested, intent>>
        /\ UNCHANGED <<serving, seen, at, row>> /\ recorded' = recorded \cup {i}
        /\ log[i].claim = ExpiredBy(i)
    BY <1>5 DEF Reconcile, envVars, chainVars, verifierVars, workerVars, ExpiredBy
  <2> SUFFICES ASSUME NEW d \in Claim PROVE SlotParts(d)'
    BY DEF SlotsInv
  <2>2. SlotParts(d)
    BY DEF SlotsInv
  <2>3. CASE ExpiredBy(i) = d
    BY <1>0, <1>5, <2>2, <2>3, SlotOfRecovery
  <2>4. CASE ExpiredBy(i) # d
    <3>1. job \in [Claim -> JobState] /\ recorded \subseteq 1 .. Len(log)
      BY <1>0 DEF TypeOK
    <3>2. job' = job \/ job' = [job EXCEPT ![ExpiredBy(i)] = "EXPIRED"]
      BY <1>5 DEF Reconcile
    <3>3. job'[d] = job[d]
      BY <2>4, <3>1, <3>2
    <3>4. Untouched(d) /\ recorded \subseteq recorded' /\ recorded' \subseteq 1 .. Len(log)
      BY <2>1, <2>4, <3>1, <3>3 DEF Untouched
    <3> QED BY <1>0, <2>1, <2>2, <3>4, UntouchedKeeps
  <2> QED BY <2>3, <2>4
<1> QED BY <1>2, <1>3, <1>4, <1>5, NextGroups

\* It holds of the bounty just funded.
LEMMA InitOfSlots ==
  ASSUME Init
  PROVE  SlotsInv
<1>0. TypeOK /\ ChainInv /\ {"reserveClaim", "submitAssessment"} \subseteq Method
  BY InitIsSafe DEF IInv, Method
<1> SUFFICES ASSUME NEW c \in Claim PROVE SlotParts(c)
  BY DEF SlotsInv
<1>1. /\ now = 0 /\ seen[c].now = 0 /\ serving[c] = "NONE" /\ requested[c] = {}
      /\ admission[c].validUntil = 0 /\ admission[c].state = "NONE"
      /\ Deadline(c) = 0 /\ at[c] = <<"idle", "none">> /\ job[c] = "UPLOADING"
      /\ escrow.claim = NoClaim /\ escrow.state = "FUNDED"
      /\ \A m \in Method : tx[c][m] = "NONE" /\ intent[c][m].state = "NONE"
  BY <1>0 DEF Init, Deadline, NoIntent, Unread, Idle, FundedEscrow
<1>2. ~ WasReserved(c) /\ ~ Reserved(c) /\ ~ Ended(c) /\ ~ Over(c) /\ ~ Expired(c)
  BY <1>0, <1>1, RecordedIsReserved
<1>3. ~ ExpiredOnChain(c) /\ ~ Final("ClaimRejected", c)
  <2>1. \A i \in 1 .. Len(log) : ~ Ends(i, c)
    BY <1>2 DEF Over
  <2> QED BY <2>1 DEF ExpiredOnChain, Final, Positions, Ends
<1>4. SigningInv(c)
  BY <1>0, <1>1, SlotTypes DEF SigningInv
<1>5. PreparingInv(c)
  BY <1>0, <1>1, <1>2 DEF PreparingInv, WaitsFor, Step, Idle, Projected
<1>6. EndingInv(c)
  BY <1>0, <1>1, <1>2, <1>3 DEF EndingInv
<1>7. SlotInv(c)
  BY <1>1, <1>2 DEF SlotInv, Step
<1> QED BY <1>4, <1>5, <1>6, <1>7 DEF SlotParts

\* Once every event is recorded, the claim that holds the bounty's one
\* projected reservation is the escrow's claim, unless an admission newer than
\* its intent was signed for it: with the verifier that recovery waits for, and
\* whatever the number of claims, crashes and the length of the windows.
THEOREM SlotsFollow ==
  ASSUME Adapter = "FIXTURE"
  PROVE  Spec => []SlotFollowsChain
<1>1. Init => SlotsInv
  BY InitOfSlots
<1>2. IInv /\ IInv' /\ SlotsInv /\ [Next]_vars => SlotsInv'
  <2> SUFFICES ASSUME IInv, IInv', SlotsInv, [Next]_vars PROVE SlotsInv'
    OBVIOUS
  <2>1. CASE Next
    BY <2>1, SlotsOfNext
  <2>2. CASE UNCHANGED vars
    <3>1. /\ UNCHANGED <<now, escrow, log, tx, requested, serving, seen, at, row, job>>
          /\ UNCHANGED <<admission, assessment, intent, recorded>>
      BY <2>2 DEF vars, envVars, chainVars, verifierVars, workerVars, dbVars
    <3>2. TypeOK /\ TypeOK' /\ recorded \subseteq 1 .. Len(log)
      BY DEF IInv, TypeOK
    <3>3. \A d \in Claim : Untouched(d)
      BY <3>1 DEF Untouched
    <3> QED BY <3>1, <3>2, <3>3, UntouchedKeeps DEF SlotsInv
  <2> QED BY <2>1, <2>2
<1>3. IInv /\ SlotsInv => SlotFollowsChain
  <2> SUFFICES ASSUME IInv, SlotsInv, recorded = 1 .. Len(log), escrow.state # "REFUNDED",
                      NEW c \in Claim, job[c] \in Projected, escrow.claim # c,
                      admission[c].validUntil = Deadline(c)
               PROVE  FALSE
    BY DEF SlotFollowsChain, Deadline
  <2>1. SlotParts(c)
    BY DEF SlotsInv
  <2>2. WasReserved(c)
    BY <2>1 DEF SlotParts, PreparingInv
  <2>3. Over(c)
    BY <2>1, <2>2 DEF SlotParts, EndingInv
  <2>4. Ended(c) /\ Same(c)
    BY <2>3 DEF Over, Ended, Same
  <2> QED BY <2>1, <2>4 DEF SlotParts, SlotInv
<1> QED BY <1>1, <1>2, <1>3, Inductive, PTL DEF Spec

-----------------------------------------------------------------------------
(* The chain is the slot of one bounty.                                    *)

\* What the escrow granted was assessed, and a qualifying assessment grants
\* something.
GrantInv ==
  /\ \A c \in Claim : assessment[c].outcome = "QUALIFIES" => assessment[c].reward > 0
  /\ escrow.state \in {"QUALIFIED", "PAID"} => assessment[escrow.claim].outcome = "QUALIFIES"

Spent == {c \in Claim : WasReserved(c)}
Granted ==
  IF escrow.state \in {"QUALIFIED", "PAID"} THEN assessment[escrow.claim].reward ELSE 0

\* Only an assessment that was not made yet is written.
LEMMA AssessedOnce ==
  ASSUME Next
  PROVE  UNCHANGED assessment \/ \E c \in Claim : Assess(c)
BY NextGroups DEF OthersCall, CollectByOther, ExpireReservation, RefundExpired,
   Arrives, Execute, PresentedByOther, VerifierStep, Serve, AdmitAgain, Admit, AssessAgain, Refuse,
   Start, Acquire, ReadChain, Throw, Crash, BeginStep, Send, SaveHash, SaveStep,
   RecordAdmissionExpired, RequestRecovery, SaveExternalPayment, CloseIntent, AwaitQuorum,
   PassQuorum, ReleaseIfPaid, Tick, SubmitClaim, SignApproval, Reconcile, dbVars

\* A step of the services leaves the escrow alone.
LEMMA ServicesLeaveEscrow ==
  ASSUME Next, ~ OthersCall, ~ \E c \in Claim, m \in Method : Arrives(c, m)
  PROVE  UNCHANGED escrow
BY NextGroups DEF VerifierStep, Serve, AdmitAgain, Admit, AssessAgain, Assess, Refuse,
   Start, Acquire, ReadChain, Throw, Crash, BeginStep, Send, SaveHash, SaveStep,
   RecordAdmissionExpired, RequestRecovery, SaveExternalPayment, CloseIntent, AwaitQuorum,
   PassQuorum, ReleaseIfPaid, Tick, SubmitClaim, SignApproval, Reconcile, chainVars

\* Every step keeps what was granted.
LEMMA GrantKept ==
  ASSUME IInv, GrantInv, Next
  PROVE  GrantInv'
<1>0. TypeOK /\ ClaimIsReserved /\ Kept
  BY KeptByNext DEF IInv, ChainInv
<1>1. \A c \in Claim : assessment'[c].outcome = "QUALIFIES" => assessment'[c].reward > 0
  <2>1. ASSUME NEW d \in Claim, Assess(d), NEW c \in Claim, assessment'[c].outcome = "QUALIFIES"
        PROVE  assessment'[c].reward > 0
    <3>1. PICK verdict \in Verdicts : assessment' = [assessment EXCEPT ![d] = verdict]
      BY <2>1 DEF Assess
    <3>2. verdict.outcome = "QUALIFIES" => verdict.reward > 0
      BY Numbers DEF Verdicts
    <3> QED BY <1>0, <2>1, <3>1, <3>2 DEF TypeOK, GrantInv
  <2> QED BY <2>1, AssessedOnce DEF GrantInv
<1>2. ASSUME escrow'.state \in {"QUALIFIED", "PAID"}
      PROVE  assessment'[escrow'.claim].outcome = "QUALIFIES"
  <2>1. ASSUME escrow.state \in {"QUALIFIED", "PAID"}, escrow'.claim = escrow.claim
        PROVE  assessment'[escrow'.claim].outcome = "QUALIFIES"
    BY <1>0, <2>1, EscrowNamesClaim DEF GrantInv, Kept
  <2>2. CASE OthersCall
    BY <1>0, <1>2, <2>1, <2>2, OthersShape DEF FundedEscrow
  <2>3. ASSUME NEW c \in Claim, NEW m \in Method, Arrives(c, m)
        PROVE  assessment'[escrow'.claim].outcome = "QUALIFIES"
    <3>1. UNCHANGED assessment
      BY <2>3 DEF Arrives, Execute, PresentedByOther, dbVars
    <3>2. CASE UNCHANGED escrow
      BY <1>2, <2>1, <3>2
    <3>3. CASE ~ UNCHANGED escrow
      BY <1>0, <1>2, <2>1, <2>3, <3>1, <3>3, ArrivalShape DEF FundedEscrow
    <3> QED BY <3>2, <3>3
  <2>4. CASE UNCHANGED escrow
    BY <1>2, <2>1, <2>4
  <2> QED BY <2>2, <2>3, <2>4, ServicesLeaveEscrow
<1> QED BY <1>1, <1>2 DEF GrantInv

\* A step that leaves the escrow alone leaves the slot alone.
LEMMA SlotStands ==
  ASSUME IInv, GrantInv, Kept, Grows, TypeOK', UNCHANGED escrow
  PROVE  Slot!Elsewhere
<1>1. now' \in Nat /\ now' >= now
  BY Numbers DEF Kept, TypeOK
<1>2. Spent \subseteq Spent'
  BY PositionsGrow DEF Spent, WasReserved, Final
<1>3. Granted' = Granted
  <2>1. CASE escrow.state \in {"QUALIFIED", "PAID"}
    BY <2>1, EscrowNamesClaim DEF IInv, ChainInv, GrantInv, Kept, Granted
  <2>2. CASE escrow.state \notin {"QUALIFIED", "PAID"}
    BY <2>2 DEF Granted
  <2> QED BY <2>1, <2>2
<1> QED BY <1>1, <1>2, <1>3 DEF Slot!Elsewhere, Slot!slot, Spent, WasReserved, Granted

\* Only a reservation spends a claim.
LEMMA SpentBy ==
  ASSUME TypeOK, NEW name, NEW c, NEW amount, ChainEvent(name, c, amount),
         tx' \in [Claim -> [Method -> {"NONE", "PENDING", "SUCCESS", "REVERTED"}]],
         UNCHANGED <<envVars, verifierVars, workerVars, dbVars>>
  PROVE  /\ name # "ClaimReserved" => Spent' = Spent
         /\ name = "ClaimReserved" /\ c \in Claim => Spent' = Spent \cup {c}
<1> DEFINE e == Event(name, c, amount)
<1>1. Grows /\ Len(log') = Len(log) + 1 /\ log'[Len(log')] = e
  BY ChainEventTypes
<1>2. e.name = name /\ e.claim = c
  BY DEF Event
<1> HIDE DEF e
<1>3. \A d \in Claim : WasReserved(d)' => WasReserved(d) \/ (name = "ClaimReserved" /\ c = d)
  BY <1>1, <1>2, NewEvent
<1>4. \A d \in Claim : WasReserved(d) => WasReserved(d)'
  BY <1>1, PositionsGrow DEF WasReserved, Final
<1>5. ASSUME NEW d \in Claim, name = "ClaimReserved", c = d PROVE WasReserved(d)'
  <2>1. Len(log') \in 1 .. Len(log')
    BY <1>1, LogTypes
  <2> QED BY <1>1, <1>2, <1>5, <2>1 DEF WasReserved, Final, Positions
<1>6. ASSUME name # "ClaimReserved" PROVE Spent' = Spent
  <2>1. \A d \in Claim : WasReserved(d)' <=> WasReserved(d)
    BY <1>3, <1>4, <1>6
  <2> QED BY <2>1 DEF Spent
<1>7. ASSUME name = "ClaimReserved", c \in Claim PROVE Spent' = Spent \cup {c}
  <2>1. \A d \in Claim : WasReserved(d)' <=> WasReserved(d) \/ c = d
    BY <1>3, <1>4, <1>5, <1>7
  <2> QED BY <1>7, <2>1 DEF Spent
<1> QED BY <1>6, <1>7

\* What a signed call does is a step of the slot, whoever presents it.
LEMMA SlotOfArrival ==
  ASSUME IInv, GrantInv, Kept, Grows, TypeOK', NEW c \in Claim, NEW m \in Method, Arrives(c, m)
  PROVE  Slot!SlotNext
<1>0. /\ TypeOK /\ ClaimIsReserved /\ now' = now /\ assessment' = assessment
      /\ UNCHANGED <<envVars, verifierVars, workerVars, dbVars>>
      /\ tx' \in [Claim -> [Method -> {"NONE", "PENDING", "SUCCESS", "REVERTED"}]]
      /\ escrow \in [state : ChainState, claim : Claim \cup {NoClaim}, expiresAt : Nat]
      /\ "reserveClaim" \in Method /\ NoClaim \notin Claim
  BY SettlementAssumption
     DEF IInv, ChainInv, Arrives, Execute, PresentedByOther, envVars, dbVars, TypeOK, Method
<1>1. CASE UNCHANGED escrow
  BY <1>1, SlotStands DEF Slot!SlotNext
<1>2. CASE ~ UNCHANGED escrow
  <2>1. Succeeds(c, m) /\ Effect(c, m)
    BY <1>2 DEF Arrives, Execute, PresentedByOther
  <2>2. /\ m # "reserveClaim" => Spent' = Spent
        /\ m = "reserveClaim" => c \notin Spent /\ Spent' = Spent \cup {c}
    BY <1>0, <1>2, ArrivalShape, SpentBy DEF Spent
  <2>3. CASE m = "reserveClaim"
    <3>1. /\ escrow' = [state |-> "RESERVED", claim |-> c,
                        expiresAt |-> Lesser(now + Duration, SettlementDeadline)]
          /\ escrow.state = "FUNDED" /\ now < SubmissionDeadline
      BY <2>1, <2>3 DEF Effect, Succeeds
    <3>2. c \notin Spent /\ Spent' = Spent \cup {c}
      BY <2>2, <2>3
    <3>3. Granted = 0 /\ Granted' = 0 /\ {escrow'.claim} \ {NoClaim} = {c}
      BY <1>0, <3>1 DEF Granted
    <3>4. Slot!Reserve(c)
      BY <1>0, <3>1, <3>2, <3>3 DEF Slot!Reserve, Spent, WasReserved, Granted, Lesser
    <3> QED BY <3>4 DEF Slot!SlotNext
  <2>4. CASE m = "submitAssessment"
    <3>1. escrow.state = "RESERVED" /\ escrow.claim = c /\ now <= escrow.expiresAt
      BY <2>1, <2>4 DEF Succeeds
    <3>2. CASE assessment[c].outcome = "QUALIFIES"
      <4>1. /\ escrow'.state = "QUALIFIED" /\ escrow'.claim = c
            /\ escrow'.expiresAt = escrow.expiresAt
        BY <1>0, <2>1, <2>4, <3>1, <3>2 DEF Effect
      <4>2. Granted' \in 1 .. Reward
        <5>1. assessment[c].reward \in 0 .. Reward /\ assessment[c].reward > 0
          BY <1>0, <3>2 DEF TypeOK, GrantInv
        <5>2. Granted' = assessment[c].reward
          BY <1>0, <4>1 DEF Granted
        <5> QED BY <5>1, <5>2, Numbers
      <4>3. Slot!Grant
        BY <1>0, <2>2, <2>4, <3>1, <4>1, <4>2 DEF Slot!Grant, Spent, WasReserved, Granted
      <4> QED BY <4>3 DEF Slot!SlotNext
    <3>3. CASE assessment[c].outcome # "QUALIFIES"
      <4>1. escrow' = FundedEscrow
        BY <2>1, <2>4, <3>3 DEF Effect
      <4>2. Slot!Deny
        BY <1>0, <2>2, <2>4, <3>1, <4>1
        DEF Slot!Deny, Slot!Vacate, Spent, WasReserved, FundedEscrow
      <4> QED BY <4>2 DEF Slot!SlotNext
    <3> QED BY <3>2, <3>3
  <2>5. CASE m = "collectPayment"
    <3>1. escrow.state = "QUALIFIED" /\ escrow' = [escrow EXCEPT !.state = "PAID"]
      BY <2>1, <2>5 DEF Effect, Succeeds
    <3>2. Slot!Collect
      BY <1>0, <2>2, <2>5, <3>1 DEF Slot!Collect, Spent, WasReserved
    <3> QED BY <3>2 DEF Slot!SlotNext
  <2> QED BY <2>3, <2>4, <2>5 DEF Method
<1> QED BY <1>1, <1>2

\* So are the calls of others.
LEMMA SlotOfOthers ==
  ASSUME IInv, OthersCall
  PROVE  Slot!SlotNext
<1>0. /\ now' = now /\ assessment' = assessment /\ tx' = tx
      /\ escrow \in [state : ChainState, claim : Claim \cup {NoClaim}, expiresAt : Nat]
      /\ UNCHANGED <<envVars, verifierVars, workerVars, dbVars>> /\ TypeOK /\ ClaimIsReserved
      /\ tx' \in [Claim -> [Method -> {"NONE", "PENDING", "SUCCESS", "REVERTED"}]]
  BY DEF OthersCall, CollectByOther, ExpireReservation, RefundExpired, envVars, dbVars, IInv, TypeOK,
         ChainInv
<1>4. Spent' = Spent
  BY <1>0, OthersShape, SpentBy
<1>1. CASE CollectByOther
  <2>1. Slot!Collect
    BY <1>0, <1>1, <1>4 DEF CollectByOther, Slot!Collect, Spent, WasReserved
  <2> QED BY <2>1 DEF Slot!SlotNext
<1>2. CASE ExpireReservation
  <2>1. Slot!Expire
    BY <1>0, <1>2, <1>4
    DEF ExpireReservation, ReservationIsOver, FundedEscrow, Slot!Expire, Slot!Vacate, Spent,
        WasReserved
  <2> QED BY <2>1 DEF Slot!SlotNext
<1>3. CASE RefundExpired
  <2>1. escrow' = [state |-> "REFUNDED", claim |-> NoClaim, expiresAt |-> 0]
    BY <1>3 DEF RefundExpired, FundedEscrow
  <2>2. Slot!Refund
    BY <1>0, <1>3, <1>4, <2>1
    DEF RefundExpired, ReservationIsOver, Slot!Refund, Slot!Vacate, Spent, WasReserved
  <2> QED BY <2>2 DEF Slot!SlotNext
<1> QED BY <1>1, <1>2, <1>3 DEF OthersCall

\* To the claims of one bounty the chain is what BountySlot promises, which is
\* what the contract implements for each of its bounties (BountyEscrowProofs).
THEOREM SlotRefinement == Spec => ImplementsBountySlot
<1>1. Init => GrantInv /\ Slot!SlotInit
  <2> SUFFICES ASSUME Init PROVE GrantInv /\ Slot!SlotInit
    OBVIOUS
  <2>1. /\ escrow.state = "FUNDED" /\ escrow.claim = NoClaim /\ escrow.expiresAt = 0
        /\ \A c \in Claim : tx[c]["reserveClaim"] = "NONE" /\ assessment[c].outcome = "NONE"
    BY DEF Init, FundedEscrow, Method
  <2>2. \A c \in Claim : ~ WasReserved(c)
    BY <2>1, InitIsSafe DEF IInv, ChainInv, ClaimIsReserved
  <2> QED BY <2>1, <2>2 DEF GrantInv, Slot!SlotInit, WasReserved
<1>2. IInv /\ IInv' /\ GrantInv /\ [Next]_vars =>
        GrantInv' /\ [Slot!SlotNext]_(Slot!slotVars)
  <2> SUFFICES ASSUME IInv, IInv', GrantInv, [Next]_vars
               PROVE  GrantInv' /\ [Slot!SlotNext]_(Slot!slotVars)
    OBVIOUS
  <2>1. CASE Next
    <3>1. TypeOK' /\ Kept /\ Grows
      BY <2>1, KeptByNext, TypesOfNext DEF IInv, ChainInv
    <3>2. ASSUME UNCHANGED escrow PROVE Slot!SlotNext
      BY <3>1, <3>2, SlotStands DEF Slot!SlotNext
    <3>3. ASSUME ~ UNCHANGED escrow PROVE Slot!SlotNext
      BY <2>1, <3>1, <3>3, SlotOfOthers, SlotOfArrival, ServicesLeaveEscrow
    <3> QED BY <2>1, <3>2, <3>3, GrantKept
  <2>2. CASE UNCHANGED vars
    BY <2>2
    DEF vars, envVars, chainVars, dbVars, GrantInv, Slot!slotVars, Slot!slot, Final, Positions
  <2> QED BY <2>1, <2>2
<1> QED BY <1>1, <1>2, Inductive, PTL DEF Spec, ImplementsBountySlot, Slot!SlotSpec
=============================================================================
