------------------------- MODULE RecoveryScanProofs -------------------------
(***************************************************************************)
(* What recovery keeps for any number of claims, blocks, faults and        *)
(* retries, any size of page and any lag of the nodes.                     *)
(***************************************************************************)
EXTENDS RecoveryScan, FiniteSetTheorems, WellFoundedInduction, TLAPS

-----------------------------------------------------------------------------
(* The inductive invariant.                                                *)

State == {"FUNDED", "RESERVED"} \cup Terminal
Log == [name : {"ReservationExpired", "BountyRefunded"}, claim : Claim \cup {None}]
BlockRecord == [time : Nat, state : State, claim : Claim \cup {None}, expires : Nat,
                by : Request \cup {None}, log : Seq(Log)]
BlockType == {B \in BlockRecord : B.state = "RESERVED" => B.claim \in Claim}
JobType == [at : {"IDLE", "SCAN", "CHECK", "SEND", "RECEIPT", "END"}, head : Nat, from : Nat,
            pages : Nat, terminal : BOOLEAN, due : Call \cup {None}, result : Status]
Event == Nat \X Nat

ChainTypes == chain \in Seq(BlockType) /\ Len(chain) > 0 /\ lag \in 0 .. Lag
RequestTypes == /\ request \in [Request -> RequestState] /\ active \in Request \cup {None}
                /\ age \in 0 .. 2
                /\ accepted \in [Request -> {0, 1}] /\ mempool \in Seq(Request)
JobTypes == /\ status \in Status /\ job \in JobType
            /\ faults \in 0 .. MaxFaults /\ retries \in 0 .. MaxRetries
RecordTypes == /\ checkpoint \in 0 .. Len(chain)
               /\ row \in [state : {"FUNDED", "REFUNDED"}, last : Event]
               /\ \A e \in events : \E b \in 1 .. Len(chain) : e \in RecoveryEvents(b)

Types == ChainTypes /\ RequestTypes /\ JobTypes /\ RecordTypes

\* A bounty that was paid or refunded stays so, and nothing of interest happens
\* to it any more; a refund is the last event of its block, and leaves the
\* bounty refunded.
TerminalIsLast ==
  /\ \A i, j \in 1 .. Len(chain) : i < j /\ chain[i].state \in Terminal =>
       chain[j].state = chain[i].state /\ chain[j].log = <<>>
  /\ \A b \in 1 .. Len(chain) : \A i \in 1 .. Len(chain[b].log) : chain[b].log[i] = Refunded =>
       i = Len(chain[b].log) /\ chain[b].state = "REFUNDED"
  /\ \A b \in 1 .. Len(chain) : chain[b].state = "REFUNDED" =>
       \E d \in 1 .. Len(chain) : \E i \in 1 .. Len(chain[d].log) : chain[d].log[i] = Refunded

\* The row follows an event that is recorded, unless it follows the funding;
\* once the refund is recorded it follows that.
RowFollows ==
  /\ row.last = <<1, 0>> \/ (row.last \in events /\ row = RowOf(row.last))
  /\ \A e \in events : LogOf(e) = Refunded => row.last = e

\* All is recorded and nothing more can happen.
Done == Now.state \in Terminal /\ Recorded(Len(chain))

\* The scan goes on behind the checkpoint, up to a block the job saw; it will
\* say COMPLETE only if the bounty was paid or refunded in that block.
ScanIsComplete ==
  /\ CheckpointCovers
  /\ job.at = "SCAN" =>
       /\ job.from = checkpoint + 1
       /\ job.head \in 1 .. Len(chain) /\ job.from <= job.head + 1
       /\ job.terminal => chain[job.head].state \in Terminal
  /\ job.at = "END" /\ job.result = "COMPLETE" => Done
  /\ status = "COMPLETE" => Done

\* One request is under way, and where the pass is says how far it got.
OneActive ==
  /\ \A r \in Request : request[r] \in {"PREPARED", "SUBMITTED", "BROADCAST"} <=> r = active
  /\ job.at \in {"CHECK", "SEND", "RECEIPT"} => active # None
  /\ job.at = "SEND" => request[active] = "SUBMITTED" /\ age <= 1
  /\ job.at = "RECEIPT" => request[active] = "BROADCAST"

\* The attempts of a call are numbered without a gap, so that the next is new.
AttemptsInOrder ==
  \A call \in Call : \A n \in 1 .. MaxAttempts : \A m \in 1 .. n :
    request[[call |-> call, attempt |-> n]] # "NONE" =>
      request[[call |-> call, attempt |-> m]] # "NONE"

\* Only what was submitted has a transaction.
SentIsSubmitted ==
  \A r \in Request : request[r] \in {"NONE", "PREPARED", "CANCELLED"} => accepted[r] = 0

RequestInv == OneActive /\ AttemptsInOrder /\ SentIsSubmitted /\ RequestsTellTheTruth

IInv == Types /\ TerminalIsLast /\ RowFollows /\ ScanIsComplete /\ RequestInv

-----------------------------------------------------------------------------
(* The chain and its events.                                               *)

\* What the types say of the chain, block by block.
LEMMA ChainFacts ==
  ASSUME ChainTypes
  PROVE  /\ Len(chain) \in Nat /\ Len(chain) > 0 /\ DOMAIN chain = 1 .. Len(chain)
         /\ Now = chain[Len(chain)] /\ Now \in BlockType
         /\ \A b \in 1 .. Len(chain) : chain[b] \in BlockType
<1>1. chain \in Seq(BlockType) /\ Len(chain) > 0
  BY DEF ChainTypes
<1>2. Len(chain) \in Nat /\ DOMAIN chain = 1 .. Len(chain)
  BY <1>1
<1>3. \A b \in 1 .. Len(chain) : chain[b] \in BlockType
  BY <1>1
<1> QED BY <1>1, <1>2, <1>3 DEF Now

\* The fields of a block, and the events it holds.
LEMMA BlockFacts ==
  ASSUME NEW B \in BlockType
  PROVE  /\ B.time \in Nat /\ B.expires \in Nat /\ B.state \in State
         /\ B.claim \in Claim \cup {None} /\ B.by \in Request \cup {None}
         /\ B.state = "RESERVED" => B.claim \in Claim
         /\ B.log \in Seq(Log) /\ Len(B.log) \in Nat /\ DOMAIN B.log = 1 .. Len(B.log)
         /\ \A i \in 1 .. Len(B.log) : B.log[i] \in Log
<1>1. B.log \in Seq(Log)
  BY DEF BlockType, BlockRecord
<1>2. Len(B.log) \in Nat /\ DOMAIN B.log = 1 .. Len(B.log)
        /\ \A i \in 1 .. Len(B.log) : B.log[i] \in Log
  BY <1>1
<1> QED BY <1>1, <1>2 DEF BlockType, BlockRecord

\* An event is a block's number and a position in its log.
LEMMA EventFacts ==
  ASSUME ChainTypes, NEW b \in 1 .. Len(chain), NEW e \in RecoveryEvents(b)
  PROVE  /\ e \in Event /\ e = <<e[1], e[2]>> /\ e[1] = b
         /\ e[2] \in 1 .. Len(chain[b].log)
         /\ LogOf(e) = chain[b].log[e[2]] /\ LogOf(e) \in Log
<1>1. chain[b] \in BlockType /\ Len(chain) \in Nat
  BY ChainFacts
<1>2. DOMAIN chain[b].log = 1 .. Len(chain[b].log) /\ Len(chain[b].log) \in Nat
      /\ \A i \in 1 .. Len(chain[b].log) : chain[b].log[i] \in Log
  BY <1>1, BlockFacts
<1>3. PICK i \in DOMAIN chain[b].log : e = <<b, i>>
  BY DEF RecoveryEvents
<1>4. b \in Nat /\ i \in Nat
  BY <1>1, <1>2, <1>3
<1> QED BY <1>2, <1>3, <1>4 DEF Event, LogOf

\* The events of a log are its positions.
LEMMA IsEvent ==
  ASSUME ChainTypes, NEW b \in 1 .. Len(chain), NEW i \in 1 .. Len(chain[b].log)
  PROVE  <<b, i>> \in RecoveryEvents(b)
<1>1. DOMAIN chain[b].log = 1 .. Len(chain[b].log)
  BY ChainFacts, BlockFacts
<1> QED BY <1>1 DEF RecoveryEvents

OnChain(e) == \E b \in 1 .. Len(chain) : e \in RecoveryEvents(b)

\* Nothing follows a refund.
LEMMA RefundIsLast ==
  ASSUME ChainTypes, TerminalIsLast, NEW e, NEW d, OnChain(e), OnChain(d), LogOf(e) = Refunded
  PROVE  d = e \/ Older(d, e)
<1>1. PICK b \in 1 .. Len(chain) : e \in RecoveryEvents(b)
  BY DEF OnChain
<1>2. PICK a \in 1 .. Len(chain) : d \in RecoveryEvents(a)
  BY DEF OnChain
<1>3. /\ e = <<e[1], e[2]>> /\ e[1] = b /\ e[2] \in 1 .. Len(chain[b].log)
      /\ chain[b].log[e[2]] = Refunded
  BY <1>1, EventFacts
<1>4. d = <<d[1], d[2]>> /\ d[1] = a /\ d[2] \in 1 .. Len(chain[a].log)
  BY <1>2, EventFacts
<1>5. e[2] = Len(chain[b].log) /\ chain[b].state = "REFUNDED"
  BY <1>3 DEF TerminalIsLast
<1>6. Len(chain[a].log) \in Nat /\ Len(chain[b].log) \in Nat /\ Len(chain) \in Nat
  BY ChainFacts, BlockFacts
<1>7. ~ (b < a)
  <2> SUFFICES ASSUME b < a PROVE FALSE
    OBVIOUS
  <2>1. chain[a].log = <<>>
    BY <1>5 DEF TerminalIsLast, Terminal
  <2> QED BY <1>4, <2>1
<1> QED BY <1>3, <1>4, <1>5, <1>6, <1>7 DEF Older

\* A set of numbers has a least one.
LEMMA LeastNumber ==
  ASSUME NEW S \in SUBSET Nat, S # {}
  PROVE  \E m \in S : \A n \in S : m <= n
<1>1. PICK m \in S : \A n \in S : ~ (<<n, m>> \in OpToRel(<, Nat))
  BY NatLessThanWellFounded, WFMin
<1>2. \A n \in S : ~ (n < m)
  BY <1>1 DEF OpToRel
<1> QED BY <1>2

\* Of some events of the chain one is the latest.
LEMMA LatestExists ==
  ASSUME ChainTypes, NEW S, S # {}, \A e \in S : OnChain(e)
  PROVE  /\ Latest(S) \in S
         /\ \A d \in S \ {Latest(S)} : Older(d, Latest(S))
<1> DEFINE N == Len(chain)
           Behind == {N - e[1] : e \in S}
<1>0. \A e \in S : e[1] \in 1 .. Len(chain) /\ e = <<e[1], e[2]>>
                     /\ e[2] \in 1 .. Len(chain[e[1]].log)
  BY EventFacts DEF OnChain
<1>1. N \in Nat
  BY ChainFacts
<1>2. Behind \in SUBSET Nat /\ Behind # {}
  BY <1>0, <1>1
<1>3. PICK m \in Behind : \A n \in Behind : m <= n
  BY <1>2, LeastNumber
<1>4. PICK f \in S : m = N - f[1]
  BY <1>3
<1>5. \A e \in S : e[1] <= f[1]
  <2> TAKE e \in S
  <2>1. N - e[1] \in Behind
    OBVIOUS
  <2> HIDE DEF Behind
  <2>2. N - f[1] <= N - e[1]
    BY <1>3, <1>4, <2>1
  <2> QED BY <1>0, <1>1, <2>2
<1> DEFINE last == Len(chain[f[1]].log)
           Rest1 == {last - e[2] : e \in {d \in S : d[1] = f[1]}}
<1>6. last \in Nat
  BY <1>0, ChainFacts, BlockFacts
<1>7. Rest1 \in SUBSET Nat /\ Rest1 # {}
  BY <1>0, <1>4, <1>6
<1>8. PICK k \in Rest1 : \A n \in Rest1 : k <= n
  BY <1>7, LeastNumber
<1>9. PICK g \in S : g[1] = f[1] /\ k = last - g[2]
  BY <1>8
<1>10. \A d \in S : d[1] = f[1] => d[2] <= g[2]
  <2> SUFFICES ASSUME NEW d \in S, d[1] = f[1] PROVE d[2] <= g[2]
    OBVIOUS
  <2>1. last - d[2] \in Rest1
    OBVIOUS
  <2> HIDE DEF Rest1
  <2>2. last - g[2] <= last - d[2]
    BY <1>8, <1>9, <2>1
  <2>3. d[2] \in Nat /\ g[2] \in Nat
    BY <1>0, <1>6, <1>9
  <2> HIDE DEF last
  <2> QED BY <1>6, <2>2, <2>3
<1>11. \A d \in S \ {g} : Older(d, g)
  BY <1>0, <1>1, <1>5, <1>6, <1>9, <1>10 DEF Older
<1> QED BY <1>11 DEF Latest

\* A recovery event is an expiry or a refund, and never in block 1 at place 0.
LEMMA OnChainFacts ==
  ASSUME ChainTypes, NEW e, OnChain(e)
  PROVE  /\ e \in Event /\ e = <<e[1], e[2]>> /\ e[1] \in Nat /\ e[2] \in Nat
         /\ e[1] >= 1 /\ e[2] >= 1 /\ LogOf(e) \in Log
         /\ e # <<1, 0>> /\ Older(<<1, 0>>, e)
<1>1. PICK b \in 1 .. Len(chain) : e \in RecoveryEvents(b)
  BY DEF OnChain
<1>2. e \in Event /\ e = <<e[1], e[2]>> /\ e[1] = b /\ e[2] \in 1 .. Len(chain[b].log)
      /\ LogOf(e) \in Log
  BY <1>1, EventFacts
<1>3. Len(chain) \in Nat /\ Len(chain[b].log) \in Nat
  BY ChainFacts, BlockFacts
<1>4. e[1] \in Nat /\ e[2] \in Nat /\ e[1] >= 1 /\ e[2] >= 1
  BY <1>2, <1>3
<1>5. Older(<<1, 0>>, e)
  BY <1>4 DEF Older
<1> QED BY <1>2, <1>4, <1>5

\* Recording the transactions of some blocks keeps what the row says true.
LEMMA ReconcileKeeps ==
  ASSUME ChainTypes, RecordTypes, TerminalIsLast, RowFollows, UNCHANGED chain,
         NEW blocks \in SUBSET (1 .. Len(chain)), NEW view, ReconcileAll(blocks, view)
  PROVE  /\ RowFollows'
         /\ row' \in [state : {"FUNDED", "REFUNDED"}, last : Event]
         /\ events \subseteq events' /\ \A e \in events' : OnChain(e)
         /\ \A b \in blocks : RecoveryEvents(b) \subseteq events'
<1> DEFINE found == UNION {RecoveryEvents(b) : b \in blocks}
           newer == {e \in found : Replaces(e, view[e[1]])}
<1>1. events' = events \cup found /\ row' = IF newer = {} THEN row ELSE RowOf(Latest(newer))
  BY DEF ReconcileAll
<1>2. \A e \in found : OnChain(e)
  BY DEF OnChain
<1>3. \A e \in events' : OnChain(e)
  BY <1>1, <1>2 DEF RecordTypes, OnChain
<1>4. newer # {} => Latest(newer) \in newer /\ \A d \in newer \ {Latest(newer)} : Older(d, Latest(newer))
  BY <1>2, LatestExists
<1>5. \A e \in newer : Older(row.last, e) /\ e \in found
  BY DEF Replaces
<1>6. \A e \in found : LogOf(e) = Refunded /\ Older(row.last, e) => e \in newer
  BY DEF Replaces, Refunded
<1>7. \A b \in blocks : RecoveryEvents(b) \subseteq found
  OBVIOUS
<1> HIDE DEF found, newer
<1>8. row.last = <<1, 0>> \/ OnChain(row.last)
  BY DEF RowFollows, RecordTypes, OnChain
<1>9. row.last = <<1, 0>> => \A e \in found : Older(row.last, e)
  BY <1>2, OnChainFacts
<1>10. \A e \in events' : LogOf(e) = Refunded => row'.last = e
  <2> SUFFICES ASSUME NEW e \in events', LogOf(e) = Refunded PROVE row'.last = e
    OBVIOUS
  <2>1. OnChain(e) /\ e[1] \in Nat /\ e[2] \in Nat
    BY <1>3, OnChainFacts
  <2>2. \A d \in found : ~ Older(e, d)
    <3> TAKE d \in found
    <3>1. d = e \/ Older(d, e)
      BY <1>2, <2>1, RefundIsLast
    <3>2. d[1] \in Nat /\ d[2] \in Nat
      BY <1>2, OnChainFacts
    <3> QED BY <2>1, <3>1, <3>2 DEF Older
  <2>3. CASE e \in events
    <3>1. row.last = e
      BY <2>3 DEF RowFollows
    <3>2. newer = {}
      BY <1>5, <2>2, <3>1
    <3> QED BY <1>1, <3>1, <3>2
  <2>4. CASE e \notin events
    <3>1. e \in found
      BY <1>1, <2>4
    <3>2. Older(row.last, e)
      <4>1. CASE row.last = <<1, 0>>
        BY <1>9, <3>1, <4>1
      <4>2. CASE row.last # <<1, 0>>
        <5>1. row.last \in events /\ OnChain(row.last)
          BY <1>8, <4>2 DEF RowFollows
        <5> QED BY <2>1, <2>4, <5>1, RefundIsLast
      <4> QED BY <4>1, <4>2
    <3>3. e \in newer
      BY <1>6, <3>1, <3>2
    <3>4. Latest(newer) = e
      BY <1>4, <1>5, <2>2, <3>3
    <3> QED BY <1>1, <3>3, <3>4 DEF RowOf
  <2> QED BY <2>3, <2>4
<1>11. row'.last = <<1, 0>> \/ (row'.last \in events' /\ row' = RowOf(row'.last))
  <2>1. CASE newer = {}
    BY <1>1, <2>1 DEF RowFollows
  <2>2. CASE newer # {}
    <3>1. row' = RowOf(Latest(newer)) /\ Latest(newer) \in events'
      BY <1>1, <1>4, <1>5, <2>2
    <3>2. RowOf(Latest(newer)).last = Latest(newer)
      BY DEF RowOf
    <3> QED BY <3>1, <3>2
  <2> QED BY <2>1, <2>2
<1>12. row' \in [state : {"FUNDED", "REFUNDED"}, last : Event]
  <2>1. CASE newer = {}
    BY <1>1, <2>1 DEF RecordTypes
  <2>2. CASE newer # {}
    <3>1. Latest(newer) \in Event
      BY <1>2, <1>4, <1>5, <2>2, OnChainFacts
    <3> QED BY <1>1, <2>2, <3>1 DEF RowOf
  <2> QED BY <2>1, <2>2
<1>13. \A e : LogOf(e)' = LogOf(e)
  BY DEF LogOf
<1>14. \A e : RowOf(e)' = RowOf(e)
  BY <1>13 DEF RowOf
<1>15. RowFollows'
  <2>1. row'.last \in events' /\ row' = RowOf(row'.last) => (row.last \in events /\ row = RowOf(row.last))'
    BY <1>13 DEF RowOf
  <2>2. Refunded' = Refunded
    BY DEF Refunded
  <2> QED BY <1>10, <1>11, <1>13, <2>1, <2>2 DEF RowFollows
<1> QED BY <1>1, <1>3, <1>7, <1>12, <1>15

-----------------------------------------------------------------------------
(* The chain only grows.                                                   *)

\* What was final stays, and what was recorded stays recorded.
Grown ==
  /\ Len(chain') \in Nat /\ Len(chain) <= Len(chain')
  /\ \A b \in 1 .. Len(chain) : chain'[b] = chain[b]
  /\ events \subseteq events'

\* The events of a block, and those of the chain, are the same later.
LEMMA GrownEvents ==
  ASSUME ChainTypes, ChainTypes', Grown
  PROVE  /\ \A b \in 1 .. Len(chain) : b \in 1 .. Len(chain') /\ RecoveryEvents(b)' = RecoveryEvents(b)
         /\ \A e : OnChain(e) => OnChain(e)' /\ LogOf(e)' = LogOf(e)
<1>1. \A b \in 1 .. Len(chain) : b \in 1 .. Len(chain') /\ RecoveryEvents(b)' = RecoveryEvents(b)
  BY ChainFacts DEF Grown, RecoveryEvents
<1>2. ASSUME NEW e, OnChain(e) PROVE OnChain(e)' /\ LogOf(e)' = LogOf(e)
  <2>1. PICK b \in 1 .. Len(chain) : e \in RecoveryEvents(b)
    BY <1>2 DEF OnChain
  <2>2. e[1] = b
    BY <2>1, EventFacts
  <2>3. LogOf(e)' = LogOf(e)
    BY <2>1, <2>2 DEF LogOf, Grown
  <2> QED BY <1>1, <2>1, <2>3 DEF OnChain
<1> QED BY <1>1, <1>2

\* What happened to a request stays, and so does the completion of a call.
LEMMA GrownHappened ==
  ASSUME ChainTypes, ChainTypes', RecordTypes, Grown
  PROVE  /\ \A r : \A b \in Happened(r) : b \in Happened(r)' /\ chain'[b] = chain[b]
         /\ \A call : Completed(call) => Completed(call)'
         /\ \A b \in 1 .. Len(chain) :
              RecoveryEvents(b) \subseteq events => RecoveryEvents(b)' \subseteq events'
<1>1. DOMAIN chain = 1 .. Len(chain) /\ (DOMAIN chain = 1 .. Len(chain))'
  <2>1. (DOMAIN chain = 1 .. Len(chain))'
    BY DEF ChainTypes
  <2> QED BY <2>1, ChainFacts
<1>2. \A r : \A b \in Happened(r) : b \in Happened(r)' /\ chain'[b] = chain[b]
  BY <1>1 DEF Happened, Grown, ChainTypes
<1>3. ASSUME NEW call, Completed(call) PROVE Completed(call)'
  <2>1. PICK e \in events : Proves(LogOf(e), call)
    BY <1>3 DEF Completed
  <2>2. LogOf(e)' = LogOf(e)
    BY GrownEvents DEF RecordTypes, OnChain
  <2>3. e \in events'
    BY DEF Grown
  <2>4. \A log : Proves(log, call)' = Proves(log, call)
    BY DEF Proves, Refunded, Expired
  <2> QED BY <2>1, <2>2, <2>3, <2>4 DEF Completed, Proves, Refunded, Expired
<1>4. ASSUME NEW b \in 1 .. Len(chain), RecoveryEvents(b) \subseteq events
      PROVE  RecoveryEvents(b)' \subseteq events'
  BY <1>4, GrownEvents DEF Grown
<1> QED BY <1>2, <1>3, <1>4

\* What the state of one request says.
TruthOf(r) ==
  /\ accepted[r] <= 1
  /\ request[r] = "CONFIRMED" =>
       \E b \in Happened(r) : RecoveryEvents(b) \subseteq events /\ Completed(r.call)
  /\ request[r] = "FAILED" => \E b \in Happened(r) : chain[b].log = <<>>
  /\ request[r] = "RECONCILED" => Completed(r.call)
  /\ request[r] = "CANCELLED" => accepted[r] = 0

\* What a request ended with stays true while it ends no differently.
LEMMA TruthGrows ==
  ASSUME ChainTypes, ChainTypes', RecordTypes, Grown, RequestTypes, RequestsTellTheTruth,
         NEW r \in Request, request'[r] = request[r], accepted'[r] = accepted[r]
  PROVE  TruthOf(r)'
<1>1. \A b \in Happened(r) : b \in 1 .. Len(chain)
  BY ChainFacts DEF Happened
<1>2. accepted'[r] <= 1 /\ (request'[r] = "CANCELLED" => accepted'[r] = 0)
  BY DEF RequestsTellTheTruth
<1>3. ASSUME request'[r] = "CONFIRMED"
      PROVE  \E b \in Happened(r)' : RecoveryEvents(b)' \subseteq events' /\ Completed(r.call)'
  <2>1. PICK b \in Happened(r) : RecoveryEvents(b) \subseteq events /\ Completed(r.call)
    BY <1>3 DEF RequestsTellTheTruth
  <2>2. b \in Happened(r)' /\ RecoveryEvents(b)' \subseteq events' /\ Completed(r.call)'
    BY <1>1, <2>1, GrownHappened
  <2> QED BY <2>2
<1>4. ASSUME request'[r] = "FAILED" PROVE \E b \in Happened(r)' : chain'[b].log = <<>>
  <2>1. PICK b \in Happened(r) : chain[b].log = <<>>
    BY <1>4 DEF RequestsTellTheTruth
  <2>2. b \in Happened(r)' /\ chain'[b] = chain[b]
    BY <2>1, GrownHappened
  <2> QED BY <2>1, <2>2
<1>5. ASSUME request'[r] = "RECONCILED" PROVE Completed(r.call)'
  <2>1. Completed(r.call)
    BY <1>5 DEF RequestsTellTheTruth
  <2> QED BY <2>1, GrownHappened
<1> QED BY <1>2, <1>3, <1>4, <1>5 DEF TruthOf

\* An unchanged chain with more events recorded has grown.
LEMMA SameChainGrows ==
  ASSUME ChainTypes, UNCHANGED chain, events \subseteq events'
  PROVE  Grown
BY ChainFacts DEF Grown

\* A block the escrow can add: a bounty that is over stays as it is, and a
\* refund is the last thing that happens.
NewBlock(B) ==
  /\ B \in BlockType
  /\ Now.state \in Terminal => B.state = Now.state /\ B.log = <<>>
  /\ \A i \in 1 .. Len(B.log) : B.log[i] = Refunded => i = Len(B.log) /\ B.state = "REFUNDED"
  /\ B.state = "REFUNDED" =>
       Now.state = "REFUNDED" \/ \E i \in 1 .. Len(B.log) : B.log[i] = Refunded

ChainStep == \E B : NewBlock(B) /\ chain' = Append(chain, B) /\ lag' \in 0 .. Lag

\* A call of the escrow, or a block without one, is such a step.
LEMMA AppendIsChainStep ==
  ASSUME ChainTypes, NEW time \in Nat, NEW state \in State, NEW claim \in Claim \cup {None},
         NEW expires \in Nat, NEW by \in Request \cup {None}, NEW log \in Seq(Log),
         NewBlock(Block(time, state, claim, expires, by, log)),
         Append1(time, state, claim, expires, by, log)
  PROVE  ChainStep
<1>1. lag' \in 0 .. Lag
  BY RecoveryAssumption DEF Append1, ChainTypes
<1> QED BY <1>1 DEF Append1, ChainStep

\* A block without a call leaves the bounty as it is.
LEMMA SameIsChainStep ==
  ASSUME ChainTypes, NEW time \in Nat, NEW by \in Request \cup {None}, Same(time, by)
  PROVE  ChainStep
<1>1. Now \in BlockType
  BY ChainFacts
<1>2. /\ Now.state \in State /\ Now.claim \in Claim \cup {None} /\ Now.expires \in Nat
      /\ Now.state = "RESERVED" => Now.claim \in Claim
  BY <1>1, BlockFacts
<1>3. <<>> \in Seq(Log) /\ Len(<<>>) = 0
  OBVIOUS
<1>4. NewBlock(Block(time, Now.state, Now.claim, Now.expires, by, <<>>))
  BY <1>2, <1>3 DEF NewBlock, Block, BlockType, BlockRecord
<1>5. Append1(time, Now.state, Now.claim, Now.expires, by, <<>>)
  BY DEF Same
<1> QED BY <1>2, <1>3, <1>4, <1>5, AppendIsChainStep

\* So does every executed call, whoever sent it.
LEMMA ExecuteIsChainStep ==
  ASSUME ChainTypes, NEW method, NEW by \in Request \cup {None}, Execute(method, by)
  PROVE  ChainStep
<1> DEFINE freed == IF Now.state = "RESERVED" THEN <<Expired(Now.claim)>> ELSE <<>>
<1>1. Now \in BlockType
  BY ChainFacts
<1>2. Now.state \in State /\ Now.claim \in Claim \cup {None} /\ Now.time \in Nat
  BY <1>1, BlockFacts
<1>3. Expired(Now.claim) \in Log /\ Refunded \in Log /\ Expired(Now.claim) # Refunded
  BY <1>2 DEF Expired, Refunded, Log
<1>4. freed \in Seq(Log) /\ Len(freed) \in {0, 1} /\ \A i \in 1 .. Len(freed) : freed[i] # Refunded
  <2>1. CASE Now.state = "RESERVED"
    <3>1. freed = <<Expired(Now.claim)>>
      BY <2>1
    <3> HIDE DEF freed
    <3>2. Len(<<Expired(Now.claim)>>) = 1 /\ <<Expired(Now.claim)>>[1] = Expired(Now.claim)
          /\ <<Expired(Now.claim)>> \in Seq(Log)
      BY <1>3
    <3> QED BY <1>3, <3>1, <3>2
  <2>2. CASE Now.state # "RESERVED"
    BY <2>2
  <2> QED BY <2>1, <2>2
<1>5. CASE ~ Executes(method)
  <2>1. Same(Now.time, by)
    BY <1>5 DEF Execute
  <2> QED BY <1>2, <2>1, SameIsChainStep
<1>6. CASE Executes(method) /\ method = "refundExpired"
  <2> DEFINE log == freed \o <<Refunded>>
  <2>1. Append1(Now.time, "REFUNDED", None, 0, by, log)
    BY <1>6 DEF Execute
  <2>2. Now.state \in {"FUNDED", "RESERVED"}
    BY <1>6 DEF Executes
  <2> HIDE DEF freed
  <2>3. log \in Seq(Log) /\ Len(log) = Len(freed) + 1 /\ log[Len(freed) + 1] = Refunded
        /\ \A i \in 1 .. Len(freed) : log[i] = freed[i]
    BY <1>3, <1>4
  <2> HIDE DEF log
  <2>4. Block(Now.time, "REFUNDED", None, 0, by, log) \in BlockType
    BY <1>2, <2>3 DEF Block, BlockType, BlockRecord, State, Terminal
  <2>5. \A i \in 1 .. Len(log) : log[i] = Refunded => i = Len(log)
    BY <1>4, <2>3
  <2>6. \E i \in 1 .. Len(log) : log[i] = Refunded
    BY <1>4, <2>3
  <2>7. NewBlock(Block(Now.time, "REFUNDED", None, 0, by, log))
    <3>1. Now.state \notin Terminal
      BY <2>2 DEF Terminal
    <3> QED BY <2>4, <2>5, <2>6, <3>1 DEF NewBlock, Block
  <2>8. "REFUNDED" \in State /\ 0 \in Nat
    BY DEF State, Terminal
  <2> QED BY <1>2, <2>1, <2>3, <2>7, <2>8, AppendIsChainStep
<1>7. CASE Executes(method) /\ method # "refundExpired"
  <2>1. Append1(Now.time, "FUNDED", None, 0, by, freed)
    BY <1>7 DEF Execute
  <2>2. Now.state = "RESERVED"
    BY <1>7 DEF Executes
  <2> HIDE DEF freed
  <2>3. NewBlock(Block(Now.time, "FUNDED", None, 0, by, freed))
    BY <1>2, <1>4, <2>2 DEF NewBlock, Block, BlockType, BlockRecord, State, Terminal
  <2>4. "FUNDED" \in State /\ 0 \in Nat
    BY DEF State
  <2> QED BY <1>2, <1>4, <2>1, <2>3, <2>4, AppendIsChainStep
<1> QED BY <1>5, <1>6, <1>7

ChainAction ==
  \/ Tick \/ Mine
  \/ \E c \in Claim : Reserve(c)
  \/ \E s \in {"FUNDED", "QUALIFIED"} : Assess(s)
  \/ \E m \in {"refundExpired", "expireReservation"} : Other(m)

\* The actions of the chain add such a block and touch nothing of the job.
LEMMA ChainActionSteps ==
  ASSUME Types, ChainAction
  PROVE  /\ ChainStep
         /\ UNCHANGED <<dbVars, accepted, age, job, faults, retries>>
         /\ mempool' \in Seq(Request)
<1> USE DEF Types
<1>1. Now \in BlockType
  BY ChainFacts
<1>2. /\ Now.state \in State /\ Now.claim \in Claim \cup {None} /\ Now.time \in Nat
      /\ Now.expires \in Nat
  BY <1>1, BlockFacts
<1>3. mempool \in Seq(Request)
  BY DEF RequestTypes
<1>4. Duration \in Nat
  BY RecoveryAssumption
<1>5. <<>> \in Seq(Log) /\ Len(<<>>) = 0
  OBVIOUS
<1>6. CASE Tick
  <2>1. Now.time + 1 \in Nat /\ Same(Now.time + 1, None)
    BY <1>2, <1>6 DEF Tick
  <2> QED BY <1>3, <1>6, <2>1, SameIsChainStep DEF Tick
<1>7. CASE Mine
  <2>1. mempool # <<>> /\ Execute(Head(mempool).call.method, Head(mempool)) /\ mempool' = Tail(mempool)
    BY <1>7 DEF Mine
  <2>2. Head(mempool) \in Request /\ Tail(mempool) \in Seq(Request)
    BY <1>3, <2>1
  <2>3. ChainStep
    BY <2>1, <2>2, ExecuteIsChainStep
  <2> QED BY <1>7, <2>1, <2>2, <2>3 DEF Mine
<1>8. ASSUME NEW c \in Claim, Reserve(c) PROVE ChainStep
  <2>1. Append1(Now.time, "RESERVED", c, Now.time + Duration, None, <<>>) /\ Now.state = "FUNDED"
    BY <1>8 DEF Reserve
  <2>2. NewBlock(Block(Now.time, "RESERVED", c, Now.time + Duration, None, <<>>))
    BY <1>2, <1>4, <1>5, <2>1 DEF NewBlock, Block, BlockType, BlockRecord, State, Terminal
  <2>3. Now.time + Duration \in Nat /\ "RESERVED" \in State
    BY <1>2, <1>4 DEF State
  <2> QED BY <1>2, <1>5, <2>1, <2>2, <2>3, AppendIsChainStep
<1>9. ASSUME NEW s \in {"FUNDED", "QUALIFIED"}, Assess(s) PROVE ChainStep
  <2> DEFINE claim == IF s = "FUNDED" THEN None ELSE Now.claim
  <2>1. Append1(Now.time, s, claim, 0, None, <<>>) /\ Now.state = "RESERVED"
    BY <1>9 DEF Assess
  <2>2. claim \in Claim \cup {None} /\ s \in State /\ 0 \in Nat
    BY <1>2 DEF State, Terminal
  <2> HIDE DEF claim
  <2>3. NewBlock(Block(Now.time, s, claim, 0, None, <<>>))
    BY <1>2, <1>5, <2>1, <2>2 DEF NewBlock, Block, BlockType, BlockRecord, State, Terminal
  <2> QED BY <1>2, <1>5, <2>1, <2>2, <2>3, AppendIsChainStep
<1>10. ASSUME NEW m \in {"refundExpired", "expireReservation"}, Other(m) PROVE ChainStep
  <2>1. Execute(m, None)
    BY <1>10 DEF Other
  <2> QED BY <2>1, ExecuteIsChainStep
<1>11. CASE \E c \in Claim : Reserve(c)
  BY <1>3, <1>8, <1>11 DEF Reserve
<1>12. CASE \E s \in {"FUNDED", "QUALIFIED"} : Assess(s)
  BY <1>3, <1>9, <1>12 DEF Assess
<1>13. CASE \E m \in {"refundExpired", "expireReservation"} : Other(m)
  BY <1>3, <1>10, <1>13 DEF Other
<1> QED BY <1>6, <1>7, <1>11, <1>12, <1>13 DEF ChainAction

\* The chain after a block is added.
LEMMA ChainStepFacts ==
  ASSUME ChainTypes, ChainStep
  PROVE  /\ ChainTypes'
         /\ Len(chain') = Len(chain) + 1
         /\ \A b \in 1 .. Len(chain) : chain'[b] = chain[b]
         /\ NewBlock(chain'[Len(chain')])
         /\ Now' = chain'[Len(chain')]
<1>1. PICK B : NewBlock(B) /\ chain' = Append(chain, B) /\ lag' \in 0 .. Lag
  BY DEF ChainStep
<1>2. B \in BlockType
  BY <1>1 DEF NewBlock
<1>3. chain \in Seq(BlockType) /\ Len(chain) \in Nat /\ Len(chain) > 0
  BY ChainFacts DEF ChainTypes
<1>4. /\ chain' \in Seq(BlockType) /\ Len(chain') = Len(chain) + 1
      /\ \A b \in 1 .. Len(chain) : chain'[b] = chain[b]
      /\ chain'[Len(chain')] = B
  BY <1>1, <1>2, <1>3
<1>5. ChainTypes'
  <2>1. BlockType' = BlockType
    BY DEF BlockType, BlockRecord, State, Terminal, Request, Call, Log
  <2> QED BY <1>1, <1>3, <1>4, <2>1 DEF ChainTypes
<1> QED BY <1>1, <1>4, <1>5 DEF Now

\* Being over lasts, and a refund stays the last event.
LEMMA ChainStepKeepsTerminal ==
  ASSUME ChainTypes, TerminalIsLast, ChainStep
  PROVE  TerminalIsLast'
<1> DEFINE B == chain'[Len(chain')]
<1>1. /\ Len(chain) \in Nat /\ Len(chain) > 0 /\ Len(chain') = Len(chain) + 1
      /\ \A b \in 1 .. Len(chain) : chain'[b] = chain[b]
      /\ NewBlock(B) /\ Now = chain[Len(chain)]
  BY ChainFacts, ChainStepFacts
<1>2. \A i, j \in 1 .. Len(chain') : i < j /\ chain'[i].state \in Terminal =>
        chain'[j].state = chain'[i].state /\ chain'[j].log = <<>>
  <2> SUFFICES ASSUME NEW i \in 1 .. Len(chain'), NEW j \in 1 .. Len(chain'),
                      i < j, chain'[i].state \in Terminal
               PROVE  chain'[j].state = chain'[i].state /\ chain'[j].log = <<>>
    OBVIOUS
  <2>1. i \in 1 .. Len(chain) /\ chain'[i] = chain[i]
    BY <1>1
  <2>2. CASE j \in 1 .. Len(chain)
    <3>1. chain'[j] = chain[j]
      BY <1>1, <2>2
    <3> QED BY <2>1, <2>2, <3>1 DEF TerminalIsLast
  <2>3. CASE j = Len(chain')
    <3>1. Now.state = chain[i].state
      <4>1. CASE i = Len(chain)
        BY <1>1, <4>1
      <4>2. CASE i < Len(chain)
        BY <1>1, <2>1, <4>2 DEF TerminalIsLast
      <4> QED BY <1>1, <2>1, <4>1, <4>2
    <3>2. B.state = Now.state /\ B.log = <<>>
      BY <1>1, <2>1, <3>1 DEF NewBlock
    <3> QED BY <2>1, <2>3, <3>1, <3>2
  <2> QED BY <1>1, <2>2, <2>3
<1>3. \A b \in 1 .. Len(chain') : \A i \in 1 .. Len(chain'[b].log) : chain'[b].log[i] = Refunded =>
        i = Len(chain'[b].log) /\ chain'[b].state = "REFUNDED"
  <2> TAKE b \in 1 .. Len(chain')
  <2>1. CASE b \in 1 .. Len(chain)
    BY <1>1, <2>1 DEF TerminalIsLast
  <2>2. CASE b = Len(chain')
    BY <1>1, <2>2 DEF NewBlock
  <2> QED BY <1>1, <2>1, <2>2
<1>4. \A b \in 1 .. Len(chain') : chain'[b].state = "REFUNDED" =>
        \E d \in 1 .. Len(chain') : \E i \in 1 .. Len(chain'[d].log) : chain'[d].log[i] = Refunded
  <2> SUFFICES ASSUME NEW b \in 1 .. Len(chain'), chain'[b].state = "REFUNDED"
               PROVE  \E d \in 1 .. Len(chain') : \E i \in 1 .. Len(chain'[d].log) :
                        chain'[d].log[i] = Refunded
    OBVIOUS
  <2>1. (\E a \in 1 .. Len(chain) : chain[a].state = "REFUNDED")
        \/ \E i \in 1 .. Len(B.log) : B.log[i] = Refunded
    BY <1>1 DEF NewBlock
  <2>2. CASE \E i \in 1 .. Len(B.log) : B.log[i] = Refunded
    BY <1>1, <2>2
  <2>3. CASE \E a \in 1 .. Len(chain) : chain[a].state = "REFUNDED"
    <3>1. PICK d \in 1 .. Len(chain) : \E i \in 1 .. Len(chain[d].log) : chain[d].log[i] = Refunded
      BY <2>3 DEF TerminalIsLast
    <3>2. d \in 1 .. Len(chain') /\ chain'[d] = chain[d]
      BY <1>1, <3>1
    <3> QED BY <3>1, <3>2
  <2> QED BY <2>1, <2>2, <2>3
<1>5. Refunded' = Refunded /\ Terminal' = Terminal
  BY DEF Refunded, Terminal
<1> QED BY <1>2, <1>3, <1>4, <1>5 DEF TerminalIsLast

\* What is done is done.
LEMMA DoneLasts ==
  ASSUME ChainTypes, TerminalIsLast, ChainStep, UNCHANGED events, Done
  PROVE  Done'
<1> DEFINE B == chain'[Len(chain')]
<1>1. /\ Len(chain) \in Nat /\ Len(chain') = Len(chain) + 1
      /\ NewBlock(B) /\ Now' = B /\ ChainTypes'
  BY ChainFacts, ChainStepFacts
<1>2. B.state = Now.state /\ B.log = <<>>
  BY <1>1 DEF Done, NewBlock
<1>3. Grown
  BY ChainFacts, ChainStepFacts DEF Grown
<1>4. \A b \in 1 .. Len(chain) : RecoveryEvents(b)' = RecoveryEvents(b)
  BY <1>1, <1>3, GrownEvents
<1>5. PICK n : n = Len(chain')
  OBVIOUS
<1>6. RecoveryEvents(n)' = {}
  <2>1. DOMAIN (chain'[n].log) = {}
    BY <1>2, <1>5
  <2> QED BY <2>1 DEF RecoveryEvents
<1>7. \A b \in 1 .. Len(chain') : RecoveryEvents(b)' \subseteq events'
  <2> SUFFICES ASSUME NEW b \in 1 .. Len(chain') PROVE RecoveryEvents(b)' \subseteq events'
    OBVIOUS
  <2>1. CASE b = n
    BY <1>6, <2>1
  <2>2. CASE b # n
    <3>1. b \in 1 .. Len(chain)
      BY <1>1, <1>5, <2>2
    <3> QED BY <1>4, <3>1 DEF Done, Recorded
  <2> QED BY <2>1, <2>2
<1>8. Recorded(Len(chain))'
  BY <1>7 DEF Recorded
<1>9. Now'.state \in Terminal /\ Terminal' = Terminal
  BY <1>1, <1>2 DEF Done, Terminal
<1> QED BY <1>8, <1>9 DEF Done

\* The records and the scan are not disturbed by a new block.
LEMMA ChainStepKeepsRecords ==
  ASSUME Types, TerminalIsLast, RowFollows, ScanIsComplete, ChainStep,
         UNCHANGED <<dbVars, job>>
  PROVE  RecordTypes' /\ RowFollows' /\ ScanIsComplete'
<1> USE DEF Types
<1>1. /\ Len(chain) \in Nat /\ Len(chain) > 0 /\ Len(chain') = Len(chain) + 1
      /\ \A b \in 1 .. Len(chain) : chain'[b] = chain[b]
      /\ ChainTypes'
  BY ChainFacts, ChainStepFacts
<1>2. UNCHANGED <<events, row, checkpoint, status, job>>
  BY DEF dbVars
<1>3. Grown
  BY <1>1, <1>2 DEF Grown
<1>4. /\ \A b \in 1 .. Len(chain) : RecoveryEvents(b)' = RecoveryEvents(b)
      /\ \A e : OnChain(e) => OnChain(e)' /\ LogOf(e)' = LogOf(e)
  BY <1>1, <1>3, GrownEvents
<1>5. \A e \in events : OnChain(e)
  BY DEF RecordTypes, OnChain
<1>6. RecordTypes'
  <2>1. checkpoint \in 0 .. Len(chain')
    BY <1>1 DEF RecordTypes
  <2>2. \A e \in events : OnChain(e)'
    BY <1>4, <1>5
  <2> QED BY <1>2, <2>1, <2>2 DEF RecordTypes, OnChain, Event
<1>7. RowFollows'
  <2>1. Refunded' = Refunded
    BY DEF Refunded
  <2>2. \A e \in events : LogOf(e)' = LogOf(e)
    BY <1>4, <1>5
  <2>3. \A e \in events : RowOf(e)' = RowOf(e)
    BY <2>2 DEF RowOf
  <2>4. PICK k : k = row.last
    OBVIOUS
  <2>5. k = <<1, 0>> \/ (k \in events' /\ row' = RowOf(k)')
    BY <1>2, <2>3, <2>4 DEF RowFollows
  <2> QED BY <1>2, <2>1, <2>2, <2>4, <2>5 DEF RowFollows, RowOf
<1>8. CheckpointCovers'
  <2>1. \A b \in 1 .. checkpoint : b \in 1 .. Len(chain)
    BY <1>1 DEF RecordTypes
  <2>2. \A b \in 1 .. checkpoint : RecoveryEvents(b)' \subseteq events
    BY <1>4, <2>1 DEF ScanIsComplete, CheckpointCovers, Recorded
  <2> QED BY <1>2, <2>2 DEF CheckpointCovers, Recorded
<1>9. Done => Done'
  BY <1>2, DoneLasts
<1>10. Terminal' = Terminal
  BY DEF Terminal
<1>11. ScanIsComplete'
  <2>1. job.at = "SCAN" => /\ job.from = checkpoint + 1
                           /\ job.head \in 1 .. Len(chain') /\ job.from <= job.head + 1
                           /\ job.terminal => chain'[job.head].state \in Terminal
    BY <1>1 DEF ScanIsComplete
  <2>2. /\ job.at = "END" /\ job.result = "COMPLETE" => Done'
        /\ status = "COMPLETE" => Done'
    BY <1>9 DEF ScanIsComplete
  <2> QED BY <1>2, <1>8, <1>10, <2>1, <2>2 DEF ScanIsComplete
<1> QED BY <1>6, <1>7, <1>11

\* A step of the chain keeps the invariant.
LEMMA ChainActionKeeps ==
  ASSUME IInv, ChainAction
  PROVE  IInv'
<1> USE DEF IInv, Types
<1>1. ChainStep /\ UNCHANGED <<dbVars, accepted, age, job, faults, retries>> /\ mempool' \in Seq(Request)
  BY ChainActionSteps
<1>2. /\ UNCHANGED <<request, active, status, checkpoint, events, row>>
      /\ UNCHANGED <<accepted, age, job, faults, retries>>
  BY <1>1 DEF dbVars
<1>3. ChainTypes' /\ Grown
  BY <1>1, <1>2, ChainFacts, ChainStepFacts DEF Grown
<1>4. RequestTypes' /\ JobTypes'
  BY <1>1, <1>2 DEF RequestTypes, JobTypes
<1>5. TerminalIsLast' /\ RecordTypes' /\ RowFollows' /\ ScanIsComplete'
  BY <1>1, ChainStepKeepsTerminal, ChainStepKeepsRecords
<1>6. OneActive' /\ AttemptsInOrder' /\ SentIsSubmitted'
  BY <1>2 DEF RequestInv, OneActive, AttemptsInOrder, SentIsSubmitted
<1>7. RequestsTellTheTruth'
  <2>1. \A r \in Request : TruthOf(r)'
    BY <1>2, <1>3, TruthGrows DEF RequestInv
  <2>2. Request' = Request
    BY DEF Request, Call
  <2> QED BY <2>1, <2>2 DEF RequestsTellTheTruth, TruthOf
<1> QED BY <1>3, <1>4, <1>5, <1>6, <1>7 DEF RequestInv

-----------------------------------------------------------------------------
(* The job, the network and the API: the steps that leave the chain alone. *)

JobAction ==
  \/ Pass
  \/ \E v \in View : Start(v)
  \/ LoseResponse \/ Crash \/ Fail \/ Grow \/ CatchUp \/ RetryRecovery
  \/ \E b \in DOMAIN chain, v \in View : RecordReceipt(b, v)

\* The job with a step of its own, or with an end.
LEMMA JobShapes ==
  /\ Idle \in JobType /\ Idle.at = "IDLE"
  /\ \A s \in Status : Result(s) => job' \in JobType /\ job'.at = "END" /\ job'.result = s
  /\ \A at \in {"SEND", "RECEIPT"} : Goto(at) => job' \in JobType /\ job'.at = at
<1>1. Idle \in JobType /\ Idle.at = "IDLE"
  BY DEF Idle, JobType, Status
<1>2. \A at \in {"SEND", "RECEIPT"} : Goto(at) => job' \in JobType /\ job'.at = at
  BY <1>1 DEF Goto, JobType
<1>3. ASSUME NEW s \in Status, Result(s) PROVE job' \in JobType /\ job'.at = "END" /\ job'.result = s
  <2> DEFINE k == [Idle EXCEPT !.at = "END"]
  <2>1. k \in JobType /\ k.at = "END"
    BY <1>1 DEF JobType
  <2>2. job' = [k EXCEPT !.result = s]
    BY <1>3 DEF Result
  <2> HIDE DEF k
  <2> QED BY <2>1, <2>2 DEF JobType
<1> QED BY <1>1, <1>2, <1>3

\* A recording is refused with one of two statuses.
LEMMA RefusalStatus ==
  ASSUME NEW b, NEW v
  PROVE  Refusal(b, v) # None => Refusal(b, v) \in {"RETRYING", "NEEDS_REVIEW"}
BY DEF Refusal

\* The finalized head a node answers with is a block of the chain.
LEMMA ViewIsBlock ==
  ASSUME ChainTypes, NEW v \in View
  PROVE  v \in 1 .. Len(chain) /\ chain[v] \in BlockType
BY ChainFacts DEF View

\* The blocks of a page are blocks of the chain.
LEMMA PageIsOnChain ==
  ASSUME Types, ScanIsComplete, job.at = "SCAN", job.from <= job.head
  PROVE  /\ PageEnd \in Nat /\ job.from \in Nat /\ checkpoint \in Nat /\ job.from = checkpoint + 1
         /\ job.from <= PageEnd + 1 /\ PageEnd <= job.head /\ PageEnd <= Len(chain)
         /\ PageHits \subseteq job.from .. PageEnd /\ PageHits \subseteq 1 .. Len(chain)
<1>1. Len(chain) \in Nat /\ job.head \in 1 .. Len(chain) /\ job.head \in Nat
      /\ job.from = checkpoint + 1 /\ checkpoint \in Nat /\ job.from \in Nat
  BY ChainFacts DEF Types, ScanIsComplete, RecordTypes
<1>2. PageBlocks \in Nat /\ PageBlocks >= 1
  BY RecoveryAssumption
<1>3. PageEnd = IF job.from + PageBlocks - 1 < job.head THEN job.from + PageBlocks - 1 ELSE job.head
  BY DEF PageEnd
<1>4. PageEnd \in Nat /\ job.from <= PageEnd + 1 /\ PageEnd <= job.head /\ PageEnd <= Len(chain)
  BY <1>1, <1>2, <1>3
<1>5. PageHits \subseteq job.from .. PageEnd
  BY DEF PageHits
<1>6. \A b \in job.from .. PageEnd : b \in 1 .. Len(chain)
  BY <1>1, <1>4
<1> QED BY <1>1, <1>4, <1>5, <1>6

\* A step of a pass leaves the events and the row alone or records the
\* transactions of some blocks.
Records == \E blocks \in SUBSET (1 .. Len(chain)) : \E view : ReconcileAll(blocks, view)

\* No step of these changes the chain, and what they record is on it.
LEMMA JobActionRecords ==
  ASSUME Types, ScanIsComplete, JobAction
  PROVE  /\ UNCHANGED chain /\ lag' \in 0 .. Lag
         /\ UNCHANGED <<events, row>> \/ Records
<1> USE DEF Types
<1>1. lag \in 0 .. Lag /\ 0 \in 0 .. Lag
  BY RecoveryAssumption DEF ChainTypes
<1>2. CASE End \/ PausePass \/ SkipCheck \/ Crash \/ Fail \/ Grow \/ RetryRecovery
  BY <1>1, <1>2 DEF End, PausePass, SkipCheck, Crash, Fail, Grow, RetryRecovery, netVars, dbVars
<1>3. CASE CheckRequest \/ Send \/ LoseResponse \/ CatchUp
  BY <1>1, <1>3 DEF CheckRequest, Send, LoseResponse, CatchUp, netVars, dbVars
<1>4. ASSUME NEW v \in View, Rest(v) \/ Prepare(v) \/ Resume(v) \/ Start(v)
      PROVE  UNCHANGED chain /\ lag' \in 0 .. Lag /\ UNCHANGED <<events, row>>
  BY <1>1, <1>4 DEF Rest, Prepare, Resume, Start, netVars, dbVars
<1>5. CASE ScanPage
  <2>1. UNCHANGED <<chain, lag>>
    BY <1>5 DEF ScanPage, netVars
  <2>2. PageHits \in SUBSET (1 .. Len(chain))
    BY <1>5, PageIsOnChain DEF ScanPage
  <2>3. UNCHANGED <<events, row>> \/ \E view : ReconcileAll(PageHits, view)
    BY <1>5 DEF ScanPage
  <2> QED BY <1>1, <2>1, <2>2, <2>3 DEF Records
<1>6. ASSUME NEW v \in View, NEW w \in View, ReadReceipt(v, w)
      PROVE  UNCHANGED chain /\ lag' \in 0 .. Lag /\ (UNCHANGED <<events, row>> \/ Records)
  <2>1. UNCHANGED <<chain, lag>>
    BY <1>6 DEF ReadReceipt, netVars
  <2> DEFINE found == {b \in Happened(active) : b <= v}
  <2>2. CASE found = {}
    BY <1>1, <1>6, <2>1, <2>2 DEF ReadReceipt
  <2>3. CASE found # {}
    <3> DEFINE b == CHOOSE x \in found : TRUE
    <3>1. b \in found
      BY <2>3
    <3>2. b \in 1 .. Len(chain)
      BY <3>1, ChainFacts DEF Happened
    <3>3. UNCHANGED <<events, row>> \/ ReconcileAll({b}, [x \in {b} |-> w])
      BY <1>6, <2>3 DEF ReadReceipt
    <3> HIDE DEF b
    <3> QED BY <1>1, <2>1, <3>2, <3>3 DEF Records
  <2> QED BY <2>2, <2>3
<1>7. ASSUME NEW b \in DOMAIN chain, NEW v \in View, RecordReceipt(b, v)
      PROVE  UNCHANGED chain /\ lag' \in 0 .. Lag /\ Records
  <2>1. b \in 1 .. Len(chain)
    BY ChainFacts
  <2>2. UNCHANGED <<chain, lag>> /\ ReconcileAll({b}, [x \in {b} |-> v])
    BY <1>7 DEF RecordReceipt, netVars
  <2> QED BY <1>1, <2>1, <2>2 DEF Records
<1>8. CASE Pass
  BY <1>2, <1>3, <1>4, <1>5, <1>6, <1>8 DEF Pass
<1> QED BY <1>2, <1>3, <1>4, <1>7, <1>8 DEF JobAction

\* So what was recorded stays, and the row goes on to follow it.
LEMMA RecordsKept ==
  ASSUME Types, TerminalIsLast, RowFollows, ScanIsComplete, UNCHANGED chain, lag' \in 0 .. Lag,
         UNCHANGED <<events, row>> \/ Records
  PROVE  /\ ChainTypes' /\ Grown /\ TerminalIsLast' /\ RowFollows'
         /\ row' \in [state : {"FUNDED", "REFUNDED"}, last : Event]
         /\ (\A e \in events : \E b \in 1 .. Len(chain) : e \in RecoveryEvents(b))'
         /\ \A n : Recorded(n) => Recorded(n)'
         /\ Done => Done'
<1> USE DEF Types
<1>1. ChainTypes' /\ TerminalIsLast'
  BY DEF ChainTypes, TerminalIsLast
<1>2. \A b : RecoveryEvents(b)' = RecoveryEvents(b)
  BY DEF RecoveryEvents
<1>3. /\ RowFollows' /\ events \subseteq events' /\ \A e \in events' : OnChain(e)
      /\ row' \in [state : {"FUNDED", "REFUNDED"}, last : Event]
  <2>1. CASE UNCHANGED <<events, row>>
    <3>1. RowFollows'
      BY <2>1 DEF RowFollows, RowOf, LogOf, Refunded
    <3> QED BY <2>1, <3>1 DEF RecordTypes, OnChain
  <2>2. CASE Records
    BY <2>2, ReconcileKeeps DEF Records
  <2> QED BY <2>1, <2>2
<1>4. Grown
  BY <1>3, SameChainGrows
<1>5. \A n : Recorded(n) => Recorded(n)'
  BY <1>2, <1>3 DEF Recorded
<1>6. Done => Done'
  BY <1>5 DEF Done, Now, Terminal, Recorded
<1>7. (\A e \in events : \E b \in 1 .. Len(chain) : e \in RecoveryEvents(b))'
  BY <1>2, <1>3 DEF OnChain
<1> QED BY <1>1, <1>3, <1>4, <1>5, <1>6, <1>7

\* The job at the beginning of its scan.
LEMMA StartShape ==
  ASSUME NEW head \in Nat, NEW from \in Nat, NEW pages \in Nat, NEW terminal \in BOOLEAN,
         job' = [Idle EXCEPT !.at = "SCAN", !.head = head, !.from = from,
                             !.pages = pages, !.terminal = terminal]
  PROVE  /\ job' \in JobType /\ job'.at = "SCAN"
         /\ job'.head = head /\ job'.from = from /\ job'.terminal = terminal
<1> DEFINE scan == [Idle EXCEPT !.at = "SCAN"]
           seen == [scan EXCEPT !.head = head]
           begun == [seen EXCEPT !.from = from]
           paged == [begun EXCEPT !.pages = pages]
<1>1. scan \in JobType /\ scan.at = "SCAN"
  BY JobShapes DEF JobType
<1>2. job' = [paged EXCEPT !.terminal = terminal]
  OBVIOUS
<1> HIDE DEF scan
<1>3. seen \in JobType /\ seen.at = "SCAN" /\ seen.head = head
  BY <1>1 DEF JobType
<1> HIDE DEF seen
<1>4. begun \in JobType /\ begun.at = "SCAN" /\ begun.head = head /\ begun.from = from
  BY <1>3 DEF JobType
<1> HIDE DEF begun
<1>5. paged \in JobType /\ paged.at = "SCAN" /\ paged.head = head /\ paged.from = from
  BY <1>4 DEF JobType
<1> HIDE DEF paged
<1> QED BY <1>2, <1>5 DEF JobType

\* The job after a page of it.
LEMMA PageShape ==
  ASSUME job \in JobType, NEW from \in Nat, NEW pages \in Nat,
         job' = [job EXCEPT !.from = from, !.pages = pages]
  PROVE  /\ job' \in JobType /\ job'.at = job.at
         /\ job'.head = job.head /\ job'.from = from /\ job'.terminal = job.terminal
<1> DEFINE h == [job EXCEPT !.from = from]
<1>1. h \in JobType /\ h.at = job.at /\ h.head = job.head /\ h.from = from /\ h.terminal = job.terminal
  BY DEF JobType
<1>2. job' = [h EXCEPT !.pages = pages]
  OBVIOUS
<1> HIDE DEF h
<1>3. job' \in JobType /\ job'.at = h.at /\ job'.head = h.head /\ job'.from = h.from
      /\ job'.terminal = h.terminal
  BY <1>1, <1>2 DEF JobType
<1> QED BY <1>1, <1>3

\* The job when it looks at its request.
LEMMA CheckShape ==
  ASSUME NEW due \in Call \cup {None}, job' = [Idle EXCEPT !.at = "CHECK", !.due = due]
  PROVE  job' \in JobType /\ job'.at = "CHECK"
<1> DEFINE h == [Idle EXCEPT !.at = "CHECK"]
<1>1. h \in JobType /\ h.at = "CHECK"
  BY JobShapes DEF JobType
<1>2. job' = [h EXCEPT !.due = due]
  OBVIOUS
<1> HIDE DEF h
<1> QED BY <1>1, <1>2 DEF JobType

\* What is due is a call the job can prepare.
LEMMA DueIsCall ==
  ASSUME ChainTypes, NEW v \in View
  PROVE  DueRecovery(v) \in Call \cup {None}
<1>1. chain[v] \in BlockType
  BY ViewIsBlock
<1>2. chain[v].state = "RESERVED" => chain[v].claim \in Claim
  BY <1>1, BlockFacts
<1> QED BY <1>2 DEF DueRecovery, Call

\* The number of attempts is a number.
LEMMA AttemptsType ==
  ASSUME NEW call
  PROVE  Attempts(call) \in Nat
<1> DEFINE S == {n \in 1 .. MaxAttempts : request[[call |-> call, attempt |-> n]] # "NONE"}
<1>1. MaxAttempts \in Int
  BY RecoveryAssumption
<1>2. IsFiniteSet(S)
  <2>1. IsFiniteSet(1 .. MaxAttempts)
    BY <1>1, FS_Interval, 1 \in Int, Zenon
  <2>2. S \in SUBSET (1 .. MaxAttempts)
    OBVIOUS
  <2> HIDE DEF S
  <2> QED BY <2>1, <2>2, FS_Subset, Zenon
<1>3. Cardinality(S) \in Nat
  BY <1>2, FS_CardinalityType
<1> QED BY <1>3 DEF Attempts

\* A request with a new state, and the others as they were.
LEMMA Updated ==
  ASSUME RequestTypes, NEW r \in Request, NEW s \in RequestState,
         request' = [request EXCEPT ![r] = s]
  PROVE  /\ request' \in [Request -> RequestState] /\ request'[r] = s
         /\ \A q \in Request : q # r => request'[q] = request[q]
BY DEF RequestTypes

\* Circle makes at most one transaction while it remembers the key.
LEMMA AcceptOnce ==
  ASSUME RequestTypes, NEW r \in Request, Accept(r), age <= 1
  PROVE  /\ accepted' \in [Request -> {0, 1}] /\ mempool' \in Seq(Request)
         /\ \A q \in Request : q # r => accepted'[q] = accepted[q]
<1>1. accepted \in [Request -> {0, 1}] /\ mempool \in Seq(Request) /\ age # 2
  BY DEF RequestTypes
<1>2. CASE accepted[r] = 0
  <2>1. accepted' = [accepted EXCEPT ![r] = accepted[r] + 1] /\ mempool' = Append(mempool, r)
    BY <1>2 DEF Accept
  <2>2. Append(mempool, r) \in Seq(Request)
    BY <1>1
  <2> QED BY <1>1, <1>2, <2>1, <2>2
<1>3. CASE accepted[r] # 0
  BY <1>1, <1>3 DEF Accept
<1> QED BY <1>2, <1>3

\* The request whose end is written was the active one.
LEMMA FinishTypes ==
  ASSUME RequestTypes, active # None, NEW s \in RequestState, Finish(s)
  PROVE  /\ request' \in [Request -> RequestState] /\ active' = None /\ age' = 0
         /\ active \in Request /\ request'[active] = s
         /\ \A q \in Request : q # active => request'[q] = request[q]
<1>1. active \in Request
  BY DEF RequestTypes
<1> QED BY <1>1, Updated DEF Finish

\* The new attempt of a call.
LEMMA PrepareTypes ==
  ASSUME Types, NEW v \in View, DueRecovery(v) # None,
         Attempts(DueRecovery(v)) + 1 <= MaxAttempts
  PROVE  /\ DueRecovery(v) \in Call
         /\ Attempts(DueRecovery(v)) + 1 \in 1 .. MaxAttempts
         /\ [call |-> DueRecovery(v), attempt |-> Attempts(DueRecovery(v)) + 1] \in Request
<1>1. DueRecovery(v) \in Call
  BY DueIsCall DEF Types
<1>2. Attempts(DueRecovery(v)) \in Nat /\ MaxAttempts \in Nat
  BY AttemptsType, RecoveryAssumption
<1>3. Attempts(DueRecovery(v)) + 1 \in 1 .. MaxAttempts
  BY <1>2
<1> QED BY <1>1, <1>3 DEF Request

\* The types of the requests are kept.
LEMMA JobActionKeepsRequestTypes ==
  ASSUME Types, OneActive, JobAction
  PROVE  RequestTypes'
<1> USE DEF Types
<1>0. /\ Request' = Request /\ RequestState' = RequestState
      /\ RequestTypes' <=> /\ request' \in [Request -> RequestState] /\ active' \in Request \cup {None}
                           /\ age' \in 0 .. 2
                           /\ accepted' \in [Request -> {0, 1}] /\ mempool' \in Seq(Request)
  BY DEF RequestTypes, Request, Call, RequestState
<1>1. ASSUME UNCHANGED <<request, active, age, accepted, mempool>> PROVE RequestTypes'
  BY <1>0, <1>1 DEF RequestTypes
<1>2. CASE End \/ PausePass \/ SkipCheck \/ Crash \/ Fail \/ RetryRecovery \/ ScanPage \/ CatchUp
  BY <1>1, <1>2 DEF End, PausePass, SkipCheck, Crash, Fail, RetryRecovery, ScanPage, CatchUp, netVars, dbVars
<1>3. ASSUME NEW v \in View, Rest(v) \/ Resume(v) \/ Start(v) PROVE RequestTypes'
  BY <1>1, <1>3 DEF Rest, Resume, Start, netVars, dbVars
<1>4. CASE \E b \in DOMAIN chain, v \in View : RecordReceipt(b, v)
  BY <1>1, <1>4 DEF RecordReceipt, netVars
<1>5. CASE Grow
  BY <1>0, <1>5 DEF Grow, RequestTypes, dbVars, netVars
<1>6. CASE CheckRequest
  <2>1. UNCHANGED <<accepted, mempool>> /\ active # None /\ active \in Request
    BY <1>6 DEF CheckRequest, netVars, OneActive, RequestTypes
  <2>2. ASSUME NEW s \in RequestState, Finish(s) PROVE RequestTypes'
    BY <1>0, <2>1, <2>2, FinishTypes DEF RequestTypes
  <2>3. ASSUME UNCHANGED <<request, active, age>> PROVE RequestTypes'
    BY <1>1, <2>1, <2>3
  <2>4. ASSUME request' = [request EXCEPT ![active] = "SUBMITTED"], UNCHANGED <<active, age>>
        PROVE  RequestTypes'
    <3>1. "SUBMITTED" \in RequestState
      BY DEF RequestState
    <3> QED BY <1>0, <2>1, <2>4, <3>1, Updated DEF RequestTypes
  <2>5. \/ \E s \in {"RECONCILED", "CANCELLED"} : Finish(s)
        \/ UNCHANGED <<request, active, age>>
        \/ request' = [request EXCEPT ![active] = "SUBMITTED"] /\ UNCHANGED <<active, age>>
    BY <1>6 DEF CheckRequest
  <2> QED BY <2>2, <2>3, <2>4, <2>5 DEF RequestState
<1>7. CASE Send
  <2>1. active # None /\ active \in Request /\ age <= 1
    BY <1>7 DEF Send, OneActive, RequestTypes
  <2>2. Accept(active) /\ request' = [request EXCEPT ![active] = "BROADCAST"] /\ age' = 0 /\ active' = active
    BY <1>7 DEF Send
  <2>3. "BROADCAST" \in RequestState
    BY DEF RequestState
  <2>4. /\ request' \in [Request -> RequestState]
        /\ accepted' \in [Request -> {0, 1}] /\ mempool' \in Seq(Request)
    BY <2>1, <2>2, <2>3, Updated, AcceptOnce
  <2> QED BY <1>0, <2>1, <2>2, <2>4
<1>8. CASE LoseResponse
  <2>1. active # None /\ active \in Request /\ age <= 1
    BY <1>8 DEF LoseResponse, OneActive, RequestTypes
  <2>2. Accept(active) /\ UNCHANGED <<request, active, age>>
    BY <1>8 DEF LoseResponse, dbVars
  <2>3. accepted' \in [Request -> {0, 1}] /\ mempool' \in Seq(Request)
    BY <2>1, <2>2, AcceptOnce
  <2> QED BY <1>0, <2>2, <2>3 DEF RequestTypes
<1>9. ASSUME NEW v \in View, Prepare(v) PROVE RequestTypes'
  <2> DEFINE call == DueRecovery(v)
             r == [call |-> call, attempt |-> Attempts(call) + 1]
  <2>1. UNCHANGED <<accepted, mempool>>
    BY <1>9 DEF Prepare, netVars
  <2>2. CASE Attempts(call) + 1 > MaxAttempts
    BY <1>1, <1>9, <2>1, <2>2 DEF Prepare
  <2>3. CASE ~ (Attempts(call) + 1 > MaxAttempts)
    <3>1. request' = [request EXCEPT ![r] = "PREPARED"] /\ active' = r /\ age' = 0
      BY <1>9, <2>3 DEF Prepare
    <3>2. Attempts(call) + 1 <= MaxAttempts
      BY <2>3, AttemptsType, RecoveryAssumption
    <3>3. r \in Request
      BY <1>9, <3>2, PrepareTypes DEF Prepare
    <3> HIDE DEF r
    <3>4. "PREPARED" \in RequestState
      BY DEF RequestState
    <3>5. request' \in [Request -> RequestState]
      BY <3>1, <3>3, <3>4, Updated
    <3> QED BY <1>0, <2>1, <3>1, <3>3, <3>5 DEF RequestTypes
  <2> QED BY <2>2, <2>3
<1>10. ASSUME NEW v \in View, NEW w \in View, ReadReceipt(v, w) PROVE RequestTypes'
  <2>1. UNCHANGED <<accepted, mempool>> /\ active # None
    BY <1>10 DEF ReadReceipt, netVars, OneActive
  <2>2. ASSUME NEW s \in RequestState, Finish(s) PROVE RequestTypes'
    BY <1>0, <2>1, <2>2, FinishTypes DEF RequestTypes
  <2>3. UNCHANGED <<request, active, age>> \/ \E s \in {"FAILED", "CONFIRMED"} : Finish(s)
    BY <1>10 DEF ReadReceipt
  <2> QED BY <1>1, <2>1, <2>2, <2>3 DEF RequestState
<1>11. CASE Pass
  BY <1>2, <1>3, <1>6, <1>7, <1>9, <1>10, <1>11 DEF Pass
<1> QED BY <1>2, <1>3, <1>4, <1>5, <1>8, <1>11 DEF JobAction

\* The types of the job are kept.
LEMMA JobActionKeepsJobTypes ==
  ASSUME Types, ScanIsComplete, JobAction
  PROVE  JobTypes' /\ checkpoint' \in 0 .. Len(chain)
<1> USE DEF Types
<1>1. Len(chain) \in Nat /\ checkpoint \in 0 .. Len(chain)
  BY ChainFacts DEF RecordTypes
<1>2. status \in Status /\ job \in JobType /\ job.result \in Status
      /\ faults \in 0 .. MaxFaults /\ retries \in 0 .. MaxRetries
      /\ MaxFaults \in Nat /\ MaxRetries \in Nat
  BY RecoveryAssumption DEF JobTypes, JobType
<1>3. JobTypes' <=> /\ status' \in Status /\ job' \in JobType
                    /\ faults' \in 0 .. MaxFaults /\ retries' \in 0 .. MaxRetries
  BY DEF JobTypes, JobType, Status, Call
<1>4. ASSUME UNCHANGED <<status, faults, retries>>, job' \in JobType PROVE JobTypes'
  BY <1>2, <1>3, <1>4
<1>5. \A s \in Status : Result(s) => job' \in JobType
  BY JobShapes
<1>6. {"RETRYING", "NEEDS_REVIEW", "WAITING", "SCANNING", "COMPLETE", "CONFIRMING", "PREPARED"} \subseteq Status
  BY DEF Status
<1>7. CASE End
  <2>1. status' = job.result /\ job' = Idle /\ UNCHANGED <<checkpoint, faults, retries>>
    BY <1>7 DEF End
  <2> QED BY <1>1, <1>2, <1>3, <2>1, JobShapes
<1>8. CASE PausePass
  <2>1. Result("SCANNING") /\ UNCHANGED <<checkpoint, status, faults, retries>>
    BY <1>8 DEF PausePass, dbVars
  <2> QED BY <1>1, <1>4, <1>5, <1>6, <2>1
<1>9. CASE CheckRequest
  <2>1. (\E s \in {"WAITING", "NEEDS_REVIEW"} : Result(s)) \/ Goto("SEND")
    BY <1>9 DEF CheckRequest
  <2>2. UNCHANGED <<checkpoint, status, faults, retries>>
    BY <1>9 DEF CheckRequest
  <2>3. job' \in JobType
    BY <1>5, <1>6, <2>1, JobShapes
  <2> QED BY <1>1, <1>4, <2>2, <2>3
<1>10. CASE SkipCheck \/ Send
  <2>1. Goto("RECEIPT") /\ UNCHANGED <<checkpoint, status, faults, retries>>
    BY <1>10 DEF SkipCheck, Send, dbVars
  <2> QED BY <1>1, <1>4, <2>1, JobShapes
<1>11. CASE LoseResponse \/ Fail
  <2>1. Result("RETRYING") /\ faults < MaxFaults /\ faults' = faults + 1 /\ UNCHANGED <<checkpoint, status, retries>>
    BY <1>11 DEF LoseResponse, Fail, dbVars
  <2>2. job' \in JobType
    BY <1>5, <1>6, <2>1
  <2> QED BY <1>1, <1>2, <1>3, <2>1, <2>2
<1>12. CASE Crash
  <2>1. job' = Idle /\ faults < MaxFaults /\ faults' = faults + 1 /\ UNCHANGED <<checkpoint, status, retries>>
    BY <1>12 DEF Crash, dbVars
  <2> QED BY <1>1, <1>2, <1>3, <2>1, JobShapes
<1>13. CASE Grow \/ CatchUp
  <2>1. UNCHANGED <<checkpoint, status, faults, retries, job>>
    BY <1>13 DEF Grow, CatchUp, dbVars
  <2> QED BY <1>1, <1>2, <1>4, <2>1
<1>14. CASE RetryRecovery
  <2>1. status' = "WAITING" /\ retries < MaxRetries /\ retries' = retries + 1
        /\ UNCHANGED <<checkpoint, faults, job>>
    BY <1>14 DEF RetryRecovery
  <2> QED BY <1>1, <1>2, <1>3, <1>6, <2>1
<1>15. CASE \E b \in DOMAIN chain, v \in View : RecordReceipt(b, v)
  <2>1. UNCHANGED <<checkpoint, status, faults, retries, job>>
    BY <1>15 DEF RecordReceipt
  <2> QED BY <1>1, <1>2, <1>4, <2>1
<1>16. ASSUME NEW v \in View, Start(v) PROVE JobTypes' /\ checkpoint' \in 0 .. Len(chain)
  <2>1. UNCHANGED <<checkpoint, status, faults, retries>>
    BY <1>16 DEF Start, dbVars
  <2>2. CASE checkpoint > v
    <3>1. Result("NEEDS_REVIEW")
      BY <1>16, <2>2 DEF Start, Result
    <3> QED BY <1>1, <1>4, <1>5, <1>6, <2>1, <3>1
  <2>3. CASE ~ (checkpoint > v)
    <3> DEFINE over == chain[v].state \in Terminal
    <3>1. job' = [Idle EXCEPT !.at = "SCAN", !.head = v, !.from = checkpoint + 1,
                              !.pages = MaxPages, !.terminal = over]
      BY <1>16, <2>3 DEF Start
    <3>2. v \in Nat /\ checkpoint + 1 \in Nat /\ MaxPages \in Nat /\ over \in BOOLEAN
      BY <1>1, ViewIsBlock, RecoveryAssumption
    <3> HIDE DEF over
    <3>3. job' \in JobType
      BY <3>1, <3>2, StartShape
    <3> QED BY <1>1, <1>4, <2>1, <3>3
  <2> QED BY <2>2, <2>3
<1>17. ASSUME NEW v \in View, Resume(v) PROVE JobTypes' /\ checkpoint' \in 0 .. Len(chain)
  <2>1. UNCHANGED <<checkpoint, status, faults, retries>>
    BY <1>17 DEF Resume, dbVars
  <2>2. job' = [Idle EXCEPT !.at = "CHECK", !.due = DueRecovery(v)]
    BY <1>17 DEF Resume
  <2>3. job' \in JobType
    BY <2>2, DueIsCall, CheckShape
  <2> QED BY <1>1, <1>4, <2>1, <2>3
<1>18. ASSUME NEW v \in View, Rest(v) PROVE JobTypes' /\ checkpoint' \in 0 .. Len(chain)
  <2>1. UNCHANGED <<checkpoint, status, faults, retries>> /\ Result(RestingStatus(v))
    BY <1>18 DEF Rest, dbVars
  <2>2. RestingStatus(v) \in Status
    BY <1>6 DEF RestingStatus
  <2> QED BY <1>1, <1>4, <1>5, <2>1, <2>2
<1>19. ASSUME NEW v \in View, Prepare(v) PROVE JobTypes' /\ checkpoint' \in 0 .. Len(chain)
  <2>1. UNCHANGED <<checkpoint, faults, retries>>
    BY <1>19 DEF Prepare
  <2>2. \/ Result("NEEDS_REVIEW") /\ UNCHANGED status
        \/ status' = "PREPARED" /\ job' = [Idle EXCEPT !.at = "CHECK", !.due = DueRecovery(v)]
    BY <1>19 DEF Prepare
  <2>3. CASE Result("NEEDS_REVIEW") /\ UNCHANGED status
    BY <1>1, <1>4, <1>5, <1>6, <2>1, <2>3
  <2>4. CASE status' = "PREPARED" /\ job' = [Idle EXCEPT !.at = "CHECK", !.due = DueRecovery(v)]
    <3>1. job' \in JobType
      BY <2>4, DueIsCall, CheckShape
    <3> QED BY <1>1, <1>2, <1>3, <1>6, <2>1, <2>4, <3>1
  <2> QED BY <2>2, <2>3, <2>4
<1>20. ASSUME NEW v \in View, NEW w \in View, ReadReceipt(v, w)
       PROVE  JobTypes' /\ checkpoint' \in 0 .. Len(chain)
  <2>1. UNCHANGED <<checkpoint, status, faults, retries>>
    BY <1>20 DEF ReadReceipt
  <2>2. \/ \E s \in {"CONFIRMING", "RETRYING", "NEEDS_REVIEW", "WAITING"} : Result(s)
        \/ \E b : Refusal(b, w) # None /\ Result(Refusal(b, w))
    BY <1>20 DEF ReadReceipt
  <2>3. job' \in JobType
    BY <1>5, <1>6, <2>2, RefusalStatus
  <2> QED BY <1>1, <1>4, <2>1, <2>3
<1>21. CASE ScanPage
  <2>1. UNCHANGED <<status, faults, retries>>
    BY <1>21 DEF ScanPage
  <2>2. PageEnd \in Nat /\ PageEnd <= Len(chain)
    BY <1>21, PageIsOnChain DEF ScanPage
  <2>3. PICK view : \/ /\ \E s \in {Refusal(b, view[b]) : b \in PageHits} \ {None} : Result(s)
                       /\ UNCHANGED checkpoint
                    \/ /\ checkpoint' = PageEnd
                       /\ job' = [job EXCEPT !.from = PageEnd + 1, !.pages = @ - 1]
    BY <1>21 DEF ScanPage
  <2>4. CASE checkpoint' = PageEnd /\ job' = [job EXCEPT !.from = PageEnd + 1, !.pages = @ - 1]
    <3>1. PageEnd + 1 \in Nat /\ job.pages - 1 \in Nat
      BY <1>2, <1>21, <2>2 DEF ScanPage, JobType
    <3>2. job' \in JobType
      BY <1>2, <2>4, <3>1, PageShape
    <3> QED BY <1>1, <1>4, <2>1, <2>2, <2>4, <3>2
  <2>5. CASE /\ \E s \in {Refusal(b, view[b]) : b \in PageHits} \ {None} : Result(s)
             /\ UNCHANGED checkpoint
    <3>1. job' \in JobType
      BY <1>5, <1>6, <2>5, RefusalStatus
    <3> QED BY <1>1, <1>4, <2>1, <2>5, <3>1
  <2> QED BY <2>3, <2>4, <2>5
<1>22. CASE Pass
  BY <1>7, <1>8, <1>9, <1>10, <1>17, <1>18, <1>19, <1>20, <1>21, <1>22 DEF Pass
<1> QED BY <1>11, <1>12, <1>13, <1>14, <1>15, <1>16, <1>22 DEF JobAction

\* A scan that has reached the head of a bounty that was over there has
\* everything.
LEMMA ScannedIsDone ==
  ASSUME Types, TerminalIsLast, ScanIsComplete, job.at = "SCAN", job.from > job.head, job.terminal
  PROVE  Done
<1> USE DEF Types
<1>1. /\ Len(chain) \in Nat /\ Len(chain) > 0 /\ Now = chain[Len(chain)]
      /\ job.head \in 1 .. Len(chain) /\ job.from = checkpoint + 1 /\ checkpoint \in Nat
      /\ chain[job.head].state \in Terminal /\ CheckpointCovers
  BY ChainFacts DEF ScanIsComplete, RecordTypes
<1>2. checkpoint >= job.head
  BY <1>1
<1>3. \A b \in 1 .. Len(chain) : job.head < b =>
        chain[b].log = <<>> /\ chain[b].state = chain[job.head].state
  BY <1>1 DEF TerminalIsLast
<1>4. Now.state \in Terminal
  BY <1>1, <1>3
<1>5. \A b \in 1 .. Len(chain) : RecoveryEvents(b) \subseteq events
  <2> TAKE b \in 1 .. Len(chain)
  <2>1. CASE b \in 1 .. checkpoint
    BY <1>1, <2>1 DEF CheckpointCovers, Recorded
  <2>2. CASE b \notin 1 .. checkpoint
    <3>1. chain[b].log = <<>>
      BY <1>1, <1>2, <1>3, <2>2
    <3> QED BY <3>1 DEF RecoveryEvents
  <2> QED BY <2>1, <2>2
<1> QED BY <1>4, <1>5 DEF Done, Recorded

\* The scan leaves nothing out, and COMPLETE is said when all is done.
LEMMA JobActionKeepsScan ==
  ASSUME IInv, JobAction
  PROVE  ScanIsComplete'
<1> USE DEF IInv, Types
<1>1. UNCHANGED chain /\ lag' \in 0 .. Lag /\ (UNCHANGED <<events, row>> \/ Records)
  BY JobActionRecords
<1>2. (\A n : Recorded(n) => Recorded(n)') /\ (Done => Done')
  BY <1>1, RecordsKept
<1>3. /\ Len(chain) \in Nat /\ checkpoint \in 0 .. Len(chain) /\ Recorded(checkpoint)
  BY ChainFacts DEF RecordTypes, ScanIsComplete, CheckpointCovers
<1>4. Terminal' = Terminal
  BY DEF Terminal
<1>5. \A c : Recorded(c)' /\ checkpoint' = c => CheckpointCovers'
  BY DEF CheckpointCovers, Recorded
<1>6. CheckpointCovers' \/ checkpoint' # checkpoint
  BY <1>2, <1>3, <1>5
<1>7. ASSUME CheckpointCovers', job'.at # "SCAN", job'.at = "END" => job'.result # "COMPLETE",
             status' # "COMPLETE" \/ UNCHANGED status
      PROVE  ScanIsComplete'
  BY <1>2, <1>7 DEF ScanIsComplete
<1>8. ASSUME UNCHANGED <<job, checkpoint>>, status' # "COMPLETE" \/ UNCHANGED status
      PROVE  ScanIsComplete'
  BY <1>1, <1>2, <1>4, <1>6, <1>8 DEF ScanIsComplete
<1>9. ASSUME NEW s \in Status, s # "COMPLETE", Result(s), UNCHANGED checkpoint,
             status' # "COMPLETE" \/ UNCHANGED status
      PROVE  ScanIsComplete'
  BY <1>6, <1>7, <1>9, JobShapes
<1>10. {"RETRYING", "NEEDS_REVIEW", "WAITING", "SCANNING", "CONFIRMING"} \subseteq Status
  BY DEF Status
<1>11. ASSUME UNCHANGED checkpoint, job' = Idle \/ Goto("SEND") \/ Goto("RECEIPT"), UNCHANGED status
       PROVE  ScanIsComplete'
  BY <1>6, <1>7, <1>11, JobShapes
<1>12. CASE End
  <2>1. /\ job.at = "END" /\ status' = job.result /\ job' = Idle
        /\ UNCHANGED <<chain, events, checkpoint>>
    BY <1>12 DEF End, netVars
  <2>2. status' = "COMPLETE" => Done'
    BY <1>2, <2>1 DEF ScanIsComplete
  <2>3. job'.at = "IDLE"
    BY <2>1, JobShapes
  <2> QED BY <1>6, <2>1, <2>2, <2>3 DEF ScanIsComplete
<1>13. CASE PausePass
  BY <1>9, <1>10, <1>13 DEF PausePass, dbVars
<1>14. CASE CheckRequest
  <2>1. (\E s \in {"WAITING", "NEEDS_REVIEW"} : Result(s)) \/ Goto("SEND")
    BY <1>14 DEF CheckRequest
  <2>2. UNCHANGED <<checkpoint, status>>
    BY <1>14 DEF CheckRequest
  <2> QED BY <1>9, <1>10, <1>11, <2>1, <2>2
<1>15. CASE SkipCheck \/ Send \/ Crash
  BY <1>11, <1>15 DEF SkipCheck, Send, Crash, dbVars
<1>16. CASE LoseResponse \/ Fail
  BY <1>9, <1>10, <1>16 DEF LoseResponse, Fail, dbVars
<1>17. CASE Grow \/ CatchUp \/ RetryRecovery
  BY <1>8, <1>17 DEF Grow, CatchUp, RetryRecovery, dbVars
<1>18. CASE \E b \in DOMAIN chain, v \in View : RecordReceipt(b, v)
  BY <1>8, <1>18 DEF RecordReceipt
<1>19. ASSUME NEW v \in View, Start(v) PROVE ScanIsComplete'
  <2>1. UNCHANGED <<checkpoint, status>>
    BY <1>19 DEF Start, dbVars
  <2>2. CASE checkpoint > v
    <3>1. Result("NEEDS_REVIEW")
      BY <1>19, <2>2 DEF Start, Result
    <3> QED BY <1>9, <1>10, <2>1, <3>1
  <2>3. CASE ~ (checkpoint > v)
    <3> DEFINE over == chain[v].state \in Terminal
    <3>1. job' = [Idle EXCEPT !.at = "SCAN", !.head = v, !.from = checkpoint + 1,
                              !.pages = MaxPages, !.terminal = over]
      BY <1>19, <2>3 DEF Start
    <3>2. v \in 1 .. Len(chain) /\ v \in Nat /\ checkpoint \in Nat /\ checkpoint + 1 \in Nat
          /\ MaxPages \in Nat /\ over \in BOOLEAN
      BY <1>3, ViewIsBlock, RecoveryAssumption
    <3>3. over => chain[v].state \in Terminal
      OBVIOUS
    <3> HIDE DEF over
    <3>4. job'.at = "SCAN" /\ job'.head = v /\ job'.from = checkpoint + 1 /\ job'.terminal = over
      BY <3>1, <3>2, StartShape
    <3>5. checkpoint + 1 <= v + 1
      BY <2>3, <3>2
    <3>6. (job.at = "SCAN" => /\ job.from = checkpoint + 1
                              /\ job.head \in 1 .. Len(chain) /\ job.from <= job.head + 1
                              /\ job.terminal => chain[job.head].state \in Terminal)'
      BY <1>1, <1>4, <2>1, <3>2, <3>3, <3>4, <3>5
    <3>7. CheckpointCovers' /\ (status' = "COMPLETE" => Done')
      BY <1>2, <1>6, <2>1 DEF ScanIsComplete
    <3> QED BY <3>4, <3>6, <3>7 DEF ScanIsComplete
  <2> QED BY <2>2, <2>3
<1>20. ASSUME NEW v \in View, Resume(v) PROVE ScanIsComplete'
  <2>1. UNCHANGED <<checkpoint, status>> /\ job' = [Idle EXCEPT !.at = "CHECK", !.due = DueRecovery(v)]
    BY <1>20 DEF Resume, dbVars
  <2>2. job'.at = "CHECK"
    BY <2>1, DueIsCall, CheckShape
  <2> QED BY <1>6, <1>7, <2>1, <2>2
<1>21. ASSUME NEW v \in View, Prepare(v) PROVE ScanIsComplete'
  <2>1. UNCHANGED checkpoint
    BY <1>21 DEF Prepare
  <2>2. \/ Result("NEEDS_REVIEW") /\ UNCHANGED status
        \/ status' = "PREPARED" /\ job' = [Idle EXCEPT !.at = "CHECK", !.due = DueRecovery(v)]
    BY <1>21 DEF Prepare
  <2>3. CASE status' = "PREPARED" /\ job' = [Idle EXCEPT !.at = "CHECK", !.due = DueRecovery(v)]
    <3>1. job'.at = "CHECK"
      BY <2>3, DueIsCall, CheckShape
    <3> QED BY <1>6, <1>7, <2>1, <2>3, <3>1
  <2>4. CASE Result("NEEDS_REVIEW") /\ UNCHANGED status
    BY <1>9, <1>10, <2>1, <2>4
  <2> QED BY <2>2, <2>3, <2>4
<1>22. ASSUME NEW v \in View, NEW w \in View, ReadReceipt(v, w) PROVE ScanIsComplete'
  <2>1. UNCHANGED <<checkpoint, status>>
    BY <1>22 DEF ReadReceipt
  <2>2. \/ \E s \in {"CONFIRMING", "RETRYING", "NEEDS_REVIEW", "WAITING"} : Result(s)
        \/ \E b : Refusal(b, w) # None /\ Result(Refusal(b, w))
    BY <1>22 DEF ReadReceipt
  <2>3. \E s \in {"CONFIRMING", "RETRYING", "NEEDS_REVIEW", "WAITING"} : Result(s)
    BY <2>2, RefusalStatus
  <2> QED BY <1>9, <1>10, <2>1, <2>3
<1>23. ASSUME NEW v \in View, Rest(v) PROVE ScanIsComplete'
  <2>1. /\ job.at = "SCAN" /\ job.from > job.head /\ Result(RestingStatus(v))
        /\ UNCHANGED <<checkpoint, status>>
    BY <1>23 DEF Rest, dbVars
  <2>2. CASE RestingStatus(v) # "COMPLETE"
    BY <1>9, <1>10, <2>1, <2>2 DEF RestingStatus
  <2>3. CASE RestingStatus(v) = "COMPLETE"
    <3>1. job.terminal
      BY <2>3 DEF RestingStatus
    <3>2. Done'
      BY <1>2, <2>1, <3>1, ScannedIsDone
    <3>3. job'.at = "END"
      BY <2>1, <2>3, JobShapes DEF Status
    <3> QED BY <1>6, <2>1, <3>2, <3>3 DEF ScanIsComplete
  <2> QED BY <2>2, <2>3
<1>24. CASE ScanPage
  <2>1. /\ job.at = "SCAN" /\ job.from <= job.head /\ job.pages > 0
        /\ UNCHANGED status
    BY <1>24 DEF ScanPage
  <2>2. /\ PageEnd \in Nat /\ job.from \in Nat /\ checkpoint \in Nat /\ job.from = checkpoint + 1
        /\ job.from <= PageEnd + 1 /\ PageEnd <= job.head /\ PageEnd <= Len(chain)
        /\ PageHits \subseteq 1 .. Len(chain)
    BY <2>1, PageIsOnChain
  <2>3. PICK view : \/ /\ \E s \in {Refusal(b, view[b]) : b \in PageHits} \ {None} : Result(s)
                       /\ UNCHANGED checkpoint
                    \/ /\ checkpoint' = PageEnd /\ ReconcileAll(PageHits, view)
                       /\ job' = [job EXCEPT !.from = PageEnd + 1, !.pages = @ - 1]
    BY <1>24 DEF ScanPage
  <2>4. CASE /\ \E s \in {Refusal(b, view[b]) : b \in PageHits} \ {None} : Result(s)
             /\ UNCHANGED checkpoint
    BY <1>9, <1>10, <2>1, <2>4, RefusalStatus
  <2>5. CASE /\ checkpoint' = PageEnd /\ ReconcileAll(PageHits, view)
             /\ job' = [job EXCEPT !.from = PageEnd + 1, !.pages = @ - 1]
    <3>1. job \in JobType /\ job.pages - 1 \in Nat /\ PageEnd + 1 \in Nat
      BY <2>1, <2>2 DEF JobTypes, JobType
    <3>2. job'.at = job.at /\ job'.head = job.head /\ job'.from = PageEnd + 1
          /\ job'.terminal = job.terminal
      BY <2>5, <3>1, PageShape
    <3>3. \A b \in PageHits : RecoveryEvents(b) \subseteq events'
      BY <1>1, <2>2, <2>5, ReconcileKeeps
    <3>4. \A b \in 1 .. checkpoint : RecoveryEvents(b) \subseteq events'
      <4>1. \A b : RecoveryEvents(b)' = RecoveryEvents(b)
        BY <1>1 DEF RecoveryEvents
      <4> QED BY <1>2, <1>3, <4>1 DEF Recorded
    <3>5. \A b \in 1 .. PageEnd : RecoveryEvents(b) \subseteq events'
      <4> TAKE b \in 1 .. PageEnd
      <4>1. CASE b \in 1 .. checkpoint
        BY <3>4, <4>1
      <4>2. CASE b \notin 1 .. checkpoint
        <5>1. b \in job.from .. PageEnd
          BY <2>2, <4>2
        <5>2. RecoveryEvents(b) = {} \/ b \in PageHits
          BY <5>1 DEF PageHits
        <5> QED BY <3>3, <5>2
      <4> QED BY <4>1, <4>2
    <3>6. CheckpointCovers'
      <4>1. PICK n : n = PageEnd
        OBVIOUS
      <4>2. \A b : RecoveryEvents(b)' = RecoveryEvents(b)
        BY <1>1 DEF RecoveryEvents
      <4>3. Recorded(n)'
        BY <3>5, <4>1, <4>2 DEF Recorded
      <4> QED BY <1>5, <2>5, <4>1, <4>3
    <3>7. (job.at = "SCAN" => /\ job.from = checkpoint + 1
                              /\ job.head \in 1 .. Len(chain) /\ job.from <= job.head + 1
                              /\ job.terminal => chain[job.head].state \in Terminal)'
      BY <1>1, <1>4, <2>1, <2>2, <2>5, <3>2 DEF ScanIsComplete
    <3>8. status' = "COMPLETE" => Done'
      BY <1>2, <2>1 DEF ScanIsComplete
    <3> QED BY <2>1, <3>2, <3>6, <3>7, <3>8 DEF ScanIsComplete
  <2> QED BY <2>3, <2>4, <2>5
<1>25. CASE Pass
  BY <1>12, <1>13, <1>14, <1>15, <1>20, <1>21, <1>22, <1>23, <1>24, <1>25 DEF Pass
<1> QED BY <1>15, <1>16, <1>17, <1>18, <1>19, <1>25 DEF JobAction

-----------------------------------------------------------------------------
(* The requests.                                                           *)

\* The next attempt of a call is new, and the earlier ones are not.
LEMMA NextAttemptIsNew ==
  ASSUME AttemptsInOrder, NEW call \in Call, Attempts(call) + 1 <= MaxAttempts
  PROVE  /\ request[[call |-> call, attempt |-> Attempts(call) + 1]] = "NONE"
         /\ \A m \in 1 .. Attempts(call) : request[[call |-> call, attempt |-> m]] # "NONE"
<1> DEFINE used(n) == request[[call |-> call, attempt |-> n]] # "NONE"
           S == {n \in 1 .. MaxAttempts : used(n)}
           a == Attempts(call)
<1>1. a = Cardinality(S)
  BY DEF Attempts
<1>2. a \in Nat /\ MaxAttempts \in Nat /\ a + 1 \in 1 .. MaxAttempts
  BY AttemptsType, RecoveryAssumption
<1>3. \A n \in 1 .. MaxAttempts : \A m \in 1 .. n : used(n) => used(m)
  BY DEF AttemptsInOrder
<1>4. S \in SUBSET (1 .. MaxAttempts) /\ \A n \in 1 .. MaxAttempts : n \in S <=> used(n)
  OBVIOUS
<1> HIDE DEF S, used, a
<1>5. IsFiniteSet(S)
  <2>1. IsFiniteSet(1 .. MaxAttempts)
    BY <1>2, FS_Interval, 1 \in Int, MaxAttempts \in Int, Zenon
  <2> QED BY <1>4, <2>1, FS_Subset, Zenon
<1>6. \A k \in Nat : Cardinality(1 .. k) = k /\ IsFiniteSet(1 .. k)
  <2> TAKE k \in Nat
  <2>1. IsFiniteSet(1 .. k) /\ Cardinality(1 .. k) = IF 1 > k THEN 0 ELSE k - 1 + 1
    BY FS_Interval, 1 \in Int, k \in Int, Zenon
  <2> QED BY <2>1
<1>7. ~ used(a + 1)
  <2> SUFFICES ASSUME used(a + 1) PROVE FALSE
    OBVIOUS
  <2>1. \A m \in 1 .. a + 1 : m \in S
    BY <1>2, <1>3, <1>4
  <2>2. 1 .. (a + 1) \in SUBSET S
    BY <2>1
  <2>3. Cardinality(1 .. (a + 1)) <= Cardinality(S)
    BY <1>5, <2>2, FS_Subset, Zenon
  <2>4. Cardinality(1 .. (a + 1)) = a + 1
    BY <1>2, <1>6
  <2> QED BY <1>1, <1>2, <2>3, <2>4
<1>8. \A m \in 1 .. a : used(m)
  <2> SUFFICES ASSUME NEW m \in 1 .. a, ~ used(m) PROVE FALSE
    OBVIOUS
  <2>1. m \in Nat /\ m - 1 \in Nat /\ m - 1 < a /\ m \in 1 .. MaxAttempts
    BY <1>2
  <2>2. \A n \in S : n \in 1 .. (m - 1)
    <3> TAKE n \in S
    <3>1. n \in 1 .. MaxAttempts /\ used(n)
      BY <1>4
    <3>2. ~ (m <= n)
      BY <1>3, <2>1, <3>1
    <3> QED BY <2>1, <3>1, <3>2
  <2>3. S \in SUBSET (1 .. (m - 1))
    BY <2>2
  <2>4. Cardinality(1 .. (m - 1)) = m - 1 /\ IsFiniteSet(1 .. (m - 1))
    BY <1>6, <2>1
  <2>5. Cardinality(S) <= Cardinality(1 .. (m - 1))
    BY <2>3, <2>4, FS_Subset, Zenon
  <2> QED BY <1>1, <1>2, <2>1, <2>4, <2>5
<1> QED BY <1>7, <1>8 DEF used, a

UnderWay == {"PREPARED", "SUBMITTED", "BROADCAST"}

\* A step that leaves the requests alone keeps what is said of them, if the
\* pass goes where its request is.
LEMMA RequestsStay ==
  ASSUME IInv, JobAction, UNCHANGED <<request, active, accepted>>,
         job'.at \in {"CHECK", "SEND", "RECEIPT"} => active # None,
         job'.at = "SEND" => request[active] = "SUBMITTED" /\ age' <= 1,
         job'.at = "RECEIPT" => request[active] = "BROADCAST"
  PROVE  RequestInv'
<1> USE DEF IInv, Types
<1>1. OneActive'
  <2>1. Request' = Request
    BY DEF Request, Call
  <2> QED BY <2>1 DEF RequestInv, OneActive
<1>2. AttemptsInOrder' /\ SentIsSubmitted'
  BY DEF RequestInv, AttemptsInOrder, SentIsSubmitted, Request, Call
<1>3. \A r \in Request : TruthOf(r)'
  BY JobActionRecords, RecordsKept, TruthGrows DEF RequestInv
<1>4. RequestsTellTheTruth'
  <2>1. Request' = Request
    BY DEF Request, Call
  <2> QED BY <1>3, <2>1 DEF RequestsTellTheTruth, TruthOf
<1> QED BY <1>1, <1>2, <1>4 DEF RequestInv

\* A step that writes one request, its new state not among those before it
\* was submitted or with no transaction made, keeps what is said of all.
LEMMA OneRequestWritten ==
  ASSUME IInv, JobAction, NEW r \in Request, NEW s \in RequestState, s # "NONE",
         request' \in [Request -> RequestState], request'[r] = s,
         \A q \in Request : q # r => request'[q] = request[q] /\ accepted'[q] = accepted[q],
         \A q \in Request : q # r => request[q] \notin UnderWay,
         s \in UnderWay <=> active' = r, active' \in {r, None},
         s \in {"PREPARED", "CANCELLED"} => accepted'[r] = 0,
         TruthOf(r)',
         job'.at \in {"CHECK", "SEND", "RECEIPT"} => active' # None,
         job'.at = "SEND" => s = "SUBMITTED" /\ age' <= 1,
         job'.at = "RECEIPT" => s = "BROADCAST",
         request[r] # "NONE" \/
           \A m \in 1 .. r.attempt : m # r.attempt => request[[call |-> r.call, attempt |-> m]] # "NONE"
  PROVE  RequestInv'
<1> USE DEF IInv, Types
<1>0. Request' = Request /\ Call' = Call /\ None \notin Request
  BY RecoveryAssumption DEF Request, Call
<1>1. OneActive'
  <2>1. \A q \in Request : request'[q] \in UnderWay <=> q = active'
    <3> TAKE q \in Request
    <3>1. CASE q = r
      BY <1>0, <3>1
    <3>2. CASE q # r
      BY <1>0, <3>2
    <3> QED BY <3>1, <3>2
  <2>2. job'.at = "SEND" => request'[active'] = "SUBMITTED" /\ age' <= 1
    BY DEF UnderWay
  <2>3. job'.at = "RECEIPT" => request'[active'] = "BROADCAST"
    BY DEF UnderWay
  <2> QED BY <1>0, <2>1, <2>2, <2>3 DEF OneActive, UnderWay
<1>2. AttemptsInOrder'
  <2> SUFFICES ASSUME NEW call \in Call, NEW n \in 1 .. MaxAttempts, NEW m \in 1 .. n,
                      request'[[call |-> call, attempt |-> n]] # "NONE"
               PROVE  request'[[call |-> call, attempt |-> m]] # "NONE"
    BY <1>0 DEF AttemptsInOrder
  <2>1. MaxAttempts \in Nat
    BY RecoveryAssumption
  <2>2. m \in 1 .. MaxAttempts
    BY <2>1
  <2> DEFINE p == [call |-> call, attempt |-> n]
             q == [call |-> call, attempt |-> m]
  <2>3. p \in Request /\ q \in Request
    BY <2>2 DEF Request
  <2>4. CASE q = r
    BY <2>4
  <2>5. CASE q # r /\ p # r
    <3>1. request[p] # "NONE"
      BY <2>3, <2>5
    <3>2. request[q] # "NONE"
      BY <3>1 DEF RequestInv, AttemptsInOrder
    <3> QED BY <2>3, <2>5, <3>2
  <2>6. CASE q # r /\ p = r
    <3>1. r.call = call /\ r.attempt = n /\ m # n
      BY <2>6
    <3>2. request[q] # "NONE"
      <4>1. CASE request[r] # "NONE"
        BY <2>6, <4>1 DEF RequestInv, AttemptsInOrder
      <4>2. CASE \A k \in 1 .. r.attempt : k # r.attempt => request[[call |-> r.call, attempt |-> k]] # "NONE"
        BY <3>1, <4>2
      <4> QED BY <4>1, <4>2
    <3> QED BY <2>3, <2>6, <3>2
  <2> QED BY <2>4, <2>5, <2>6
<1>3. SentIsSubmitted'
  BY <1>0 DEF RequestInv, SentIsSubmitted
<1>4. \A q \in Request : TruthOf(q)'
  <2> TAKE q \in Request
  <2>1. CASE q # r
    BY <2>1, JobActionRecords, RecordsKept, TruthGrows DEF RequestInv
  <2> QED BY <2>1
<1>5. RequestsTellTheTruth'
  BY <1>0, <1>4 DEF RequestsTellTheTruth, TruthOf
<1> QED BY <1>1, <1>2, <1>3, <1>5 DEF RequestInv

\* The actions that leave the requests alone.
LEMMA QuietSteps ==
  ASSUME IInv, JobAction,
         \/ End \/ PausePass \/ SkipCheck \/ Crash \/ Fail \/ RetryRecovery \/ ScanPage \/ CatchUp \/ Grow
         \/ \E v \in View : Rest(v) \/ Resume(v) \/ Start(v)
         \/ \E b \in DOMAIN chain, v \in View : RecordReceipt(b, v)
  PROVE  RequestInv'
<1> USE DEF IInv, Types
<1>0. OneActive /\ age \in 0 .. 2 /\ active \in Request \cup {None}
  BY DEF RequestInv, RequestTypes
<1>1. ASSUME UNCHANGED <<request, active, accepted>>, job'.at \notin {"CHECK", "SEND", "RECEIPT"}
      PROVE  RequestInv'
  BY <1>1, RequestsStay
<1>2. ASSUME UNCHANGED <<request, active, accepted, age, job>> PROVE RequestInv'
  BY <1>0, <1>2, RequestsStay DEF OneActive
<1>3. CASE End \/ Crash
  BY <1>1, <1>3, JobShapes DEF End, Crash, netVars, dbVars
<1>4. ASSUME UNCHANGED <<request, active, accepted>>, NEW s \in Status, Result(s) PROVE RequestInv'
  BY <1>1, <1>4, JobShapes
<1>5. {"SCANNING", "RETRYING", "NEEDS_REVIEW"} \subseteq Status
  BY DEF Status
<1>6. CASE PausePass \/ Fail
  BY <1>4, <1>5, <1>6 DEF PausePass, Fail, netVars, dbVars
<1>7. CASE SkipCheck
  <2>1. UNCHANGED <<request, active, accepted>> /\ request[active] = "BROADCAST" /\ active # None
        /\ Goto("RECEIPT")
    BY <1>0, <1>7 DEF SkipCheck, netVars, dbVars, OneActive
  <2> QED BY <2>1, JobShapes, RequestsStay
<1>8. CASE RetryRecovery \/ CatchUp
  BY <1>2, <1>8 DEF RetryRecovery, CatchUp, netVars, dbVars
<1>9. CASE Grow
  <2>1. UNCHANGED <<request, active, accepted, job>> /\ age < 2 /\ age' = age + 1
        /\ (age = 1 => job.at # "SEND")
    BY <1>9 DEF Grow, netVars, dbVars
  <2>2. job.at = "SEND" => age' <= 1
    BY <1>0, <2>1
  <2> QED BY <1>0, <2>1, <2>2, RequestsStay DEF OneActive
<1>10. CASE \E b \in DOMAIN chain, v \in View : RecordReceipt(b, v)
  BY <1>2, <1>10 DEF RecordReceipt, netVars
<1>11. ASSUME NEW v \in View, Rest(v) PROVE RequestInv'
  <2>1. RestingStatus(v) \in Status
    BY DEF RestingStatus, Status
  <2> QED BY <1>4, <1>11, <2>1 DEF Rest, netVars, dbVars
<1>12. ASSUME NEW v \in View, Resume(v) PROVE RequestInv'
  <2>1. UNCHANGED <<request, active, accepted>> /\ active # None
        /\ job' = [Idle EXCEPT !.at = "CHECK", !.due = DueRecovery(v)]
    BY <1>12 DEF Resume, netVars, dbVars
  <2>2. job'.at = "CHECK"
    BY <2>1, DueIsCall, CheckShape
  <2> QED BY <2>1, <2>2, RequestsStay
<1>13. ASSUME NEW v \in View, Start(v) PROVE RequestInv'
  <2>1. UNCHANGED <<request, active, accepted>>
    BY <1>13 DEF Start, netVars, dbVars
  <2>2. CASE checkpoint > v
    <3>1. Result("NEEDS_REVIEW")
      BY <1>13, <2>2 DEF Start, Result
    <3> QED BY <1>4, <1>5, <2>1, <3>1
  <2>3. CASE ~ (checkpoint > v)
    <3> DEFINE over == chain[v].state \in Terminal
    <3>1. job' = [Idle EXCEPT !.at = "SCAN", !.head = v, !.from = checkpoint + 1,
                              !.pages = MaxPages, !.terminal = over]
      BY <1>13, <2>3 DEF Start
    <3>2. v \in Nat /\ checkpoint + 1 \in Nat /\ MaxPages \in Nat /\ over \in BOOLEAN
      BY ChainFacts, ViewIsBlock, RecoveryAssumption DEF RecordTypes
    <3> HIDE DEF over
    <3>3. job'.at = "SCAN"
      BY <3>1, <3>2, StartShape
    <3> QED BY <1>1, <2>1, <3>3
  <2> QED BY <2>2, <2>3
<1>14. CASE ScanPage
  <2>1. UNCHANGED <<request, active, accepted>> /\ job.at = "SCAN" /\ job.from <= job.head /\ job.pages > 0
    BY <1>14 DEF ScanPage, netVars
  <2>2. PageEnd \in Nat
    BY <2>1, PageIsOnChain
  <2>3. PICK view : \/ \E s \in {Refusal(b, view[b]) : b \in PageHits} \ {None} : Result(s)
                    \/ job' = [job EXCEPT !.from = PageEnd + 1, !.pages = @ - 1]
    BY <1>14 DEF ScanPage
  <2>4. CASE \E s \in {Refusal(b, view[b]) : b \in PageHits} \ {None} : Result(s)
    BY <1>4, <1>5, <2>1, <2>4, RefusalStatus
  <2>5. CASE job' = [job EXCEPT !.from = PageEnd + 1, !.pages = @ - 1]
    <3>1. job \in JobType /\ job.pages - 1 \in Nat /\ PageEnd + 1 \in Nat
      BY <2>1, <2>2 DEF JobTypes, JobType
    <3>2. job'.at = "SCAN"
      BY <2>1, <2>5, <3>1, PageShape
    <3> QED BY <1>1, <2>1, <3>2
  <2> QED BY <2>3, <2>4, <2>5
<1> QED BY <1>3, <1>6, <1>7, <1>8, <1>9, <1>10, <1>11, <1>12, <1>13, <1>14

\* The end of the active request.
LEMMA FinishKeepsRequests ==
  ASSUME IInv, JobAction, active # None, NEW r, r = active, NEW s \in RequestState \ ({"NONE"} \cup UnderWay),
         Finish(s), UNCHANGED accepted, s = "CANCELLED" => accepted[r] = 0,
         TruthOf(r)', job'.at = "END"
  PROVE  RequestInv'
<1> USE DEF IInv, Types
<1>1. /\ request' \in [Request -> RequestState] /\ active' = None /\ r \in Request /\ request'[r] = s
      /\ \A q \in Request : q # r => request'[q] = request[q]
  BY FinishTypes
<1>2. \A q \in Request : q # r => request[q] \notin UnderWay
  BY DEF RequestInv, OneActive, UnderWay
<1>3. request[r] # "NONE"
  BY <1>1 DEF RequestInv, OneActive
<1>4. s \in RequestState /\ s # "NONE" /\ s \notin UnderWay /\ None # r
  BY <1>1, RecoveryAssumption
<1>5. s \in UnderWay <=> active' = r
  BY <1>1, <1>4
<1>6. s \in {"PREPARED", "CANCELLED"} => accepted'[r] = 0
  BY <1>4 DEF UnderWay
<1> QED BY <1>1, <1>2, <1>3, <1>4, <1>5, <1>6, OneRequestWritten

\* Preparing, sending and giving up a request.
LEMMA JobActionKeepsRequests ==
  ASSUME IInv, JobAction
  PROVE  RequestInv'
<1> USE DEF IInv, Types
<1>0. /\ OneActive /\ age \in 0 .. 2 /\ active \in Request \cup {None}
      /\ accepted \in [Request -> {0, 1}] /\ request \in [Request -> RequestState]
  BY DEF RequestInv, RequestTypes
<1>1. PICK r : r = active
  OBVIOUS
<1>2. \A q \in Request : q # r => request[q] \notin UnderWay
  BY <1>0, <1>1 DEF OneActive, UnderWay
<1>3. UNCHANGED chain /\ Grown /\ ChainTypes'
  BY JobActionRecords, RecordsKept
<1>4. \A b : RecoveryEvents(b)' = RecoveryEvents(b)
  BY <1>3 DEF RecoveryEvents
<1>5. \A q : Happened(q)' = Happened(q)
  BY <1>3 DEF Happened
<1>6. \A call : Completed(call) => Completed(call)'
  BY <1>3, GrownHappened
<1>7. None \notin Request
  BY RecoveryAssumption
<1>8. \A s \in {"NEEDS_REVIEW", "WAITING", "RETRYING", "CONFIRMING"} : Result(s) => job'.at = "END"
  BY JobShapes DEF Status
<1>9. CASE CheckRequest
  <2>1. /\ job.at = "CHECK" /\ request[r] \in {"PREPARED", "SUBMITTED"} /\ UNCHANGED accepted
        /\ active # None /\ r \in Request
    BY <1>0, <1>1, <1>9 DEF CheckRequest, netVars, OneActive
  <2>2. CASE Completed(r.call) /\ Finish("RECONCILED") /\ Result("WAITING")
    <3>1. request'[r] = "RECONCILED" /\ accepted'[r] <= 1
      BY <1>0, <1>1, <2>1, <2>2, FinishTypes DEF RequestState
    <3>2. TruthOf(r)'
      BY <1>6, <2>2, <3>1 DEF TruthOf
    <3> QED BY <1>1, <1>8, <2>1, <2>2, <3>2, FinishKeepsRequests DEF RequestState, UnderWay
  <2>3. CASE Result("NEEDS_REVIEW") /\ UNCHANGED <<request, active, age>>
    BY <1>8, <2>1, <2>3, RequestsStay
  <2>4. CASE MayCancel /\ Finish("CANCELLED") /\ Result("WAITING")
    <3>1. accepted[r] = 0
      BY <1>1, <2>1, <2>4 DEF MayCancel, RequestInv, SentIsSubmitted
    <3>2. request'[r] = "CANCELLED" /\ accepted'[r] = 0
      BY <1>1, <2>1, <2>4, <3>1, FinishTypes DEF RequestState
    <3>3. TruthOf(r)'
      BY <3>2 DEF TruthOf
    <3> QED BY <1>1, <1>8, <2>1, <2>4, <3>1, <3>3, FinishKeepsRequests DEF RequestState, UnderWay
  <2>5. CASE age = 0 /\ request' = [request EXCEPT ![active] = "SUBMITTED"] /\ Goto("SEND")
             /\ UNCHANGED <<active, age>>
    <3>1. /\ request' \in [Request -> RequestState] /\ request'[r] = "SUBMITTED"
          /\ \A q \in Request : q # r => request'[q] = request[q]
      BY <1>1, <2>1, <2>5, Updated DEF RequestState
    <3>2. accepted'[r] <= 1
      BY <1>0, <2>1
    <3>3. TruthOf(r)'
      BY <3>1, <3>2 DEF TruthOf
    <3>4. job'.at = "SEND" /\ active' = r /\ age' <= 1
      BY <1>1, <2>5, JobShapes
    <3>5. "SUBMITTED" \in RequestState /\ "SUBMITTED" \in UnderWay
      BY DEF RequestState, UnderWay
    <3> QED BY <1>1, <1>2, <2>1, <3>1, <3>3, <3>4, <3>5, OneRequestWritten
  <2> QED BY <1>1, <1>9, <2>2, <2>3, <2>4, <2>5 DEF CheckRequest
<1>10. CASE Send
  <2>1. /\ Accept(r) /\ request' = [request EXCEPT ![r] = "BROADCAST"] /\ Goto("RECEIPT") /\ age' = 0
        /\ active' = r /\ active # None /\ r \in Request /\ age <= 1 /\ request[r] = "SUBMITTED"
    BY <1>0, <1>1, <1>10 DEF Send, OneActive
  <2>2. /\ request' \in [Request -> RequestState] /\ request'[r] = "BROADCAST"
        /\ \A q \in Request : q # r => request'[q] = request[q]
    BY <2>1, Updated DEF RequestState
  <2>3. accepted' \in [Request -> {0, 1}] /\ \A q \in Request : q # r => accepted'[q] = accepted[q]
    BY <2>1, AcceptOnce
  <2>4. accepted'[r] <= 1
    BY <2>1, <2>3
  <2>5. TruthOf(r)'
    BY <2>2, <2>4 DEF TruthOf
  <2>6. job'.at = "RECEIPT"
    BY <2>1, JobShapes
  <2>7. "BROADCAST" \in RequestState /\ "BROADCAST" \in UnderWay
    BY DEF RequestState, UnderWay
  <2> QED BY <1>1, <1>2, <2>1, <2>2, <2>3, <2>5, <2>6, <2>7, OneRequestWritten
<1>11. CASE LoseResponse
  <2>1. /\ Accept(r) /\ UNCHANGED <<request, active, age>> /\ Result("RETRYING")
        /\ active # None /\ r \in Request /\ age <= 1 /\ request[r] = "SUBMITTED"
    BY <1>0, <1>1, <1>11 DEF LoseResponse, dbVars, OneActive
  <2>2. accepted' \in [Request -> {0, 1}] /\ \A q \in Request : q # r => accepted'[q] = accepted[q]
    BY <2>1, AcceptOnce
  <2>3. accepted'[r] <= 1
    BY <2>1, <2>2
  <2>4. TruthOf(r)'
    BY <2>1, <2>3 DEF TruthOf
  <2>5. job'.at = "END"
    BY <1>8, <2>1
  <2>6. "SUBMITTED" \in RequestState /\ "SUBMITTED" \in UnderWay
    BY DEF RequestState, UnderWay
  <2> QED BY <1>0, <1>1, <1>2, <2>1, <2>2, <2>4, <2>5, <2>6, OneRequestWritten
<1>12. ASSUME NEW v \in View, Prepare(v) PROVE RequestInv'
  <2> DEFINE call == DueRecovery(v)
             n == Attempts(call) + 1
             new == [call |-> call, attempt |-> n]
  <2>1. active = None /\ call # None /\ UNCHANGED accepted
    BY <1>12 DEF Prepare, netVars
  <2>2. CASE n > MaxAttempts
    <3>1. Result("NEEDS_REVIEW") /\ UNCHANGED <<request, active, age>>
      BY <1>12, <2>2 DEF Prepare
    <3> QED BY <1>8, <2>1, <3>1, RequestsStay
  <2>3. CASE ~ (n > MaxAttempts)
    <3>1. /\ request' = [request EXCEPT ![new] = "PREPARED"] /\ active' = new
          /\ job' = [Idle EXCEPT !.at = "CHECK", !.due = call]
      BY <1>12, <2>3 DEF Prepare
    <3>2. n <= MaxAttempts
      BY <2>3, AttemptsType, RecoveryAssumption
    <3>3. new \in Request /\ call \in Call /\ n \in 1 .. MaxAttempts
      BY <2>1, <3>2, PrepareTypes
    <3>4. /\ request[new] = "NONE"
          /\ \A m \in 1 .. Attempts(call) : request[[call |-> call, attempt |-> m]] # "NONE"
      BY <3>2, <3>3, NextAttemptIsNew DEF RequestInv
    <3>5. PICK q : q = new
      OBVIOUS
    <3>6. q.call = call /\ q.attempt = n
      BY <3>5
    <3>7. job'.at = "CHECK"
      BY <3>1, <3>3, CheckShape
    <3>8. \A m \in 1 .. q.attempt : m # q.attempt => request[[call |-> q.call, attempt |-> m]] # "NONE"
      <4>1. Attempts(call) \in Nat
        BY AttemptsType
      <4> QED BY <3>4, <3>6, <4>1
    <3> HIDE DEF new, n, call
    <3>9. /\ request' \in [Request -> RequestState] /\ request'[q] = "PREPARED"
          /\ \A p \in Request : p # q => request'[p] = request[p]
      BY <3>1, <3>3, <3>5, Updated DEF RequestState
    <3>10. accepted'[q] = 0
      BY <2>1, <3>3, <3>4, <3>5 DEF RequestInv, SentIsSubmitted
    <3>11. TruthOf(q)'
      BY <3>9, <3>10 DEF TruthOf
    <3>12. "PREPARED" \in RequestState /\ "PREPARED" \in UnderWay
      BY DEF RequestState, UnderWay
    <3>13. \A p \in Request : p # q => request[p] \notin UnderWay /\ accepted'[p] = accepted[p]
      BY <1>1, <1>2, <1>7, <2>1
    <3>14. active' = q /\ q \in Request /\ q # None
      BY <1>7, <3>1, <3>3, <3>5
    <3> QED BY <3>7, <3>8, <3>9, <3>10, <3>11, <3>12, <3>13, <3>14, OneRequestWritten
  <2> QED BY <2>2, <2>3
<1>13. ASSUME NEW v \in View, NEW w \in View, ReadReceipt(v, w) PROVE RequestInv'
  <2>1. job.at = "RECEIPT" /\ UNCHANGED accepted /\ active # None /\ r \in Request
    BY <1>0, <1>1, <1>13 DEF ReadReceipt, netVars, OneActive
  <2>2. accepted'[r] <= 1
    BY <1>0, <2>1
  <2>3. ASSUME NEW s \in {"CONFIRMING", "NEEDS_REVIEW", "RETRYING"}, Result(s), UNCHANGED <<request, active, age>>
        PROVE  RequestInv'
    BY <1>8, <2>1, <2>3, RequestsStay
  <2> DEFINE found == {b \in Happened(r) : b <= v}
             b == CHOOSE x \in found : TRUE
  <2>4. CASE found = {}
    BY <1>1, <1>13, <2>3, <2>4 DEF ReadReceipt
  <2>5. CASE found # {}
    <3>1. b \in Happened(r) /\ b \in 1 .. Len(chain)
      BY <2>5, ChainFacts DEF Happened
    <3>2. \/ chain[b].log = <<>> /\ Finish("FAILED") /\ Result("RETRYING")
          \/ Result("NEEDS_REVIEW") /\ UNCHANGED <<request, active, age>>
          \/ Refusal(b, w) # None /\ Result(Refusal(b, w)) /\ UNCHANGED <<request, active, age>>
          \/ /\ \E i \in DOMAIN chain[b].log : Proves(chain[b].log[i], r.call)
             /\ ReconcileAll({b}, [x \in {b} |-> w]) /\ Finish("CONFIRMED") /\ Result("WAITING")
      BY <1>1, <1>13, <2>5 DEF ReadReceipt
    <3>3. PICK c : c = b
      OBVIOUS
    <3> HIDE DEF b, found
    <3>4. CASE chain[b].log = <<>> /\ Finish("FAILED") /\ Result("RETRYING")
      <4>1. request'[r] = "FAILED"
        BY <1>1, <2>1, <3>4, FinishTypes DEF RequestState
      <4>2. c \in Happened(r)' /\ chain'[c].log = <<>>
        BY <1>3, <1>5, <3>1, <3>3, <3>4
      <4>3. TruthOf(r)'
        BY <2>2, <4>1, <4>2 DEF TruthOf
      <4> QED BY <1>1, <1>8, <2>1, <3>4, <4>3, FinishKeepsRequests DEF RequestState, UnderWay
    <3>5. CASE /\ \E i \in DOMAIN chain[b].log : Proves(chain[b].log[i], r.call)
               /\ ReconcileAll({b}, [x \in {b} |-> w]) /\ Finish("CONFIRMED") /\ Result("WAITING")
      <4>1. request'[r] = "CONFIRMED"
        BY <1>1, <2>1, <3>5, FinishTypes DEF RequestState
      <4>2. c \in Happened(r)'
        BY <1>5, <3>1, <3>3
      <4>3. RecoveryEvents(c) \subseteq events'
        BY <1>3, <3>1, <3>3, <3>5, ReconcileKeeps
      <4>4. PICK i \in DOMAIN chain[c].log : Proves(chain[c].log[i], r.call)
        BY <3>3, <3>5
      <4>5. <<c, i>> \in events' /\ LogOf(<<c, i>>) = chain[c].log[i]
        BY <4>3, <4>4 DEF RecoveryEvents, LogOf
      <4>6. Completed(r.call)'
        <5>1. LogOf(<<c, i>>)' = chain[c].log[i]
          BY <1>3 DEF LogOf
        <5>2. Proves(LogOf(<<c, i>>)', r.call)
          BY <4>4, <5>1
        <5>3. \E e \in events' : Proves(LogOf(e)', r.call)
          BY <4>5, <5>2
        <5> QED BY <5>3 DEF Completed, Proves, Refunded, Expired
      <4>7. TruthOf(r)'
        BY <1>4, <2>2, <4>1, <4>2, <4>3, <4>6 DEF TruthOf
      <4> QED BY <1>1, <1>8, <2>1, <3>5, <4>7, FinishKeepsRequests DEF RequestState, UnderWay
    <3> QED BY <2>3, <3>2, <3>4, <3>5, RefusalStatus
  <2> QED BY <2>4, <2>5
<1>14. CASE Pass
  BY <1>9, <1>10, <1>12, <1>13, <1>14, QuietSteps DEF Pass
<1> QED BY <1>11, <1>14, QuietSteps DEF JobAction

-----------------------------------------------------------------------------
(* The invariant holds.                                                    *)

\* In the beginning there is the funding and nothing else.
LEMMA InitHolds == Init => IInv
<1> SUFFICES ASSUME Init PROVE IInv
  OBVIOUS
<1> DEFINE funding == Block(0, "FUNDED", None, 0, None, <<>>)
<1>1. chain = <<funding>>
  BY DEF Init
<1>2. funding \in BlockType /\ funding.log = <<>> /\ funding.state = "FUNDED"
  BY DEF Block, BlockType, BlockRecord, State
<1> HIDE DEF funding
<1>3. chain \in Seq(BlockType) /\ Len(chain) = 1 /\ chain[1] = funding
  BY <1>1, <1>2
<1>4. None \notin Request /\ None \notin Status
  BY RecoveryAssumption
<1>5. ChainTypes
  BY <1>3, RecoveryAssumption DEF Init, ChainTypes
<1>6. RequestTypes
  <2>1. mempool \in Seq(Request) /\ request \in [Request -> RequestState]
        /\ accepted \in [Request -> {0, 1}]
    BY DEF Init, RequestState
  <2> QED BY <2>1 DEF Init, RequestTypes
<1>7. JobTypes
  BY JobShapes, RecoveryAssumption DEF Init, JobTypes, Status
<1>8. RecordTypes
  BY <1>3 DEF Init, RecordTypes, Event
<1>9. TerminalIsLast
  <2>1. \A b \in 1 .. Len(chain) : chain[b].state = "FUNDED" /\ Len(chain[b].log) = 0 /\ b = 1
    BY <1>2, <1>3
  <2> QED BY <1>3, <2>1 DEF TerminalIsLast, Terminal
<1>10. RowFollows
  BY DEF Init, RowFollows
<1>11. ScanIsComplete
  BY JobShapes DEF Init, ScanIsComplete, CheckpointCovers, Recorded
<1>12. RequestInv
  <2>1. \A r \in Request : request[r] = "NONE" /\ accepted[r] = 0 /\ r # active
    BY <1>4 DEF Init
  <2>2. OneActive
    BY <2>1, JobShapes DEF Init, OneActive
  <2>3. AttemptsInOrder
    <3>1. MaxAttempts \in Nat
      BY RecoveryAssumption
    <3>2. \A call \in Call : \A n \in 1 .. MaxAttempts : [call |-> call, attempt |-> n] \in Request
      BY DEF Request
    <3> QED BY <2>1, <3>2 DEF AttemptsInOrder
  <2>4. SentIsSubmitted /\ RequestsTellTheTruth
    BY <2>1 DEF SentIsSubmitted, RequestsTellTheTruth
  <2> QED BY <2>2, <2>3, <2>4 DEF RequestInv
<1> QED BY <1>5, <1>6, <1>7, <1>8, <1>9, <1>10, <1>11, <1>12 DEF IInv, Types

\* A step of a pass, of the network or of the API keeps the invariant.
LEMMA JobActionKeeps ==
  ASSUME IInv, JobAction
  PROVE  IInv'
<1> USE DEF IInv, Types
<1>1. UNCHANGED chain
  BY JobActionRecords
<1>2. /\ ChainTypes' /\ TerminalIsLast' /\ RowFollows'
      /\ row' \in [state : {"FUNDED", "REFUNDED"}, last : Event]
      /\ (\A e \in events : \E b \in 1 .. Len(chain) : e \in RecoveryEvents(b))'
  BY JobActionRecords, RecordsKept
<1>3. RequestTypes'
  BY JobActionKeepsRequestTypes DEF RequestInv
<1>4. JobTypes' /\ checkpoint' \in 0 .. Len(chain)
  BY JobActionKeepsJobTypes
<1>5. RecordTypes'
  BY <1>1, <1>2, <1>4 DEF RecordTypes, Event
<1>6. ScanIsComplete'
  BY JobActionKeepsScan
<1>7. RequestInv'
  BY JobActionKeepsRequests
<1> QED BY <1>2, <1>3, <1>4, <1>5, <1>6, <1>7

\* A step that changes nothing keeps it.
LEMMA StutterKeeps ==
  ASSUME IInv, UNCHANGED vars
  PROVE  IInv'
<1>1. /\ UNCHANGED <<chain, request, active, age, status, checkpoint, events, row>>
      /\ UNCHANGED <<job, accepted, mempool, lag, faults, retries>>
  BY DEF vars, dbVars, netVars
<1>2. Types'
  BY <1>1 DEF IInv, Types, ChainTypes, RequestTypes, JobTypes, RecordTypes, RecoveryEvents
<1>3. TerminalIsLast' /\ RowFollows'
  BY <1>1 DEF IInv, TerminalIsLast, RowFollows, RowOf, LogOf
<1>4. ScanIsComplete'
  BY <1>1 DEF IInv, ScanIsComplete, CheckpointCovers, Done, Recorded, RecoveryEvents, Now
<1>5. OneActive' /\ AttemptsInOrder' /\ SentIsSubmitted'
  BY <1>1 DEF IInv, RequestInv, OneActive, AttemptsInOrder, SentIsSubmitted
<1>6. RequestsTellTheTruth'
  BY <1>1 DEF IInv, RequestInv, RequestsTellTheTruth, Happened, RecoveryEvents, Completed,
     Proves, LogOf, Refunded, Expired
<1> QED BY <1>2, <1>3, <1>4, <1>5, <1>6 DEF IInv, RequestInv

\* The invariant is inductive.
LEMMA Inductive == Spec => []IInv
<1>1. IInv /\ [Next]_vars => IInv'
  <2> SUFFICES ASSUME IInv, [Next]_vars PROVE IInv'
    OBVIOUS
  <2>1. CASE UNCHANGED vars
    BY <2>1, StutterKeeps
  <2>2. CASE Next
    <3>1. ChainAction \/ JobAction
      BY <2>2 DEF Next, ChainAction, JobAction
    <3> QED BY <3>1, ChainActionKeeps, JobActionKeeps
  <2> QED BY <2>1, <2>2
<1> QED BY InitHolds, <1>1, PTL DEF Spec

-----------------------------------------------------------------------------
(* What follows, whatever the constants.                                   *)

\* Every variable of the recovery keeps its type; one request at most is under
\* way, it is the active one, and a pass that works on it has one.
THEOREM TypesHold == Spec => []TypeOK
<1>1. IInv => TypeOK
  <2> SUFFICES ASSUME IInv PROVE TypeOK
    OBVIOUS
  <2> USE DEF IInv, Types
  <2>1. DOMAIN chain = 1 .. Len(chain) /\ \A i \in 1 .. Len(chain) : chain[i].state \in State
    BY ChainFacts, BlockFacts
  <2>2. events \subseteq UNION {RecoveryEvents(b) : b \in DOMAIN chain}
    BY <2>1 DEF RecordTypes
  <2>3. job.at \in {"IDLE", "SCAN", "CHECK", "SEND", "RECEIPT", "END"}
    BY DEF JobTypes, JobType
  <2>4. row.state \in {"FUNDED", "REFUNDED"}
    BY DEF RecordTypes
  <2> QED BY <2>1, <2>2, <2>3, <2>4
       DEF TypeOK, State, ChainTypes, RequestTypes, JobTypes, RecordTypes, RequestInv, OneActive
<1> QED BY <1>1, Inductive, PTL

\* The checkpoint never passes an expiry or a refund that is not recorded,
\* whatever crashes, refusals and nodes that are behind the scan meets.
THEOREM CheckpointIsCovered == Spec => []CheckpointCovers
<1>1. IInv => CheckpointCovers
  BY DEF IInv, ScanIsComplete
<1> QED BY <1>1, Inductive, PTL

\* A recovery that says COMPLETE has recorded every expiry and refund, and its
\* row shows the refund if there was one.
THEOREM CompletionHolds == Spec => []CompleteMeansRecorded
<1>1. IInv => CompleteMeansRecorded
  <2> SUFFICES ASSUME IInv, status = "COMPLETE"
               PROVE  /\ Now.state \in Terminal /\ Recorded(Len(chain))
                      /\ Now.state = "REFUNDED" => row.state = "REFUNDED"
    BY DEF CompleteMeansRecorded
  <2> USE DEF IInv, Types
  <2>1. Done
    BY DEF ScanIsComplete
  <2>2. ASSUME Now.state = "REFUNDED" PROVE row.state = "REFUNDED"
    <3>1. Len(chain) \in 1 .. Len(chain) /\ chain[Len(chain)].state = "REFUNDED"
      BY <2>2, ChainFacts
    <3>2. PICK d \in 1 .. Len(chain) : \E i \in 1 .. Len(chain[d].log) : chain[d].log[i] = Refunded
      BY <3>1 DEF TerminalIsLast
    <3>3. PICK i \in 1 .. Len(chain[d].log) : chain[d].log[i] = Refunded
      BY <3>2
    <3>4. <<d, i>> \in RecoveryEvents(d)
      BY <3>3, IsEvent
    <3>5. <<d, i>> \in events /\ LogOf(<<d, i>>) = Refunded
      BY <2>1, <3>3, <3>4 DEF Done, Recorded, LogOf
    <3>6. row.last = <<d, i>> /\ row.last # <<1, 0>>
      <4>1. i >= 1
        BY <3>3, ChainFacts, BlockFacts
      <4> QED BY <3>5, <4>1 DEF RowFollows
    <3> QED BY <3>5, <3>6 DEF RowFollows, RowOf, Refunded
  <2> QED BY <2>1, <2>2 DEF Done
<1> QED BY <1>1, Inductive, PTL

\* Once the refund is recorded the row says so, in whatever order the scan and
\* the API record the expiries before it.
THEOREM RefundStays == Spec => []RefundIsFinal
<1>1. IInv => RefundIsFinal
  <2> SUFFICES ASSUME IInv, NEW e \in events, LogOf(e) = Refunded PROVE row.state = "REFUNDED"
    BY DEF RefundIsFinal
  <2> USE DEF IInv, Types
  <2>1. row.last = e
    BY DEF RowFollows
  <2>2. OnChain(e)
    BY DEF RecordTypes, OnChain
  <2>3. e # <<1, 0>>
    BY <2>2, OnChainFacts
  <2> QED BY <2>1, <2>3 DEF RowFollows, RowOf, Refunded
<1> QED BY <1>1, Inductive, PTL

\* What a recovery request ended with is what happened on the chain and at
\* Circle, and none is sent as two transactions.
THEOREM RequestsAreTrue == Spec => []RequestsTellTheTruth
<1>1. IInv => RequestsTellTheTruth
  BY DEF IInv, RequestInv
<1> QED BY <1>1, Inductive, PTL
=============================================================================
