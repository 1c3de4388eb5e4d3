--------------------------- MODULE UserTransfers ---------------------------
(***************************************************************************)
(* A member sends test USDC from an embedded wallet: the page prepares a    *)
(* transfer, which fixes the nonce of its transaction; the wallet signs it  *)
(* and sends it through the API's RPC proxy; the page reports the hash and  *)
(* later asks for the outcome (apps/web/src/pages/Wallet.tsx,               *)
(* services/api/src/wallet-routes.ts and rpc-routes.ts).  The page may be   *)
(* open in two tabs with one local storage.                                 *)
(*                                                                          *)
(* One action is one statement or transaction of the database with the      *)
(* chain reads before it, or one step of the page.  A transfer may be       *)
(* signed again, with another gas price and so another hash.  A tab may be  *)
(* closed, and a call may fail, between any two steps.                      *)
(***************************************************************************)
EXTENDS Integers, FiniteSets

CONSTANTS
  Transfer,      \* transfers of the wallet
  Variant,       \* the transactions that may be signed for one transfer
  Tab,
  MaxElsewhere   \* transactions the wallet sends without this service

VARIABLES
  transfer,   \* transaction_intents: state, nonce and saved variant
  pages,      \* what each tab is doing
  cached,     \* localStorage: the variant whose hash the page has seen
  known,      \* transactions the node knows
  mined,      \* their outcome
  sent,       \* the nonces that are mined
  elsewhere

vars == <<transfer, pages, cached, known, mined, sent, elsewhere>>

Transaction == Transfer \X Variant
PendingState == {"AWAITING_SIGNATURE", "BROADCAST", "SUBMITTED", "UNKNOWN"}
TransferState == PendingState \cup {"NONE", "CONFIRMED", "FAILED"}
Idle == [at |-> "IDLE", of |-> 0, variant |-> 0, seen |-> "NONE"]

Init ==
  /\ transfer = [t \in Transfer |-> [state |-> "NONE", nonce |-> 0, variant |-> 0]]
  /\ pages = [p \in Tab |-> Idle]
  /\ cached = [t \in Transfer |-> 0]
  /\ known = {} /\ mined = [x \in Transaction |-> "NO"]
  /\ sent = 0 /\ elsewhere = 0

-----------------------------------------------------------------------------
(* The network.  One transaction is mined for each nonce.                   *)

Mine(x, outcome) ==
  /\ x \in known /\ mined[x] = "NO" /\ transfer[x[1]].nonce = sent
  /\ mined' = [mined EXCEPT ![x] = outcome] /\ sent' = sent + 1
  /\ UNCHANGED <<transfer, pages, cached, known, elsewhere>>

Finalize(x) ==
  /\ mined[x] \in {"PAID", "REVERTED"}
  /\ mined' = [mined EXCEPT ![x] = IF @ = "PAID" THEN "PAID_FINAL" ELSE "REVERTED_FINAL"]
  /\ UNCHANGED <<transfer, pages, cached, known, sent, elsewhere>>

Drop(x) ==
  /\ x \in known /\ mined[x] = "NO" /\ known' = known \ {x}
  /\ UNCHANGED <<transfer, pages, cached, mined, sent, elsewhere>>

SendElsewhere ==
  /\ elsewhere < MaxElsewhere /\ elsewhere' = elsewhere + 1 /\ sent' = sent + 1
  /\ UNCHANGED <<transfer, pages, cached, known, mined>>

\* getTransactionCount of the pending block.
PendingCount ==
  sent + (IF \E x \in known : transfer[x[1]].nonce = sent THEN 1 ELSE 0)

-----------------------------------------------------------------------------
(* POST /wallets/:id/transfers, under the wallet's row lock.                *)

\* A faulty variant: an intent nobody signed does not count as pending.
UnsignedIsFree(t) == transfer[t].state \in PendingState \ {"AWAITING_SIGNATURE"}

IsPending(t) == transfer[t].state \in PendingState

PrepareTransfer(t) ==
  /\ transfer[t].state = "NONE" /\ ~\E u \in Transfer : IsPending(u)
  /\ transfer' = [transfer EXCEPT ![t] =
       [state |-> "AWAITING_SIGNATURE", nonce |-> PendingCount, variant |-> 0]]
  /\ UNCHANGED <<pages, cached, known, mined, sent, elsewhere>>

-----------------------------------------------------------------------------
(* The page.                                                                *)

Goto(p, at) == pages' = [pages EXCEPT ![p].at = at]

\* The page shows the transfer as it last read it; a hash in local storage
\* is reported again, otherwise the wallet signs.
Send(p, t, v) ==
  /\ pages[p].at = "IDLE" /\ transfer[t].state = "AWAITING_SIGNATURE"
  /\ pages' = [pages EXCEPT ![p] =
       IF cached[t] # 0 THEN [Idle EXCEPT !.at = "RECONCILE", !.of = t, !.variant = cached[t]]
       ELSE [Idle EXCEPT !.at = "SIGNED", !.of = t, !.variant = v]]
  /\ UNCHANGED <<transfer, cached, known, mined, sent, elsewhere>>

CheckConfirmation(p, t) ==
  /\ pages[p].at = "IDLE"
  /\ transfer[t].variant # 0 /\ transfer[t].state \in {"BROADCAST", "SUBMITTED", "UNKNOWN"}
  /\ pages' = [pages EXCEPT ![p] =
       [Idle EXCEPT !.at = "RECONCILE", !.of = t, !.variant = transfer[t].variant]]
  /\ UNCHANGED <<transfer, cached, known, mined, sent, elsewhere>>

Store(p) ==
  /\ pages[p].at = "STORE" /\ Goto(p, "RECONCILE")
  /\ cached' = [cached EXCEPT ![pages[p].of] = pages[p].variant]
  /\ UNCHANGED <<transfer, known, mined, sent, elsewhere>>

\* The tab is closed, or a call fails; what was called may go on, which the
\* other order of the same steps covers.
GiveUp(p) ==
  /\ pages[p] # Idle /\ pages' = [pages EXCEPT ![p] = Idle]
  /\ UNCHANGED <<transfer, cached, known, mined, sent, elsewhere>>

-----------------------------------------------------------------------------
(* eth_sendRawTransaction through /rpc/arc: the saved transfer is matched,  *)
(* its hash saved, the bytes forwarded, the answer recorded.                *)

\* A faulty variant: the hash of the last signature is the transfer's.
AnyVariant(t, v) == TRUE

Matches(t, v) == transfer[t].variant \in {0, v}

RpcMatch(p) ==
  LET t == pages[p].of IN
  /\ pages[p].at = "SIGNED" /\ IsPending(t) /\ Matches(t, pages[p].variant)
  /\ Goto(p, "MATCHED")
  /\ UNCHANGED <<transfer, cached, known, mined, sent, elsewhere>>

RpcSave(p) ==
  LET t == pages[p].of IN
  /\ pages[p].at = "MATCHED" /\ Matches(t, pages[p].variant)
  /\ transfer' = [transfer EXCEPT ![t].variant = pages[p].variant,
                                  ![t].state = IF @ = "BROADCAST" THEN @ ELSE "SUBMITTED"]
  /\ Goto(p, "FORWARD")
  /\ UNCHANGED <<cached, known, mined, sent, elsewhere>>

\* The node refuses a transaction whose nonce is mined.
RpcForward(p) ==
  LET x == <<pages[p].of, pages[p].variant>> IN
  /\ pages[p].at = "FORWARD" /\ transfer[x[1]].nonce >= sent
  /\ known' = known \cup {x} /\ Goto(p, "ANSWER")
  /\ UNCHANGED <<transfer, cached, mined, sent, elsewhere>>

RpcAnswer(p) ==
  LET t == pages[p].of IN
  /\ pages[p].at = "ANSWER" /\ Goto(p, "STORE")
  /\ transfer' = IF transfer[t].state \in {"SUBMITTED", "UNKNOWN"} /\ transfer[t].variant = pages[p].variant
                 THEN [transfer EXCEPT ![t].state = "BROADCAST"] ELSE transfer
  /\ UNCHANGED <<cached, known, mined, sent, elsewhere>>

-----------------------------------------------------------------------------
(* POST /transfers/:id/broadcast.                                           *)

\* A faulty variant: a receipt counts before its block is final.
StateOfAny(x) ==
  CASE mined[x] \in {"PAID", "PAID_FINAL"} -> "CONFIRMED"
    [] mined[x] \in {"REVERTED", "REVERTED_FINAL"} -> "FAILED"
    [] OTHER -> "BROADCAST"

StateOf(x) ==
  CASE mined[x] = "PAID_FINAL" -> "CONFIRMED"
    [] mined[x] = "REVERTED_FINAL" -> "FAILED"
    [] OTHER -> "BROADCAST"

\* The chain is read before the row is locked.
ReadTransaction(p) ==
  LET x == <<pages[p].of, pages[p].variant>> IN
  /\ pages[p].at = "RECONCILE" /\ x \in known
  /\ pages' = [pages EXCEPT ![p].at = "RECORD", ![p].seen = StateOf(x)]
  /\ UNCHANGED <<transfer, cached, known, mined, sent, elsewhere>>

RecordBroadcast(p) ==
  LET t == pages[p].of IN
  /\ pages[p].at = "RECORD" /\ Matches(t, pages[p].variant)
  /\ transfer' = [transfer EXCEPT ![t].variant = pages[p].variant, ![t].state = pages[p].seen]
  /\ cached' = [cached EXCEPT ![t] = 0]
  /\ pages' = [pages EXCEPT ![p] = Idle]
  /\ UNCHANGED <<known, mined, sent, elsewhere>>

-----------------------------------------------------------------------------
Next ==
  \/ SendElsewhere
  \/ \E x \in Transaction :
       Finalize(x) \/ Drop(x) \/ \E outcome \in {"PAID", "REVERTED"} : Mine(x, outcome)
  \/ \E t \in Transfer : PrepareTransfer(t)
  \/ \E p \in Tab :
       \/ \E t \in Transfer : CheckConfirmation(p, t) \/ \E v \in Variant : Send(p, t, v)
       \/ Store(p) \/ GiveUp(p)
       \/ RpcMatch(p) \/ RpcSave(p) \/ RpcForward(p) \/ RpcAnswer(p)
       \/ ReadTransaction(p) \/ RecordBroadcast(p)

Spec == Init /\ [][Next]_vars

-----------------------------------------------------------------------------
(* Properties.                                                              *)

TypeOK ==
  /\ transfer \in [Transfer -> [state : TransferState, nonce : Nat, variant : Variant \cup {0}]]
  /\ cached \in [Transfer -> Variant \cup {0}]
  /\ known \subseteq Transaction /\ sent \in Nat
  /\ \A p \in Tab : pages[p].seen \in TransferState

\* "Its fixed transaction nonce prevents a second payment from a retry": two
\* transfers never share a nonce, whoever signs what and in which tab, so a
\* transfer is mined at most once.
PaidOnce ==
  /\ \A t, u \in Transfer :
       t # u /\ transfer[t].state # "NONE" /\ transfer[u].state # "NONE" => transfer[t].nonce # transfer[u].nonce
  /\ \A t \in Transfer : Cardinality({v \in Variant : mined[<<t, v>>] # "NO"}) <= 1

\* A transfer shown as confirmed or failed is what finally became of its saved
\* transaction, and no signed transaction replaced the saved one.
OutcomeIsFinal ==
  \A t \in Transfer :
    LET x == <<t, transfer[t].variant>> IN
    /\ transfer[t].state = "CONFIRMED" => mined[x] = "PAID_FINAL"
    /\ transfer[t].state = "FAILED" => mined[x] = "REVERTED_FINAL"
    /\ \A v \in Variant : <<t, v>> \in known => v = transfer[t].variant

TransfersAreSafe == PaidOnce /\ OutcomeIsFinal

=============================================================================
