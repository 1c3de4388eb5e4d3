---------------------------- MODULE WalletSetup ----------------------------
(***************************************************************************)
(* How an organization gets its treasury wallet: an owner's request saves  *)
(* one setup and an outbox row (services/api/src/treasury-routes.ts), and  *)
(* the wallet-setup job has the provider make a policy and a wallet under  *)
(* it, and checks both (services/treasury/src/provision.ts).               *)
(*                                                                         *)
(* Each call of the provider carries an idempotency key, which the         *)
(* provider remembers for a day.  A call's answer can be lost after the    *)
(* provider has done what it asks; the job may crash anywhere, and the     *)
(* queue runs it nine times in all.                                        *)
(***************************************************************************)
EXTENDS Integers, FiniteSets

CONSTANTS
  Id,         \* the provider's names of policies, and of wallets
  None,
  MaxRuns,    \* the queue runs the job so often: 9
  MaxFaults   \* bound of the instance

Rules == {"SIGN", "SEND", "OTHER"}
\* The age of the attempt: less than 23 hours, less than 24, more.
Age == 0 .. 2

VARIABLES
  setup,      \* wallet_setups: state, provider_policy_id, provider_wallet_id
  outbox,     \* its WALLET_SETUP row
  runs,       \* runs of the job that the queue has left
  age,        \* of attempt_started_at
  allowed,    \* the requester is an active owner of an active organization
  job,        \* the job that holds the lock wallet-setup:<id>
  rules,      \* the rules of each policy the provider has made
  under,      \* the policy of each wallet it has made
  remembered, \* its answers to the keys <id>-policy and <id>
  faults

vars == <<setup, outbox, runs, age, allowed, job, rules, under, remembered, faults>>
providerVars == <<rules, under, remembered>>
queueVars == <<outbox, runs>>

Idle == [at |-> "IDLE", id |-> None]
NoSetup == [state |-> "NONE", policy |-> None, wallet |-> None]

Init ==
  /\ setup = NoSetup
  /\ outbox = "NONE" /\ runs = 0 /\ age = -1 /\ allowed = TRUE
  /\ job = Idle
  /\ rules = [p \in Id |-> "NONE"] /\ under = [w \in Id |-> None]
  /\ remembered = [policy |-> None, wallet |-> None]
  /\ faults = 0

-----------------------------------------------------------------------------
(* The request and its dispatch.                                            *)

\* Under the lock of the organization's row; if there is a setup, it is
\* returned, or SETUP_CONFLICT when the amount asked for is another.
RequestSetup ==
  /\ setup.state = "NONE" /\ allowed
  /\ setup' = [setup EXCEPT !.state = "QUEUED"]
  /\ outbox' = "PENDING"
  /\ UNCHANGED <<runs, age, allowed, job, providerVars, faults>>

\* treasury-dispatch: the job and the mark on the row are one transaction.
Dispatch ==
  /\ outbox = "PENDING"
  /\ outbox' = "PROCESSED" /\ runs' = MaxRuns
  /\ UNCHANGED <<setup, age, allowed, job, providerVars, faults>>

-----------------------------------------------------------------------------
(* The job: provisionTreasury.                                              *)

At(at) == job.at = at
Goto(at) == job' = [job EXCEPT !.at = at]
Return == job' = Idle
Completed == job' = Idle /\ runs' = 0 /\ UNCHANGED outbox

\* A faulty variant: an old attempt is tried again.
IsOverdueNever(s, a) == FALSE

\* Something is missing that was asked for more than 23 hours ago: the
\* provider may have made it and forgotten the key.
IsOverdue(s, a) == a > 0 /\ (s.policy = None \/ s.wallet = None)

BeginRun ==
  /\ At("IDLE") /\ runs > 0
  /\ runs' = runs - 1
  /\ setup.state # "READY"
  /\ IF ~allowed THEN Return /\ UNCHANGED <<setup, age>>
     ELSE IF IsOverdue(setup, age)
     THEN Return /\ setup' = [setup EXCEPT !.state = "NEEDS_RECONCILIATION"] /\ UNCHANGED age
     ELSE /\ Goto("POLICY")
          /\ setup' = [setup EXCEPT !.state = "PROVISIONING"]
          /\ age' = IF age = -1 THEN 0 ELSE age
  /\ UNCHANGED <<outbox, allowed, providerVars, faults>>

\* The provider's answer to a key: what it remembers, or something new.
Answer(new, saved) == IF saved # None THEN {saved} ELSE new
NewPolicy == {p \in Id : rules[p] = "NONE"}
NewWallet == {w \in Id : under[w] = None}

CreatePolicy ==
  /\ At("POLICY")
  /\ IF setup.policy # None
     THEN Goto("WALLET") /\ UNCHANGED providerVars
     ELSE \E p \in Answer(NewPolicy, remembered.policy) :
            /\ rules' = [rules EXCEPT ![p] = IF p \in NewPolicy THEN "SIGN" ELSE @]
            /\ remembered' = [remembered EXCEPT !.policy = p]
            /\ job' = [at |-> "SAVE_POLICY", id |-> p]
            /\ UNCHANGED under
  /\ UNCHANGED <<setup, queueVars, age, allowed, faults>>

SavePolicy ==
  /\ At("SAVE_POLICY")
  /\ setup' = [setup EXCEPT !.policy = job.id]
  /\ Goto("WALLET")
  /\ UNCHANGED <<queueVars, age, allowed, providerVars, faults>>

CreateWallet ==
  /\ At("WALLET")
  /\ IF setup.wallet # None
     THEN Goto("VERIFY") /\ UNCHANGED providerVars
     ELSE \E w \in Answer(NewWallet, remembered.wallet) :
            /\ under' = [under EXCEPT ![w] = IF w \in NewWallet THEN setup.policy ELSE @]
            /\ remembered' = [remembered EXCEPT !.wallet = w]
            /\ job' = [at |-> "SAVE_WALLET", id |-> w]
            /\ UNCHANGED rules
  /\ UNCHANGED <<setup, queueVars, age, allowed, faults>>

\* The wallets row and the setup, in one transaction.
SaveWallet ==
  /\ At("SAVE_WALLET")
  /\ setup' = [setup EXCEPT !.wallet = job.id, !.state = "VERIFYING"]
  /\ Goto("VERIFY")
  /\ UNCHANGED <<queueVars, age, allowed, providerVars, faults>>

\* PrivyTreasury.verify: the wallet has this one policy, with these rules.
Verified(rule) == under[setup.wallet] = setup.policy /\ rules[setup.policy] = rule

\* verify, or configureArcSigning: it replaces the rules of an older release,
\* no others, and verifies again.
Verify ==
  /\ At("VERIFY")
  /\ IF Verified("SIGN") THEN Goto("READY") /\ UNCHANGED rules
     ELSE IF Verified("SEND")
     THEN Goto("READY") /\ rules' = [rules EXCEPT ![setup.policy] = "SIGN"]
     ELSE Return /\ UNCHANGED rules
  /\ UNCHANGED <<setup, queueVars, age, allowed, under, remembered, faults>>

Finish ==
  /\ At("READY")
  /\ setup' = [setup EXCEPT !.state = "READY"]
  /\ Completed
  /\ UNCHANGED <<age, allowed, providerVars, faults>>

-----------------------------------------------------------------------------
(* The environment.                                                         *)

\* A crash, or an answer of the provider or the database that never arrives.
Fail ==
  /\ ~At("IDLE") /\ faults < MaxFaults
  /\ Return /\ faults' = faults + 1
  /\ UNCHANGED <<setup, queueVars, age, allowed, providerVars>>

\* Queue delays and expiries let a run begin at any hour, but no run lasts an
\* hour.
Elapse ==
  /\ At("IDLE") /\ age \in {0, 1}
  /\ age' = age + 1
  /\ remembered' = IF age' = 2 THEN [policy |-> None, wallet |-> None] ELSE remembered
  /\ UNCHANGED <<setup, queueVars, allowed, job, rules, under, faults>>

ChangeMembership ==
  /\ faults < MaxFaults /\ faults' = faults + 1
  /\ allowed' = ~allowed
  /\ UNCHANGED <<setup, queueVars, age, job, providerVars>>

\* The rules are replaced by an operator of the provider before the wallet is
\* in use.
ReplaceRules ==
  /\ faults < MaxFaults /\ faults' = faults + 1
  /\ At("IDLE") /\ setup.state # "READY"
  /\ \E p \in Id, rule \in Rules : rules[p] # "NONE" /\ rules' = [rules EXCEPT ![p] = rule]
  /\ UNCHANGED <<setup, queueVars, age, allowed, job, under, remembered>>

Next ==
  \/ RequestSetup \/ Dispatch
  \/ BeginRun \/ CreatePolicy \/ SavePolicy \/ CreateWallet \/ SaveWallet \/ Verify \/ Finish
  \/ Fail \/ Elapse \/ ChangeMembership \/ ReplaceRules

Spec == Init /\ [][Next]_vars

-----------------------------------------------------------------------------
(* Properties.                                                              *)

TypeOK ==
  /\ setup.state \in {"NONE", "QUEUED", "PROVISIONING", "VERIFYING", "READY", "NEEDS_RECONCILIATION"}
  /\ setup.policy \in Id \cup {None} /\ setup.wallet \in Id \cup {None}
  /\ age \in Age \cup {-1} /\ runs \in 0 .. MaxRuns
  /\ rules \in [Id -> Rules \cup {"NONE"}] /\ under \in [Id -> Id \cup {None}]
  /\ remembered \in [policy : Id \cup {None}, wallet : Id \cup {None}]

\* Whatever answers are lost and however late the job runs again, the
\* provider makes one policy and one wallet for the organization.
MadeOnce ==
  /\ Cardinality(Id \ NewPolicy) <= 1
  /\ Cardinality(Id \ NewWallet) <= 1

\* A wallet is ready for use only under the policy that was made for it, with
\* exactly the approved rules, whatever replaced them before.
ReadyIsControlled ==
  setup.state = "READY" =>
    /\ under[setup.wallet] = setup.policy
    /\ rules[setup.policy] = "SIGN"

SetupIsSafe == MadeOnce /\ ReadyIsControlled

=============================================================================
