--------------------------- MODULE BountyDrafting ---------------------------
(***************************************************************************)
(* An owner drafts a bounty: the form of                                    *)
(* apps/web/src/pages/BountyWorkspace.tsx makes several calls of            *)
(* services/api/src/bounty-routes.ts under one key, and starts again from   *)
(* the first when one fails; an owner approves the exact policy; and        *)
(* BountyEscrow.createAndFund has its own rules for that policy.            *)
(*                                                                          *)
(* One action is one call, which mutate() executes, replays or refuses; its *)
(* answer may be lost, and it may fail without effect (a role, a stale      *)
(* source, the network).  Times are seconds.  Hashes, addresses and the     *)
(* fields the API fills in from its own configuration are left out.         *)
(***************************************************************************)
EXTENDS Integers, FiniteSets

CONSTANTS
  Vault,
  Window,      \* submission windows the form or another client asks for
  Duration,    \* reservation durations
  Grace,       \* settlement graces
  Reward,      \* rewards, and the largest rewards of severity tiers
  MaxForms,    \* forms begun, each with a key of its own
  MaxTicks, MaxFaults

Flow == {"COVERAGE", "FINDINGS"}
Form == 1 .. MaxForms
Terms == [duration : Duration, grace : Grace, reward : Reward]
NoPage == [at |-> "IDLE", form |-> 0, flow |-> "COVERAGE", vault |-> 0, terms |-> 0,
           prepared |-> FALSE, deadline |-> 0]

VARIABLES
  now, ticks,
  reportKey,   \* organization_keys has an ACTIVE key
  page,        \* the form: its step and its React state
  saved,       \* idempotency_records: the input saved for a form and step
  manifest,    \* fixture_manifests made for a form: their states
  draft,       \* bounty_drafts
  approvals,   \* how often each was approved
  conflict,    \* IDEMPOTENCY_CONFLICT answered to a form whose manifest is prepared
  losses

vars == <<now, ticks, reportKey, page, saved, manifest, draft, approvals, conflict, losses>>

Init ==
  /\ now = 0 /\ ticks = 0 /\ reportKey = FALSE /\ page = NoPage
  /\ saved = {} /\ manifest = [f \in Form |-> "NONE"]
  /\ draft = {} /\ approvals = [f \in Form |-> 0]
  /\ conflict = FALSE /\ losses = 0

Tick ==
  /\ ticks < MaxTicks /\ ticks' = ticks + 1
  /\ \/ now' = now + 1
     \/ \E d \in draft : now' \in {d.deadline - 1, d.deadline} /\ now' > now
  /\ UNCHANGED <<reportKey, page, saved, manifest, draft, approvals, conflict, losses>>

-----------------------------------------------------------------------------
(* The form.                                                                *)

Used == {f \in Form : f <= page.form}

\* A new form, a new key.  The window is counted from the page's clock when
\* the call is made, and kept once a manifest is prepared.
Begin(flow, vault, terms) ==
  /\ page.at = "IDLE" /\ page.form < MaxForms
  /\ page' = [NoPage EXCEPT !.at = "KEY", !.form = page.form + 1, !.flow = flow,
                            !.vault = vault, !.terms = terms]
  /\ UNCHANGED <<now, ticks, reportKey, saved, manifest, draft, approvals, conflict, losses>>

\* The owner submits the form again after an error.
Again(vault) ==
  /\ page.at = "ERROR" /\ (page.prepared => vault = page.vault)
  /\ page' = [page EXCEPT !.at = "KEY", !.vault = vault]
  /\ UNCHANGED <<now, ticks, reportKey, saved, manifest, draft, approvals, conflict, losses>>

\* A faulty variant: each submission counts the window anew.
KeepNothing == FALSE

KeepDeadline == page.prepared

\* draftDeadline, once per submission of the form
SetDeadline(window) ==
  page' = [page EXCEPT !.at = IF page.flow = "COVERAGE" THEN "MANIFEST" ELSE "DRAFT",
                       !.deadline = IF KeepDeadline THEN @ ELSE now + window]

\* What the browser learns: the answer, or an error.
Answer(next) ==
  \/ page' = next /\ UNCHANGED losses
  \/ losses < MaxFaults /\ losses' = losses + 1 /\ page' = [page EXCEPT !.at = "ERROR"]

Fail ==
  /\ page.at \notin {"IDLE", "ERROR"} /\ losses < MaxFaults /\ losses' = losses + 1
  /\ page' = [page EXCEPT !.at = "ERROR"]
  /\ UNCHANGED <<now, ticks, reportKey, saved, manifest, draft, approvals, conflict>>

-----------------------------------------------------------------------------
(* The calls.                                                               *)

\* POST /organizations/:id/report-key: the organization's key, made once.
ReportKey(window) ==
  /\ page.at = "KEY" /\ reportKey' = TRUE /\ SetDeadline(window)
  /\ UNCHANGED <<now, ticks, saved, manifest, draft, approvals, conflict, losses>>

\* mutate: a saved input is replayed, another one refused.
Input(step, body) == [form |-> page.form, step |-> step, body |-> body]
IsSaved(step) == \E s \in saved : s.form = page.form /\ s.step = step
Replayed(step, body) == Input(step, body) \in saved
Refused(step, body) == IsSaved(step) /\ ~Replayed(step, body)
Save(step, body) == saved' = saved \cup {Input(step, body)}

Refuse ==
  /\ page' = [page EXCEPT !.at = "ERROR"]
  /\ conflict' = (conflict \/ (page.flow = "COVERAGE" /\ page.prepared))
  /\ UNCHANGED <<saved, manifest, draft, losses>>

\* POST /organizations/:id/fixture-manifests/prepare; a form that has its
\* manifest does not ask again.
PrepareManifest ==
  LET f == page.form
      next == [page EXCEPT !.at = "SIGN", !.prepared = TRUE]
  IN  /\ page.at = "MANIFEST"
      /\ \/ page.prepared /\ page' = next /\ UNCHANGED <<saved, manifest, draft, conflict, losses>>
         \/ /\ ~page.prepared /\ Refused("manifest", page.vault) /\ Refuse
         \/ /\ ~page.prepared /\ ~Refused("manifest", page.vault)
            /\ Save("manifest", page.vault) /\ Answer(next)
            /\ manifest' = [manifest EXCEPT ![f] = IF @ = "NONE" THEN "PREPARED" ELSE @]
            /\ UNCHANGED <<draft, conflict>>
      /\ UNCHANGED <<now, ticks, reportKey, approvals>>

Signable(f) == manifest[f] = "PREPARED" \/ Replayed("signature", f)

\* POST /fixture-manifests/:id/sign with the version of the prepared manifest.
SignManifest ==
  LET f == page.form IN
  /\ page.at = "SIGN" /\ Signable(f)
  /\ Save("signature", f) /\ Answer([page EXCEPT !.at = "DRAFT"])
  /\ manifest' = [manifest EXCEPT ![f] = "SIGNED"]
  /\ UNCHANGED <<now, ticks, reportKey, draft, approvals, conflict>>

PolicyOf(t, deadline) ==
  [deadline |-> deadline, settlement |-> deadline + t.duration + t.grace,
   duration |-> t.duration, reward |-> t.reward]

\* The request's schema, the route's own check, and the policy's schema.
ValidRequest(t) == t.duration \in 60 .. 1800 /\ t.grace \in 0 .. 86400
ValidDeadline(deadline) == deadline >= now + 300 /\ deadline <= now + 2592000

\* A faulty variant: the policy is not checked as a whole.
AnyPolicy(p) == TRUE

ValidPolicy(p) ==
  /\ p.duration \in 60 .. 1800 /\ p.settlement >= p.deadline + p.duration
  /\ p.reward > 0

ValidTerms(t, deadline) ==
  ValidRequest(t) /\ ValidDeadline(deadline) /\ ValidPolicy(PolicyOf(t, deadline))

\* POST /programs/:id/bounty-drafts
CreateDraft ==
  LET f == page.form
      body == [terms |-> page.terms, deadline |-> page.deadline]
      policy == PolicyOf(page.terms, page.deadline)
  IN  /\ page.at = "DRAFT"
      /\ \/ Refused("draft", body) /\ Refuse
         \/ /\ Replayed("draft", body) /\ Answer([NoPage EXCEPT !.form = f])
            /\ UNCHANGED <<saved, manifest, draft, conflict>>
         \/ /\ ~IsSaved("draft") /\ ~ValidTerms(page.terms, page.deadline)
            /\ page' = [page EXCEPT !.at = "ERROR"]
            /\ UNCHANGED <<saved, manifest, draft, conflict, losses>>
         \/ /\ ~IsSaved("draft") /\ ValidTerms(page.terms, page.deadline)
            /\ reportKey /\ (page.flow = "COVERAGE" => manifest[f] = "SIGNED")
            /\ Save("draft", body) /\ Answer([NoPage EXCEPT !.form = f])
            /\ draft' = draft \cup {[form |-> f, flow |-> page.flow, deadline |-> page.deadline,
                                     policy |-> policy, status |-> "DRAFT", version |-> 1]}
            /\ UNCHANGED <<manifest, conflict>>
      /\ UNCHANGED <<now, ticks, reportKey, approvals>>

\* POST /bounty-drafts/:id/approve, with the version and hash an owner saw.
ApproveDraft(d) ==
  /\ d.status = "DRAFT" /\ d.version = 1 /\ d.deadline > now
  /\ draft' = (draft \ {d}) \cup {[d EXCEPT !.status = "APPROVED", !.version = 2]}
  /\ approvals' = [approvals EXCEPT ![d.form] = @ + 1]
  /\ UNCHANGED <<now, ticks, reportKey, page, saved, manifest, conflict, losses>>

\* A form left for good: the page is loaded again.
Reload ==
  /\ page.at = "ERROR" /\ page' = [NoPage EXCEPT !.form = page.form]
  /\ UNCHANGED <<now, ticks, reportKey, saved, manifest, draft, approvals, conflict, losses>>

Next ==
  \/ Tick \/ Fail \/ PrepareManifest \/ SignManifest \/ CreateDraft \/ Reload
  \/ \E flow \in Flow : \E vault \in Vault : \E terms \in Terms : Begin(flow, vault, terms)
  \/ \E vault \in Vault : Again(vault)
  \/ \E window \in Window : ReportKey(window)
  \/ \E d \in draft : ApproveDraft(d)

Spec == Init /\ [][Next]_vars

-----------------------------------------------------------------------------
(* Properties.                                                              *)

TypeOK ==
  /\ now \in Nat /\ reportKey \in BOOLEAN /\ conflict \in BOOLEAN
  /\ manifest \in [Form -> {"NONE", "PREPARED", "SIGNED"}]
  /\ page.form \in 0 .. MaxForms /\ page.flow \in Flow
  /\ \A d \in draft : d.form \in Form /\ d.status \in {"DRAFT", "APPROVED"}

\* BountyEscrow.createAndFund (BountyEscrow.sol:158)
CreateAndFundAccepts(p) ==
  /\ p.deadline > now /\ p.reward # 0
  /\ p.duration >= 60 /\ p.duration <= 1800
  /\ p.settlement >= p.deadline + p.duration

\* Whatever terms were asked for, the escrow accepts every approved policy
\* until its submission deadline: nothing an owner approved can fail on-chain
\* for its terms.
ApprovedIsFundable ==
  \A d \in draft : d.status = "APPROVED" /\ now < d.deadline => CreateAndFundAccepts(d.policy)

\* A form that is submitted again after lost answers makes one draft, and one
\* that has its manifest is never refused for a changed input.
OneDraftPerForm ==
  /\ \A d, e \in draft : d.form = e.form => d = e
  /\ ~conflict

DraftsAreSafe == ApprovedIsFundable /\ OneDraftPerForm

=============================================================================
