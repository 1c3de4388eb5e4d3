----------------------------- MODULE Operations -----------------------------
(***************************************************************************)
(* Parts of the service whose states have nothing in common: each behaviour *)
(* is one of them, chosen at the beginning, while the others stand still.   *)
(* Nothing is lost by that: none reads or writes what another does.         *)
(***************************************************************************)
EXTENDS BudgetAllocation

CONSTANTS
  None,
  Claim, Bounty, Slot, ReportId, MaxPending, MaxReportFaults,          \* ReportLifecycle
  Transfer, Variant, Tab, MaxElsewhere,                                \* UserTransfers
  User, Change, Key, Connection, MaxVersion,                           \* ApiTransactions
  Vault, Window, Duration, Grace, Reward, MaxForms, MaxTicks, MaxLosses, \* BountyDrafting
  WalletId, MaxRuns, MaxSetupFaults,                                   \* WalletSetup
  Receipt, MaxAttempts, MaxExportFaults,                               \* ReceiptExport
  Run, MaxActive, MaxRecent, MaxSource, MaxRunFaults                   \* AssistantRuns

\* What the code's own constants and columns satisfy: a variant is not the 0
\* which stands for none, limits are numbers, a wallet has a name, a version is
\* at least 1, and the users and the runs of an instance are finitely many.
ASSUME OperationsAssumption ==
  /\ 0 \notin Variant /\ None \notin WalletId
  /\ {MaxForms, MaxRuns, MaxAttempts, MaxSource, MaxActive, MaxRecent} \subseteq Nat
  /\ (Window \cup Duration \cup Grace \cup Reward) \subseteq Nat
  /\ MaxVersion \in Nat \ {0}
  /\ IsFiniteSet(User) /\ IsFiniteSet(Run)

VARIABLES
  active,
  claimBounty, upload, evidenceDue, claimJob, report, key, hold, reportDue, paid,
  evidence, copy, writer, naming, used, sweep, exclusive, reading, reader, delivered, reportFaults,
  transfer, pages, cached, known, mined, sent, elsewhere,
  membership, call, record, revised,
  now, ticks, reportKey, page, saved, manifest, draft, approvals, conflict, losses,
  setup, setupOutbox, runs, age, allowed, setupJob, rules, under, remembered, setupFaults,
  scope, wrong, export, stale, queued, exporter, exportJob, entitled, downloaded, exportFaults,
  source, asking, run, recent, runOutbox, runQueue, runJob, outdated, asker, runFaults

reportVars == <<claimBounty, upload, evidenceDue, claimJob, report, key, hold, reportDue, paid, evidence,
  copy, writer, naming, used, sweep, exclusive, reading, reader, delivered, reportFaults>>
transferVars == <<transfer, pages, cached, known, mined, sent, elsewhere>>
requestVars == <<membership, call, record, revised>>
draftVars == <<now, ticks, reportKey, page, saved, manifest, draft, approvals, conflict, losses>>
setupVars == <<setup, setupOutbox, runs, age, allowed, setupJob, rules, under, remembered, setupFaults>>
exportVars == <<scope, wrong, export, stale, queued, exporter, exportJob, entitled, downloaded, exportFaults>>
assistantVars == <<source, asking, run, recent, runOutbox, runQueue, runJob, outdated, asker, runFaults>>

Reports == INSTANCE ReportLifecycle WITH
  bounty <- claimBounty, job <- claimJob, member <- reading, faults <- reportFaults,
  Id <- ReportId, MaxFaults <- MaxReportFaults

Transfers == INSTANCE UserTransfers

Requests == INSTANCE ApiTransactions

Drafts == INSTANCE BountyDrafting WITH MaxFaults <- MaxLosses

Setup == INSTANCE WalletSetup WITH
  outbox <- setupOutbox, job <- setupJob, faults <- setupFaults,
  Id <- WalletId, MaxFaults <- MaxSetupFaults

Export == INSTANCE ReceiptExport WITH
  member <- exporter, job <- exportJob, faults <- exportFaults, MaxFaults <- MaxExportFaults

Assistant == INSTANCE AssistantRuns WITH
  outbox <- runOutbox, queue <- runQueue, job <- runJob, member <- asker, faults <- runFaults,
  MaxFaults <- MaxRunFaults

Part == {"BUDGET", "REPORTS", "TRANSFERS", "REQUESTS", "DRAFTS", "SETUP", "EXPORT", "ASSISTANT"}

\* The variables of a part that is left out have no value.
OperationsInit ==
  /\ active \in Part
  /\ IF active = "BUDGET" THEN Init ELSE
       /\ approval = None /\ consumed = None /\ consumer = None /\ enabled = None
       /\ enabledFinal = None /\ tx = None /\ accepted = None /\ projection = None
       /\ approved = None /\ bounty = None /\ rec = None /\ action = None /\ intent = None
       /\ old = None /\ outbox = None /\ queue = None /\ dropped = None /\ job = None
       /\ faults = None /\ events = None
  /\ IF active = "REPORTS" THEN Reports!Init ELSE
       /\ claimBounty = None /\ upload = None /\ evidenceDue = None /\ claimJob = None
       /\ report = None /\ key = None /\ hold = None /\ reportDue = None /\ paid = None
       /\ evidence = None /\ copy = None /\ writer = None /\ naming = None /\ used = None
       /\ sweep = None /\ exclusive = None /\ reading = None /\ reader = None
       /\ delivered = None /\ reportFaults = None
  /\ IF active = "TRANSFERS" THEN Transfers!Init ELSE
       /\ transfer = None /\ pages = None /\ cached = None /\ known = None /\ mined = None
       /\ sent = None /\ elsewhere = None
  /\ IF active = "REQUESTS" THEN Requests!Init ELSE
       /\ membership = None /\ call = None /\ record = None /\ revised = None
  /\ IF active = "DRAFTS" THEN Drafts!Init ELSE
       /\ now = None /\ ticks = None /\ reportKey = None /\ page = None /\ saved = None
       /\ manifest = None /\ draft = None /\ approvals = None /\ conflict = None
       /\ losses = None
  /\ IF active = "SETUP" THEN Setup!Init ELSE
       /\ setup = None /\ setupOutbox = None /\ runs = None /\ age = None /\ allowed = None
       /\ setupJob = None /\ rules = None /\ under = None /\ remembered = None
       /\ setupFaults = None
  /\ IF active = "EXPORT" THEN Export!Init ELSE
       /\ scope = None /\ wrong = None /\ export = None /\ stale = None /\ queued = None
       /\ exporter = None /\ exportJob = None /\ entitled = None /\ downloaded = None
       /\ exportFaults = None
  /\ IF active = "ASSISTANT" THEN Assistant!Init ELSE
       /\ source = None /\ asking = None /\ run = None /\ recent = None /\ runOutbox = None /\ runQueue = None
       /\ runJob = None /\ outdated = None /\ asker = None /\ runFaults = None

Only(part) ==
  /\ active = part /\ UNCHANGED active
  /\ part # "BUDGET" => UNCHANGED vars
  /\ part # "REPORTS" => UNCHANGED reportVars
  /\ part # "TRANSFERS" => UNCHANGED transferVars
  /\ part # "REQUESTS" => UNCHANGED requestVars
  /\ part # "DRAFTS" => UNCHANGED draftVars
  /\ part # "SETUP" => UNCHANGED setupVars
  /\ part # "EXPORT" => UNCHANGED exportVars
  /\ part # "ASSISTANT" => UNCHANGED assistantVars

OperationsNext ==
  \/ Only("BUDGET") /\ Next
  \/ Only("REPORTS") /\ Reports!Next
  \/ Only("TRANSFERS") /\ Transfers!Next
  \/ Only("REQUESTS") /\ Requests!Next
  \/ Only("DRAFTS") /\ Drafts!Next
  \/ Only("SETUP") /\ Setup!Next
  \/ Only("EXPORT") /\ Export!Next
  \/ Only("ASSISTANT") /\ Assistant!Next

allVars ==
  <<active, vars, reportVars, transferVars, requestVars, draftVars, setupVars,
    exportVars, assistantVars>>

OperationsSpec == OperationsInit /\ [][OperationsNext]_allVars

-----------------------------------------------------------------------------
(* Properties, each conjunct stated and explained in the module it names.   *)

\* The type invariants of the parts.
TypesOK ==
  CASE active = "BUDGET" -> TypeOK
    [] active = "REPORTS" -> Reports!TypeOK
    [] active = "TRANSFERS" -> Transfers!TypeOK
    [] active = "REQUESTS" -> Requests!TypeOK
    [] active = "DRAFTS" -> Drafts!TypeOK
    [] active = "SETUP" -> Setup!TypeOK
    [] active = "EXPORT" -> Export!TypeOK
    [] active = "ASSISTANT" -> Assistant!TypeOK

\* An automatic allocation's end is what happened on chain, and none is lost
\* between its row, the outbox and the queue.
AllocationsAreSafe == active = "BUDGET" => AllocationsTellTheTruth /\ QueuedIsDispatched

\* The retention sweep removes no file that is needed, and no report reaches
\* a reader who may not have it.
ReportsAreSafe == active = "REPORTS" => Reports!ReportsAreSafe

\* What users do twice, at the same time or again after a lost answer is done
\* once: requests of the API, transfers of a wallet, drafts of a form.
RequestsAreSafe ==
  /\ active = "REQUESTS" => Requests!RequestsAreSafe
  /\ active = "TRANSFERS" => Transfers!TransfersAreSafe
  /\ active = "DRAFTS" => Drafts!DraftsAreSafe

\* What the workers finish was true when they finished it: a wallet under its
\* policy, an export checked against the chain, an answer about the present
\* records.
JobsAreSafe ==
  /\ active = "SETUP" => Setup!SetupIsSafe
  /\ active = "EXPORT" => Export!ExportIsSafe
  /\ active = "ASSISTANT" => Assistant!RunsAreSafe

=============================================================================
