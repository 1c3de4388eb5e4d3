--------------------------- MODULE ReceiptExport ---------------------------
(***************************************************************************)
(* One export of receipts: the request saves a snapshot of the final       *)
(* receipts (services/api/src/receipt-routes.ts); the receipt-export job   *)
(* compares each of them with the chain (services/receipts/src/process.ts) *)
(* and saves the file; the page downloads it (Receipts.tsx).               *)
(*                                                                         *)
(* The job may crash anywhere, the node may not have a receipt as final,   *)
(* and the requester may lose the role at any time.                        *)
(***************************************************************************)
EXTENDS Integers, FiniteSets

CONSTANTS
  Receipt,     \* receipts of an export
  MaxAttempts, \* 4 in process.ts
  MaxFaults    \* bound of the instance

Over == {"READY", "FAILED", "CANCELLED"}

VARIABLES
  scope,       \* ORGANIZATION, or RESEARCHER: no role is needed
  wrong,       \* receipts whose row differs from the event on chain
  export,      \* receipt_exports: state and attempts
  stale,       \* it is RUNNING and was updated 15 minutes ago
  queued,      \* a receipt-export job waits
  member,      \* the requester is an active OWNER or TREASURY member
  job,         \* the job that holds the lock receipt-export:<id>
  entitled,    \* the requester had the role after the last comparison of the
               \* run, or since its start while nothing is compared
  downloaded, faults

vars == <<scope, wrong, export, stale, queued, member, job, entitled, downloaded, faults>>

Idle == [at |-> "IDLE", attempts |-> 0, checked |-> {}]

Init ==
  /\ scope \in {"ORGANIZATION", "RESEARCHER"}
  /\ wrong \in SUBSET Receipt
  /\ export = [state |-> "NONE", attempts |-> 0]
  /\ stale = FALSE /\ queued = FALSE /\ member = TRUE
  /\ job = Idle /\ entitled = FALSE /\ downloaded = FALSE /\ faults = 0

Authorized == scope = "RESEARCHER" \/ member
SetState(state) == export' = [export EXCEPT !.state = state]
At(at) == job.at = at
Return == job' = Idle

-----------------------------------------------------------------------------
RequestExport ==
  /\ export.state = "NONE" /\ Authorized
  /\ SetState("QUEUED")
  /\ UNCHANGED <<scope, wrong, stale, queued, member, job, entitled, downloaded, faults>>

\* receipt-export-dispatch, every minute; the queue keeps one job of an export.
Dispatch ==
  /\ export.state \in {"QUEUED", "RETRYING"} \/ (export.state = "RUNNING" /\ stale)
  /\ ~queued /\ queued' = TRUE
  /\ UNCHANGED <<scope, wrong, export, stale, member, job, entitled, downloaded, faults>>

\* A run that finds the lock taken, or the export over, ends at once.
Skip ==
  /\ queued /\ (~At("IDLE") \/ export.state \in Over)
  /\ queued' = FALSE
  /\ UNCHANGED <<scope, wrong, export, stale, member, job, entitled, downloaded, faults>>

\* The row is read before its attempts are counted.
BeginRun ==
  /\ queued /\ At("IDLE") /\ export.state \notin Over
  /\ queued' = FALSE
  /\ IF Authorized
     THEN /\ job' = [at |-> "CHECK", attempts |-> export.attempts, checked |-> {}]
          /\ export' = [state |-> "RUNNING", attempts |-> export.attempts + 1]
          /\ stale' = FALSE /\ entitled' = TRUE
     ELSE SetState("CANCELLED") /\ UNCHANGED <<job, stale, entitled>>
  /\ UNCHANGED <<scope, wrong, member, downloaded, faults>>

\* A faulty variant: the records are compared with any receipt.
DiffersNever(r) == FALSE

\* verifyExportRecord
Differs(r) == r \in wrong

\* The catch block.
Catch(invalid) ==
  SetState(IF invalid \/ job.attempts >= MaxAttempts THEN "FAILED" ELSE "RETRYING") /\ Return

\* One record and its final receipt.
Check(r) ==
  /\ At("CHECK") /\ r \notin job.checked
  /\ \/ Differs(r) /\ Catch(TRUE) /\ UNCHANGED entitled
     \/ ~Differs(r) /\ job' = [job EXCEPT !.checked = @ \cup {r}]
                    /\ entitled' = Authorized /\ UNCHANGED export
     \/ Catch(FALSE) /\ UNCHANGED entitled   \* EXPORT_NOT_FINAL, or no answer
  /\ UNCHANGED <<scope, wrong, stale, queued, member, downloaded, faults>>

\* A faulty variant: the role is looked up once.
StillAuthorizedAlways == TRUE

StillAuthorized == Authorized

Recheck ==
  /\ At("CHECK") /\ job.checked = Receipt
  /\ IF StillAuthorized THEN job' = [job EXCEPT !.at = "SAVE"] /\ UNCHANGED export
                        ELSE SetState("CANCELLED") /\ Return
  /\ UNCHANGED <<scope, wrong, stale, queued, member, entitled, downloaded, faults>>

Save ==
  /\ At("SAVE")
  /\ SetState("READY") /\ Return
  /\ UNCHANGED <<scope, wrong, stale, queued, member, entitled, downloaded, faults>>

\* GET /exports/:id, for its requester while authorized; the page compares the
\* hash of what it received with both that were announced.
Download ==
  /\ export.state = "READY" /\ Authorized
  /\ downloaded' = TRUE
  /\ UNCHANGED <<scope, wrong, export, stale, queued, member, job, entitled, faults>>

-----------------------------------------------------------------------------
Crash ==
  /\ ~At("IDLE") /\ faults < MaxFaults
  /\ Return /\ faults' = faults + 1
  /\ UNCHANGED <<scope, wrong, export, stale, queued, member, entitled, downloaded>>

Elapse ==
  /\ export.state = "RUNNING" /\ stale' = TRUE
  /\ UNCHANGED <<scope, wrong, export, queued, member, job, entitled, downloaded, faults>>

ChangeRole ==
  /\ faults < MaxFaults /\ faults' = faults + 1
  /\ member' = ~member
  /\ entitled' = (entitled \/ (member' /\ export.state \notin Over))
  /\ UNCHANGED <<scope, wrong, export, stale, queued, job, downloaded>>

Next ==
  \/ RequestExport \/ Dispatch \/ Skip \/ BeginRun
  \/ \E r \in Receipt : Check(r)
  \/ Recheck \/ Save \/ Download \/ Crash \/ Elapse \/ ChangeRole

Spec == Init /\ [][Next]_vars

-----------------------------------------------------------------------------
(* Properties.                                                              *)

TypeOK ==
  /\ export.state \in Over \cup {"NONE", "QUEUED", "RUNNING", "RETRYING"}
  /\ export.attempts \in Nat /\ export.attempts <= MaxAttempts + 1 + faults
  /\ job.at \in {"IDLE", "CHECK", "SAVE"} /\ job.checked \subseteq Receipt

\* A file is made only when every record of it agrees with its final event,
\* for a requester who had the role after the last of them was compared.
ReadyIsChecked ==
  (export.state = "READY" \/ downloaded) => wrong = {} /\ (entitled \/ scope = "RESEARCHER")

\* An export is given up only for a record that differs, or after five
\* attempts; a crashed attempt counts as one.
FailedIsFinal ==
  export.state = "FAILED" => wrong # {} \/ export.attempts > MaxAttempts

ExportIsSafe == ReadyIsChecked /\ FailedIsFinal

=============================================================================
