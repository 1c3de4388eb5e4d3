--------------------------- MODULE ReportLifecycle ---------------------------
(***************************************************************************)
(* How long the files of a claim live: the evidence a researcher uploads   *)
(* (services/api/src/claim-routes.ts, finding-routes.ts), the two sealed   *)
(* copies of the report the verifier writes, their release after the       *)
(* payment and their download (services/report-release), and the sweep     *)
(* that deletes them (services/retention).                                 *)
(*                                                                         *)
(* Files and rows are written by different calls: a transaction that       *)
(* writes a file holds the ciphertext lock shared until it commits, and    *)
(* the sweep holds it exclusively on its own connection, which it can lose *)
(* in the middle.  One action is one statement or transaction, or one call *)
(* of the store.  Clocks are abstract: a retention period has passed or    *)
(* not, a file is at most 24 hours old or older.  Hashes always match, and *)
(* the staging file a put leaves when it fails is left out.  The claim's   *)
(* own progress is ClaimSettlement's; here it is OPEN until it is OVER.    *)
(***************************************************************************)
EXTENDS Naturals, FiniteSets

CONSTANTS
  Claim,        \* claims, each with its upload
  Bounty,       \* funded bounties
  Slot,         \* those of them which belong to a findings program
  Id,           \* names of stored reports: each is used once
  MaxPending,   \* uploads a researcher may have under way
  MaxFaults,    \* bound of the instance
  None

UploadState == {"NONE", "UPLOADING", "UPLOADED", "DELETING", "DELETED"}
JobState == {"NONE", "UPLOADING", "OPEN", "OVER"}
ReportState == {"NONE", "SEALED", "AVAILABLE", "DELETING", "DELETED"}
Side == {"ORGANIZATION", "RESEARCHER"}

VARIABLES
  bounty,       \* claims.bounty_id
  upload,       \* uploads.state
  evidenceDue,  \* uploads.delete_after: not set, later or past
  job,          \* claims.job_state
  report,       \* reports.state
  key,          \* the names of the report's two files
  hold,         \* reports.retention_hold
  reportDue,    \* reports.delete_after has passed
  paid,         \* the claim's Paid event is final
  evidence,     \* the evidence file: none, or its age
  copy,         \* the files of reports
  writer,       \* transactions that write files
  naming,       \* the name such a transaction chose
  used,         \* the names chosen so far
  sweep,        \* the sweep: where it is, and at what
  exclusive,    \* whether it holds the lock
  member,       \* whether the organization's reader is still a member
  reader,       \* one download under way
  delivered,    \* what was sent, and what was true when it was
  faults

rowVars == <<bounty, upload, evidenceDue, job>>
reportVars == <<report, key, hold, reportDue, paid>>
fileVars == <<evidence, copy>>
writerVars == <<writer, naming, used>>
sweepVars == <<sweep, exclusive>>
readerVars == <<member, reader, delivered>>
vars == <<rowVars, reportVars, fileVars, writerVars, sweepVars, readerVars, faults>>

Copy == Id \X Side
Age == {"NONE", "YOUNG", "OLD"}
NoWork == [at |-> "IDLE", of |-> None]
NoReader == [at |-> "IDLE", mode |-> None, of |-> None]

Init ==
  /\ bounty = [c \in Claim |-> None]
  /\ upload = [c \in Claim |-> "NONE"] /\ evidenceDue = [c \in Claim |-> "NULL"]
  /\ job = [c \in Claim |-> "NONE"]
  /\ report = [c \in Claim |-> "NONE"] /\ key = [c \in Claim |-> None]
  /\ hold = [c \in Claim |-> FALSE] /\ reportDue = [c \in Claim |-> FALSE]
  /\ paid = [c \in Claim |-> FALSE]
  /\ evidence = [c \in Claim |-> "NONE"] /\ copy = [o \in Copy |-> "NONE"]
  /\ writer = [c \in Claim |-> "IDLE"] /\ naming = [c \in Claim |-> None] /\ used = {}
  /\ sweep = NoWork /\ exclusive = FALSE
  /\ member = TRUE /\ reader = NoReader /\ delivered = {}
  /\ faults = 0

Fault == faults < MaxFaults /\ faults' = faults + 1

-----------------------------------------------------------------------------
(* Claims and their evidence: claim-routes.ts and finding-routes.ts.       *)

Pending == {c \in Claim : upload[c] = "UPLOADING" /\ evidenceDue[c] = "LATER"}
OpenSlots == {b \in Slot : \A c \in Claim : bounty[c] # b}

Insert(c, b) ==
  /\ job[c] = "NONE"
  /\ bounty' = [bounty EXCEPT ![c] = b]
  /\ upload' = [upload EXCEPT ![c] = "UPLOADING"]
  /\ evidenceDue' = [evidenceDue EXCEPT ![c] = "LATER"]
  /\ job' = [job EXCEPT ![c] = "UPLOADING"]
  /\ UNCHANGED <<reportVars, fileVars, writerVars, sweepVars, readerVars, faults>>

\* POST /bounties/:id/uploads: at most so many uploads of one researcher.
PrepareUpload(c, b) == Cardinality(Pending) < MaxPending /\ Insert(c, b)

\* POST /programs/:id/findings: a slot no claim has used.
SubmitFinding(c, b) == b \in OpenSlots /\ Insert(c, b)

\* PUT /uploads/:id/ciphertext: the shared lock and the row's.
BeginPut(c) ==
  /\ ~exclusive /\ writer[c] = "IDLE"
  /\ upload[c] = "UPLOADING" /\ evidenceDue[c] = "LATER"
  /\ writer' = [writer EXCEPT ![c] = "PUT"]
  /\ UNCHANGED <<rowVars, reportVars, fileVars, naming, used, sweepVars, readerVars, faults>>

\* A file that is there already, from a call that failed, is kept.
PutEvidence(c) ==
  /\ writer[c] = "PUT" /\ writer' = [writer EXCEPT ![c] = "STORED"]
  /\ evidence' = [evidence EXCEPT ![c] = IF @ = "NONE" THEN "YOUNG" ELSE @]
  /\ UNCHANGED <<rowVars, reportVars, copy, naming, used, sweepVars, readerVars, faults>>

CommitPut(c) ==
  /\ writer[c] = "STORED" /\ writer' = [writer EXCEPT ![c] = "IDLE"]
  /\ upload' = [upload EXCEPT ![c] = "UPLOADED"]
  /\ evidenceDue' = [evidenceDue EXCEPT ![c] = "NULL"]
  /\ job' = [job EXCEPT ![c] = "OPEN"]
  /\ UNCHANGED <<bounty, reportVars, fileVars, naming, used, sweepVars, readerVars, faults>>

-----------------------------------------------------------------------------
(* The verifier's assessment writes both copies, then the report's row.    *)

BeginAssess(c) ==
  /\ ~exclusive /\ writer[c] = "IDLE"
  /\ job[c] = "OPEN" /\ upload[c] = "UPLOADED" /\ report[c] = "NONE"
  /\ \E i \in Id \ used :
       /\ naming' = [naming EXCEPT ![c] = i] /\ used' = used \cup {i}
  /\ writer' = [writer EXCEPT ![c] = "FIRST"]
  /\ UNCHANGED <<rowVars, reportVars, fileVars, sweepVars, readerVars, faults>>

Put(c, at, side, next) ==
  /\ writer[c] = at /\ writer' = [writer EXCEPT ![c] = next]
  /\ copy' = [copy EXCEPT ![<<naming[c], side>>] = "YOUNG"]
  /\ UNCHANGED <<rowVars, reportVars, evidence, naming, used, sweepVars, readerVars, faults>>

PutOrganization(c) == Put(c, "FIRST", "ORGANIZATION", "SECOND")
PutResearcher(c) == Put(c, "SECOND", "RESEARCHER", "BOTH")

\* The report is held if the claim qualifies; the job is ASSESSED whatever
\* it was meanwhile.
CommitAssess(c, qualifies) ==
  /\ writer[c] = "BOTH" /\ writer' = [writer EXCEPT ![c] = "IDLE"]
  /\ report' = [report EXCEPT ![c] = "SEALED"] /\ key' = [key EXCEPT ![c] = naming[c]]
  /\ hold' = [hold EXCEPT ![c] = qualifies]
  /\ job' = [job EXCEPT ![c] = "OPEN"]
  /\ UNCHANGED <<bounty, upload, evidenceDue, reportDue, paid, fileVars, naming, used,
                 sweepVars, readerVars, faults>>

\* A transaction rolls back and leaves the files it wrote.
Abort(c) ==
  /\ writer[c] # "IDLE" /\ Fault
  /\ writer' = [writer EXCEPT ![c] = "IDLE"]
  /\ UNCHANGED <<rowVars, reportVars, fileVars, naming, used, sweepVars, readerVars>>

-----------------------------------------------------------------------------
(* The claim ends, is paid, or its expiry is recorded.                     *)

Settle(c) ==
  /\ job[c] = "OPEN" /\ job' = [job EXCEPT ![c] = "OVER"]
  /\ UNCHANGED <<bounty, upload, evidenceDue, reportVars, fileVars, writerVars, sweepVars, readerVars, faults>>

Pay(c) ==
  /\ report[c] = "SEALED" /\ hold[c] /\ ~paid[c]
  /\ paid' = [paid EXCEPT ![c] = TRUE]
  /\ UNCHANGED <<rowVars, report, key, hold, reportDue, fileVars, writerVars, sweepVars, readerVars, faults>>

\* The expiry of the reservation ends the hold: seven days from now.
RecordExpiry(c) ==
  /\ report[c] = "SEALED" /\ ~paid[c]
  /\ hold' = [hold EXCEPT ![c] = FALSE]
  /\ reportDue' = [reportDue EXCEPT ![c] = IF hold[c] THEN FALSE ELSE @]
  /\ job' = [job EXCEPT ![c] = "OVER"]
  /\ UNCHANGED <<bounty, upload, evidenceDue, report, key, paid, fileVars, writerVars, sweepVars, readerVars, faults>>

\* delete_after and the cutoff of the store pass.
Elapse(c) ==
  /\ \/ /\ evidenceDue[c] = "LATER" /\ evidenceDue' = [evidenceDue EXCEPT ![c] = "PAST"]
        /\ UNCHANGED reportDue
     \/ /\ report[c] # "NONE" /\ reportDue' = [reportDue EXCEPT ![c] = TRUE]
        /\ UNCHANGED evidenceDue
  /\ UNCHANGED <<bounty, upload, job, report, key, hold, paid, fileVars, writerVars, sweepVars, readerVars, faults>>

Grow ==
  /\ evidence' = [c \in Claim |-> IF evidence[c] = "NONE" THEN "NONE" ELSE "OLD"]
  /\ copy' = [o \in Copy |-> IF copy[o] = "NONE" THEN "NONE" ELSE "OLD"]
  /\ UNCHANGED <<rowVars, reportVars, writerVars, sweepVars, readerVars, faults>>

-----------------------------------------------------------------------------
(* Release and download: services/report-release.                          *)

Retained(c) == report[c] \notin {"DELETING", "DELETED"} /\ (hold[c] \/ ~reportDue[c])

\* releaseReport: the payment is final and the report is still retained.
ReleaseReport(c) ==
  /\ paid[c] /\ report[c] = "SEALED" /\ Retained(c)
  /\ report' = [report EXCEPT ![c] = "AVAILABLE"]
  /\ hold' = [hold EXCEPT ![c] = FALSE] /\ reportDue' = [reportDue EXCEPT ![c] = FALSE]
  /\ UNCHANGED <<rowVars, key, paid, fileVars, writerVars, sweepVars, readerVars, faults>>

ReportAccess(mode, c) ==
  /\ Retained(c)
  /\ \/ mode = "RESEARCHER" /\ report[c] \in {"SEALED", "AVAILABLE"}
     \/ mode = "ORGANIZATION" /\ member /\ report[c] = "AVAILABLE" /\ paid[c]

RemoveMember ==
  /\ member /\ member' = FALSE
  /\ UNCHANGED <<rowVars, reportVars, fileVars, writerVars, sweepVars, reader, delivered, faults>>

\* One download is delivered in an instance.
Request(mode, c) ==
  /\ delivered = {} /\ reader = NoReader /\ ReportAccess(mode, c)
  /\ reader' = [at |-> "READ", mode |-> mode, of |-> c]
  /\ UNCHANGED <<rowVars, reportVars, fileVars, writerVars, sweepVars, member, delivered, faults>>

\* The file may be gone by now.
Read ==
  /\ reader.at = "READ"
  /\ reader' = IF copy[<<key[reader.of], reader.mode>>] = "NONE" THEN NoReader
               ELSE [reader EXCEPT !.at = "DECRYPTED"]
  /\ UNCHANGED <<rowVars, reportVars, fileVars, writerVars, sweepVars, member, delivered, faults>>

\* A faulty variant: the access found before the decryption is good enough.
PermittedBefore == TRUE

Permitted == ReportAccess(reader.mode, reader.of)

Deliver ==
  /\ reader.at = "DECRYPTED" /\ reader' = NoReader
  /\ delivered' = IF Permitted
                  THEN delivered \cup {[to |-> reader.mode, member |-> member, paid |-> paid[reader.of],
                                        retained |-> Retained(reader.of)]}
                  ELSE delivered
  /\ UNCHANGED <<rowVars, reportVars, fileVars, writerVars, sweepVars, member, faults>>

-----------------------------------------------------------------------------
(* The sweep.                                                              *)

Work(at, of) == [at |-> at, of |-> of]
\* Without its connection the sweep ends at the next query.
Continue(at, of) == sweep' = IF exclusive THEN Work(at, of) ELSE NoWork

EvidenceIsDue(c) ==
  upload[c] = "DELETING" \/ (upload[c] \in {"UPLOADING", "UPLOADED"} /\ evidenceDue[c] = "PAST")
ReportIsDue(c) ==
  report[c] = "DELETING" \/ (report[c] \in {"SEALED", "AVAILABLE"} /\ ~hold[c] /\ reportDue[c])

\* A faulty variant: the sweep does not wait for the transactions that write.
NobodyWritesAny == TRUE

NobodyWrites == \A c \in Claim : writer[c] = "IDLE"

\* The lock is free; the evidence of claims that are over is due in a week.
SweepRetention ==
  /\ sweep = NoWork /\ ~exclusive /\ NobodyWrites
  /\ exclusive' = TRUE /\ sweep' = Work("ROWS", None)
  /\ evidenceDue' = [c \in Claim |->
       IF upload[c] = "UPLOADED" /\ evidenceDue[c] = "NULL" /\ job[c] = "OVER" /\ ~hold[c]
       THEN "LATER" ELSE evidenceDue[c]]
  /\ UNCHANGED <<bounty, upload, job, reportVars, fileVars, writerVars, readerVars, faults>>

\* A row found due is marked in a transaction that checks it again.
ChooseUpload(c) ==
  /\ sweep.at = "ROWS" /\ EvidenceIsDue(c) /\ sweep' = Work("UPLOAD", c)
  /\ UNCHANGED <<rowVars, reportVars, fileVars, writerVars, exclusive, readerVars, faults>>

MarkUpload ==
  LET c == sweep.of IN
  /\ sweep.at = "UPLOAD"
  /\ IF EvidenceIsDue(c)
     THEN /\ upload' = [upload EXCEPT ![c] = "DELETING"]
          /\ job' = [job EXCEPT ![c] = IF @ = "UPLOADING" THEN "OVER" ELSE @]
          /\ sweep' = Work("REMOVE_UPLOAD", c)
     ELSE sweep' = Work("ROWS", None) /\ UNCHANGED <<upload, job>>
  /\ UNCHANGED <<bounty, evidenceDue, reportVars, fileVars, writerVars, exclusive, readerVars, faults>>

RemoveUpload ==
  /\ sweep.at = "REMOVE_UPLOAD"
  /\ evidence' = [evidence EXCEPT ![sweep.of] = "NONE"]
  /\ Continue("UPLOAD_REMOVED", sweep.of)
  /\ UNCHANGED <<rowVars, reportVars, copy, writerVars, exclusive, readerVars, faults>>

UploadDeleted ==
  /\ sweep.at = "UPLOAD_REMOVED" /\ sweep' = Work("ROWS", None)
  /\ upload' = [upload EXCEPT ![sweep.of] = "DELETED"]
  /\ UNCHANGED <<bounty, evidenceDue, job, reportVars, fileVars, writerVars, exclusive, readerVars, faults>>

ChooseReport(c) ==
  /\ sweep.at = "ROWS" /\ ReportIsDue(c) /\ sweep' = Work("REPORT", c)
  /\ UNCHANGED <<rowVars, reportVars, fileVars, writerVars, exclusive, readerVars, faults>>

MarkReport ==
  LET c == sweep.of IN
  /\ sweep.at = "REPORT"
  /\ IF ReportIsDue(c)
     THEN report' = [report EXCEPT ![c] = "DELETING"] /\ sweep' = Work("REMOVE_FIRST", c)
     ELSE sweep' = Work("ROWS", None) /\ UNCHANGED report
  /\ UNCHANGED <<rowVars, key, hold, reportDue, paid, fileVars, writerVars, exclusive, readerVars, faults>>

\* Both files, with no query between.
RemoveFirst ==
  /\ sweep.at = "REMOVE_FIRST" /\ sweep' = Work("REMOVE_SECOND", sweep.of)
  /\ copy' = [copy EXCEPT ![<<key[sweep.of], "ORGANIZATION">>] = "NONE"]
  /\ UNCHANGED <<rowVars, reportVars, evidence, writerVars, exclusive, readerVars, faults>>

RemoveSecond ==
  /\ sweep.at = "REMOVE_SECOND" /\ Continue("REPORT_REMOVED", sweep.of)
  /\ copy' = [copy EXCEPT ![<<key[sweep.of], "RESEARCHER">>] = "NONE"]
  /\ UNCHANGED <<rowVars, reportVars, evidence, writerVars, exclusive, readerVars, faults>>

ReportDeleted ==
  /\ sweep.at = "REPORT_REMOVED" /\ sweep' = Work("ROWS", None)
  /\ report' = [report EXCEPT ![sweep.of] = "DELETED"]
  /\ UNCHANGED <<rowVars, key, hold, reportDue, paid, fileVars, writerVars, exclusive, readerVars, faults>>

\* After the rows, the directories: files of deleted rows that came back, and
\* old files no row names.
ListFiles ==
  /\ sweep.at = "ROWS" /\ sweep' = Work("FILES", None)
  /\ UNCHANGED <<rowVars, reportVars, fileVars, writerVars, exclusive, readerVars, faults>>

Restored(o) == \E c \in Claim : report[c] = "DELETED" /\ key[c] = o[1]
Orphan(o) == copy[o] = "OLD" /\ \A c \in Claim : report[c] = "NONE" \/ key[c] # o[1]

InspectEvidence(c) ==
  /\ sweep.at = "FILES" /\ evidence[c] # "NONE" /\ upload[c] = "DELETED"
  /\ sweep' = Work("UNLINK_EVIDENCE", c)
  /\ UNCHANGED <<rowVars, reportVars, fileVars, writerVars, exclusive, readerVars, faults>>

InspectCopy(o) ==
  /\ sweep.at = "FILES" /\ copy[o] # "NONE" /\ (Restored(o) \/ Orphan(o))
  /\ sweep' = Work("UNLINK_COPY", o)
  /\ UNCHANGED <<rowVars, reportVars, fileVars, writerVars, exclusive, readerVars, faults>>

Unlink ==
  /\ \/ /\ sweep.at = "UNLINK_EVIDENCE"
        /\ evidence' = [evidence EXCEPT ![sweep.of] = "NONE"] /\ UNCHANGED copy
     \/ /\ sweep.at = "UNLINK_COPY"
        /\ copy' = [copy EXCEPT ![sweep.of] = "NONE"] /\ UNCHANGED evidence
  /\ Continue("FILES", None)
  /\ UNCHANGED <<rowVars, reportVars, writerVars, exclusive, readerVars, faults>>

SweepDone ==
  /\ sweep.at = "FILES" /\ sweep' = NoWork /\ exclusive' = FALSE
  /\ UNCHANGED <<rowVars, reportVars, fileVars, writerVars, readerVars, faults>>

Removing == {"REMOVE_UPLOAD", "REMOVE_FIRST", "REMOVE_SECOND", "UNLINK_EVIDENCE", "UNLINK_COPY"}

\* The sweep's connection breaks: the lock is free, and a removal that was
\* called may still happen.
LoseConnection ==
  /\ exclusive /\ Fault
  /\ exclusive' = FALSE
  /\ sweep' = IF sweep.at \in Removing THEN sweep ELSE NoWork
  /\ UNCHANGED <<rowVars, reportVars, fileVars, writerVars, readerVars>>

\* The process ends.
Crash ==
  /\ sweep # NoWork /\ Fault
  /\ sweep' = NoWork /\ exclusive' = FALSE
  /\ UNCHANGED <<rowVars, reportVars, fileVars, writerVars, readerVars>>

\* A backup brings deleted files back.
Restore(c) ==
  /\ Fault
  /\ \/ /\ upload[c] = "DELETED" /\ evidence' = [evidence EXCEPT ![c] = "OLD"] /\ UNCHANGED copy
     \/ /\ report[c] = "DELETED" /\ UNCHANGED evidence
        /\ copy' = [o \in Copy |-> IF o[1] = key[c] THEN "OLD" ELSE copy[o]]
  /\ UNCHANGED <<rowVars, reportVars, writerVars, sweepVars, readerVars>>

-----------------------------------------------------------------------------
Claims(c) ==
  \/ \E b \in Bounty \ Slot : PrepareUpload(c, b)
  \/ \E b \in Slot : SubmitFinding(c, b)
  \/ BeginPut(c) \/ PutEvidence(c) \/ CommitPut(c)
  \/ BeginAssess(c) \/ PutOrganization(c) \/ PutResearcher(c)
  \/ \E qualifies \in BOOLEAN : CommitAssess(c, qualifies)
  \/ Abort(c) \/ Settle(c) \/ Pay(c) \/ RecordExpiry(c) \/ Elapse(c)
  \/ ReleaseReport(c) \/ Restore(c)

Downloads ==
  \/ RemoveMember \/ Read \/ Deliver
  \/ \E mode \in Side : \E c \in Claim : Request(mode, c)

Sweeps ==
  \/ SweepRetention \/ MarkUpload \/ RemoveUpload \/ UploadDeleted
  \/ MarkReport \/ RemoveFirst \/ RemoveSecond \/ ReportDeleted
  \/ ListFiles \/ Unlink \/ SweepDone \/ LoseConnection \/ Crash
  \/ \E c \in Claim : ChooseUpload(c) \/ ChooseReport(c) \/ InspectEvidence(c)
  \/ \E o \in Copy : InspectCopy(o)

Next == (\E c \in Claim : Claims(c)) \/ Grow \/ Downloads \/ Sweeps

Spec == Init /\ [][Next]_vars

-----------------------------------------------------------------------------
(* Properties.                                                             *)

TypeOK ==
  /\ upload \in [Claim -> UploadState] /\ job \in [Claim -> JobState]
  /\ evidenceDue \in [Claim -> {"NULL", "LATER", "PAST"}]
  /\ report \in [Claim -> ReportState]
  /\ hold \in [Claim -> BOOLEAN] /\ reportDue \in [Claim -> BOOLEAN] /\ paid \in [Claim -> BOOLEAN]
  /\ evidence \in [Claim -> Age] /\ copy \in [Copy -> Age]
  /\ writer \in [Claim -> {"IDLE", "PUT", "STORED", "FIRST", "SECOND", "BOTH"}]
  /\ member \in BOOLEAN /\ exclusive \in BOOLEAN
  /\ used \subseteq Id
  /\ DOMAIN sweep = {"at", "of"} /\ DOMAIN reader = {"at", "mode", "of"}

\* The files a row promises are there, whatever crashed between a file and
\* its row and wherever the sweep lost its lock: the evidence while the claim
\* may still need it, both copies of a report until it is marked for deletion;
\* and a report held for a payment is never marked (sweepRetention,
\* protectCiphertextWrite).
FilesAreKept ==
  \A c \in Claim :
    /\ upload[c] = "UPLOADED" => evidence[c] # "NONE"
    /\ job[c] = "OPEN" => upload[c] = "UPLOADED"
    /\ report[c] \in {"SEALED", "AVAILABLE"} => \A s \in Side : copy[<<key[c], s>>] # "NONE"
    /\ hold[c] => report[c] = "SEALED"

\* Nobody got a report whose retention had ended when it was sent, and the
\* organization only what it had paid for and a member asked for: a right lost
\* during the decryption is not used (createReportDownloadApp).
ReadersArePermitted ==
  \A d \in delivered : d.retained /\ (d.to = "ORGANIZATION" => d.member /\ d.paid)

ReportsAreSafe == FilesAreKept /\ ReadersArePermitted

=============================================================================
