--------------------------- MODULE AssistantRuns ---------------------------
(***************************************************************************)
(* Questions about an organization's coverage.  A request takes a snapshot *)
(* of the coverage records (services/api/src/assistant-routes.ts); the     *)
(* assistant-run job asks the model about it and saves the answer          *)
(* (services/assistant/src/process.ts).  The records change meanwhile; an  *)
(* answer counts only while they are those of its snapshot.                *)
(*                                                                         *)
(* Requests of several connections interleave; so do the jobs of several   *)
(* runs.  A job may crash anywhere, and the queue runs it twice in all.    *)
(***************************************************************************)
EXTENDS Integers, FiniteSets

CONSTANTS
  Run,         \* rows of assistant_runs
  Connection,  \* of the API
  MaxActive,   \* runs of an organization under way: 2
  MaxRecent,   \* runs within an hour: 10
  MaxSource,   \* bounds of the instance: changes of the records,
  MaxFaults    \* and crashes and changes of membership

Active == {"QUEUED", "RUNNING"}

VARIABLES
  source,      \* the version of the coverage records
  asking,      \* what each connection is doing
  run,         \* assistant_runs: state, attempts, version of the snapshot
  recent,      \* runs of the last hour
  outbox,      \* ASSISTANT_RUN rows not yet processed
  queue,       \* executions of the job of each run that are left
  job,         \* the job that holds the lock assistant-run:<id>
  outdated,    \* runs whose answer arrived after a change of the records
  member,      \* the requester is an active member
  faults

vars == <<source, asking, run, recent, outbox, queue, job, outdated, member, faults>>

NoRun == [state |-> "NONE", attempts |-> 0, snapshot |-> 0]

Init ==
  /\ source = 0 /\ asking = [c \in Connection |-> "IDLE"]
  /\ run = [r \in Run |-> NoRun] /\ recent = {} /\ outbox = {}
  /\ queue = [r \in Run |-> 0]
  /\ job = [r \in Run |-> "IDLE"] /\ outdated = {} /\ member = TRUE /\ faults = 0

UnderWay == {r \in Run : run[r].state \in Active}

-----------------------------------------------------------------------------
(* POST /organizations/:id/assistant-runs                                   *)

\* A faulty variant: the requests of an organization do not take turns.
NobodyAsksAny(c) == TRUE

\* pg_advisory_xact_lock on assistant-org:<id>, held to the commit.
NobodyAsks(c) == \A d \in Connection \ {c} : asking[d] = "IDLE"

\* A run of more than an hour is not counted, in whatever state it is.
Count(c) ==
  /\ asking[c] = "IDLE" /\ member /\ NobodyAsks(c)
  /\ Cardinality(recent) < MaxRecent
  /\ Cardinality(recent \cap UnderWay) < MaxActive
  /\ asking' = [asking EXCEPT ![c] = "INSERT"]
  /\ UNCHANGED <<source, run, recent, outbox, queue, job, outdated, member, faults>>

\* The snapshot, the run and its outbox row, in the same transaction.
Insert(c) ==
  /\ asking[c] = "INSERT"
  /\ \E r \in Run :
       /\ run[r] = NoRun
       /\ run' = [run EXCEPT ![r] = [state |-> "QUEUED", attempts |-> 0, snapshot |-> source]]
       /\ recent' = recent \cup {r}
       /\ outbox' = outbox \cup {r}
  /\ asking' = [asking EXCEPT ![c] = "IDLE"]
  /\ UNCHANGED <<source, queue, job, outdated, member, faults>>

\* Without a coverage record, or when the connection fails.
Abort(c) ==
  /\ asking[c] = "INSERT"
  /\ asking' = [asking EXCEPT ![c] = "IDLE"]
  /\ UNCHANGED <<source, run, recent, outbox, queue, job, outdated, member, faults>>

\* assistant-dispatch: the queue runs a job twice at most.
Dispatch(r) ==
  /\ r \in outbox /\ outbox' = outbox \ {r}
  /\ queue' = [queue EXCEPT ![r] = 2]
  /\ UNCHANGED <<source, asking, run, recent, job, outdated, member, faults>>

-----------------------------------------------------------------------------
(* processAssistantRun                                                      *)

Becomes(r, state) == run' = [run EXCEPT ![r].state = state]
Goto(r, at) == job' = [job EXCEPT ![r] = at]
Current(r) == run[r].snapshot = source

Begin(r) ==
  /\ job[r] = "IDLE" /\ queue[r] > 0 /\ run[r].state \in Active
  /\ queue' = [queue EXCEPT ![r] = @ - 1]
  /\ IF ~member THEN Becomes(r, "CANCELLED") /\ UNCHANGED job
     ELSE IF ~Current(r) THEN Becomes(r, "STALE") /\ UNCHANGED job
     ELSE IF run[r].attempts >= 2 THEN Becomes(r, "FAILED") /\ UNCHANGED job
     ELSE /\ run' = [run EXCEPT ![r].state = "RUNNING", ![r].attempts = @ + 1]
          /\ Goto(r, "ASK")
  /\ UNCHANGED <<source, asking, recent, outbox, outdated, member, faults>>

\* A run that finds the lock taken throws: one execution less.
Collide(r) ==
  /\ job[r] # "IDLE" /\ queue[r] > 0
  /\ queue' = [queue EXCEPT ![r] = @ - 1]
  /\ UNCHANGED <<source, asking, run, recent, outbox, job, outdated, member, faults>>

\* provider.generate fails, or validateAnswer rejects what it returned.
Reject(r) ==
  /\ job[r] = "ASK"
  /\ Becomes(r, "FAILED") /\ Goto(r, "IDLE")
  /\ queue' = [queue EXCEPT ![r] = 0]
  /\ UNCHANGED <<source, asking, recent, outbox, outdated, member, faults>>

\* A valid answer arrives.
Answer(r) ==
  /\ job[r] = "ASK" /\ Goto(r, "RECHECK")
  /\ outdated' = IF Current(r) THEN outdated ELSE outdated \cup {r}
  /\ UNCHANGED <<source, asking, run, recent, outbox, queue, member, faults>>

\* A faulty variant: the records are compared before the call only.
StillCurrentAlways(r) == TRUE

StillCurrent(r) == Current(r)

Recheck(r) ==
  /\ job[r] = "RECHECK"
  /\ Goto(r, IF StillCurrent(r) THEN "COMPLETE" ELSE "STALE")
  /\ UNCHANGED <<source, asking, run, recent, outbox, queue, outdated, member, faults>>

Save(r) ==
  /\ job[r] \in {"COMPLETE", "STALE"}
  /\ Becomes(r, job[r]) /\ Goto(r, "IDLE")
  /\ queue' = [queue EXCEPT ![r] = 0]
  /\ UNCHANGED <<source, asking, recent, outbox, outdated, member, faults>>

-----------------------------------------------------------------------------
(* The environment.                                                         *)

\* A new recommendation, policy or observation, or a funded bounty.
ChangeRecords ==
  /\ source < MaxSource /\ source' = source + 1
  /\ UNCHANGED <<asking, run, recent, outbox, queue, job, outdated, member, faults>>

Crash(r) ==
  /\ job[r] # "IDLE" /\ faults < MaxFaults
  /\ Goto(r, "IDLE") /\ faults' = faults + 1
  /\ UNCHANGED <<source, asking, run, recent, outbox, queue, outdated, member>>

ChangeMembership ==
  /\ faults < MaxFaults /\ faults' = faults + 1 /\ member' = ~member
  /\ UNCHANGED <<source, asking, run, recent, outbox, queue, job, outdated>>

HourPasses ==
  /\ \E r \in recent : recent' = recent \ {r}
  /\ UNCHANGED <<source, asking, run, outbox, queue, job, outdated, member, faults>>

Next ==
  \/ \E c \in Connection : Count(c) \/ Insert(c) \/ Abort(c)
  \/ \E r \in Run : Dispatch(r) \/ Begin(r) \/ Collide(r) \/ Reject(r) \/ Answer(r) \/ Recheck(r)
                    \/ Save(r) \/ Crash(r)
  \/ ChangeRecords \/ ChangeMembership \/ HourPasses

Spec == Init /\ [][Next]_vars

-----------------------------------------------------------------------------
(* Properties.                                                              *)

TypeOK ==
  /\ source \in 0 .. MaxSource /\ recent \subseteq Run /\ outdated \subseteq Run
  /\ \A r \in Run :
       /\ run[r].state \in Active \cup {"NONE", "COMPLETE", "STALE", "FAILED", "CANCELLED"}
       /\ job[r] \in {"IDLE", "ASK", "RECHECK", "COMPLETE", "STALE"}
       /\ queue[r] \in 0 .. 2

\* An answer is shown as complete only if the records it explains were still
\* those of its snapshot when it arrived.
CompleteIsCurrent == \A r \in Run : run[r].state = "COMPLETE" => r \notin outdated

\* However requests interleave, an organization has no more runs of the last
\* hour under way, and no more of them at all, than its limits allow.
LimitsHold ==
  /\ Cardinality(recent \cap UnderWay) <= MaxActive
  /\ Cardinality(recent) <= MaxRecent

RunsAreSafe == CompleteIsCurrent /\ LimitsHold

=============================================================================
