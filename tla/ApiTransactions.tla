-------------------------- MODULE ApiTransactions --------------------------
(***************************************************************************)
(* How the API runs a request that changes state: mutate() of               *)
(* services/api/src/context.ts.  Requests of one actor, route and           *)
(* idempotency key take turns; a request is authorized under the row locks  *)
(* its route takes; then it is answered from the saved response, refused    *)
(* because the key was used for another input, or executed, recorded and    *)
(* committed.  The routes are those of services/api/src/app.ts: creating an *)
(* organization locks no row; adding and changing one's members locks its   *)
(* row.                                                                     *)
(*                                                                          *)
(* A browser that lost a response sends the request again with its key.     *)
(* The process may crash and a connection may be lost anywhere before the   *)
(* commit.                                                                  *)
(***************************************************************************)
EXTENDS Integers, FiniteSets

CONSTANTS
  User,
  Key,          \* idempotency keys
  Connection,   \* the pool
  Change,       \* the changes asked for, of AnyChange
  MaxVersion

Role == {"OWNER", "VIEWER"}
Status == {"ACTIVE", "DISABLED"}
NoMember == [role |-> "VIEWER", status |-> "NONE", version |-> 0]
AnyChange == {"CREATE", "PROMOTE", "DEMOTE", "DISABLE", "ENABLE"}
\* What a POST (version 0) or a PATCH asks for, in its body and If-Match.
Input == [change : Change, version : 0 .. MaxVersion]
Request == {r \in [actor : User, target : User, key : Key, input : Input] :
              r.input.change = "CREATE" => r.target = r.actor /\ r.input.version = 0}

VARIABLES
  membership,   \* memberships
  call,         \* what each connection is doing
  record,       \* idempotency_records: how often each was executed
  revised       \* the inputs each version of a membership was made from

vars == <<membership, call, record, revised>>

Free == [at |-> "FREE"]
Route(r) == IF r.input.change = "CREATE" THEN "ORGANIZATIONS" ELSE "MEMBERS"
Record(r) == <<r.actor, Route(r), r.target, r.key>>
RecordKey == User \X {"ORGANIZATIONS", "MEMBERS"} \X User \X Key

\* The organization's creator is an owner, and perhaps others are.
Init ==
  /\ \E owners \in SUBSET User :
       /\ owners # {}
       /\ membership = [u \in User |-> IF u \in owners
                          THEN [role |-> "OWNER", status |-> "ACTIVE", version |-> 1] ELSE NoMember]
  /\ call = [c \in Connection |-> Free]
  /\ record = [k \in RecordKey |-> 0]
  /\ revised = [u \in User |-> 0]

IsOwner(u) == membership[u].role = "OWNER" /\ membership[u].status = "ACTIVE"
Owners == {u \in User : IsOwner(u)}

-----------------------------------------------------------------------------
At(c, at) == call[c].at = at
Goto(c, at) == call' = [call EXCEPT ![c].at = at]
Rollback(c) == call' = [call EXCEPT ![c] = Free]
Active(c) == ~At(c, "FREE")

\* A faulty variant: requests with one key do not wait for each other.
NoTurns(c, r) == TRUE

\* pg_advisory_xact_lock on actor, route and key.
KeyIsFree(c, r) ==
  \A d \in Connection \ {c} : Active(d) => Record(call[d].request) # Record(r)

Begin(c, r) ==
  /\ At(c, "FREE") /\ KeyIsFree(c, r)
  /\ call' = [call EXCEPT ![c] = [at |-> "AUTHORIZE", request |-> r]]
  /\ UNCHANGED <<membership, record, revised>>

\* A faulty variant: the organization's row is not locked.
NoRowLock(c) == TRUE

\* select ... from organizations for update
LocksRow(c) == call[c].request.input.change # "CREATE"
RowIsFree(c) ==
  LocksRow(c) => \A d \in Connection \ {c} :
                   (At(d, "LOOKUP") \/ At(d, "COMMIT")) => ~LocksRow(d)

Authorize(c) ==
  /\ At(c, "AUTHORIZE") /\ RowIsFree(c)
  /\ IF LocksRow(c) => IsOwner(call[c].request.actor) THEN Goto(c, "LOOKUP") ELSE Rollback(c)
  /\ UNCHANGED <<membership, record, revised>>

\* A member may stay what they are, or an owner step down if another remains.
LastOwner(r) ==
  /\ IsOwner(r.target) /\ r.input.change \in {"DEMOTE", "DISABLE"}
  /\ Cardinality(Owners) <= 1

Accepted(r) ==
  \/ r.input.change = "CREATE"
  \/ /\ r.input.change \in {"PROMOTE", "DEMOTE"} /\ r.input.version = 0
     /\ membership[r.target] = NoMember
  \/ /\ r.input.change # "CREATE" /\ r.input.version = membership[r.target].version
     /\ membership[r.target] # NoMember /\ ~LastOwner(r)

\* A saved response is returned, or the key refused if its input was another:
\* neither changes anything.  Otherwise the route's checks decide.
Lookup(c) ==
  LET r == call[c].request
  IN  /\ At(c, "LOOKUP")
      /\ IF record[Record(r)] = 0 /\ Accepted(r) THEN Goto(c, "COMMIT") ELSE Rollback(c)
      /\ UNCHANGED <<membership, record, revised>>

Changed(m, change) ==
  [role |-> IF change = "PROMOTE" THEN "OWNER" ELSE IF change = "DEMOTE" THEN "VIEWER" ELSE m.role,
   status |-> IF change = "DISABLE" THEN "DISABLED"
              ELSE IF change = "ENABLE" \/ m = NoMember THEN "ACTIVE" ELSE m.status,
   version |-> m.version + 1]

\* The change, the record and the audit event, in one transaction; another
\* organization of the same actor is not followed further.
Commit(c) ==
  LET r == call[c].request
      k == Record(r)
      current == membership[r.target]
  IN  /\ At(c, "COMMIT")
      /\ IF LocksRow(c)
         THEN /\ current.version < MaxVersion
              /\ membership' = [membership EXCEPT ![r.target] = Changed(@, r.input.change)]
              /\ revised' = [revised EXCEPT ![r.target] = IF r.input.version = current.version THEN @ ELSE @ + 1]
         ELSE UNCHANGED <<membership, revised>>
      /\ record' = [record EXCEPT ![k] = @ + 1]
      /\ Rollback(c)

\* A crash, a lost connection or an error.
Abort(c) ==
  /\ Active(c) /\ Rollback(c)
  /\ UNCHANGED <<membership, record, revised>>

Next ==
  \E c \in Connection :
    \/ \E r \in Request : Begin(c, r)
    \/ Authorize(c) \/ Lookup(c) \/ Commit(c) \/ Abort(c)

Spec == Init /\ [][Next]_vars

-----------------------------------------------------------------------------
(* Properties.                                                              *)

TypeOK ==
  /\ \A u \in User : membership[u].role \in Role /\ membership[u].version \in 0 .. MaxVersion
  /\ \A c \in Connection : Active(c) => call[c].request \in Request
  /\ \A k \in RecordKey : record[k] \in Nat

\* However often a request is sent, and whatever runs beside it, it is
\* executed once for its key, and no call that has passed the lookup finds
\* that another has executed it ("Serialize duplicate retries before any state
\* change or response is made", context.ts:84).
ExecutedOnce ==
  /\ \A k \in RecordKey : record[k] <= 1
  /\ \A c \in Connection : At(c, "COMMIT") => record[Record(call[c].request)] = 0

\* An organization keeps an active owner, also when two owners demote each
\* other at the same time (LAST_OWNER).
OwnerRemains == Owners # {}

\* No change is made from a version that another change has replaced.
NothingIsOverwritten == \A u \in User : revised[u] = 0

RequestsAreSafe == ExecutedOnce /\ OwnerRemains /\ NothingIsOverwritten

=============================================================================
