----------------------- MODULE ApiTransactionsProofs -----------------------
(***************************************************************************)
(* What mutate() promises, for any number of users, keys and connections.   *)
(***************************************************************************)
EXTENDS ApiTransactions, FiniteSetTheorems, TLAPS

-----------------------------------------------------------------------------
(* The inductive invariant.                                                 *)

Locked(c) == (At(c, "LOOKUP") \/ At(c, "COMMIT")) /\ LocksRow(c)

Types ==
  /\ membership \in [User -> [role : Role, status : Status \cup {"NONE"}, version : Int]]
  /\ call \in [Connection -> {Free} \cup [at : {"AUTHORIZE", "LOOKUP", "COMMIT"}, request : Request]]
  /\ record \in [RecordKey -> {0, 1}]
  /\ revised \in [User -> {0}]

\* Two requests of one actor, route and key are never under way together.
KeysTakeTurns ==
  \A c, d \in Connection :
    Active(c) /\ Active(d) /\ Record(call[c].request) = Record(call[d].request) => c = d

\* One request at a time holds the organization's row.
RowIsExclusive == \A c, d \in Connection : Locked(c) /\ Locked(d) => c = d

\* What the lookup found still holds when the change is committed.
Decided ==
  \A c \in Connection : At(c, "COMMIT") =>
    LET r == call[c].request IN
    /\ record[Record(r)] = 0
    /\ LocksRow(c) => r.input.version = membership[r.target].version /\ ~LastOwner(r)

IInv == Types /\ KeysTakeTurns /\ RowIsExclusive /\ Decided

-----------------------------------------------------------------------------
(* Lemmas.                                                                  *)

\* The record of a request is one of the table's.
LEMMA RecordType == \A r \in Request : Record(r) \in RecordKey
BY DEF Record, Route, RecordKey, Request

\* An input that a locked route accepts was made from the present version,
\* and does not take the last owner away.
LEMMA AcceptedIsCurrent ==
  ASSUME Types, NEW r \in Request, r.input.change # "CREATE", Accepted(r)
  PROVE  r.input.version = membership[r.target].version /\ ~LastOwner(r)
<1>1. CASE membership[r.target] = NoMember
  BY <1>1 DEF Accepted, NoMember, LastOwner, IsOwner
<1>2. CASE membership[r.target] # NoMember
  BY <1>2 DEF Accepted
<1> QED BY <1>1, <1>2

\* A connection that ends its call, for whatever reason, and leaves the rows
\* alone keeps the invariant.
LEMMA RollbackKeeps ==
  ASSUME IInv, NEW c \in Connection, Rollback(c), UNCHANGED <<membership, record, revised>>
  PROVE  IInv'
<1>1. call' \in [Connection -> {Free} \cup [at : {"AUTHORIZE", "LOOKUP", "COMMIT"}, request : Request]]
  BY DEF IInv, Types, Rollback
<1>2. \A d \in Connection : call'[d] = call[d] \/ (d = c /\ call'[d].at = "FREE")
  BY DEF IInv, Types, Rollback, Free
<1>3. Types'
  BY <1>1 DEF IInv, Types
<1>4. KeysTakeTurns'
  BY <1>2 DEF IInv, KeysTakeTurns, Active, At
<1>5. RowIsExclusive'
  BY <1>2 DEF IInv, RowIsExclusive, Locked, LocksRow, At
<1>6. Decided'
  BY <1>2 DEF IInv, Decided, LocksRow, At, LastOwner, IsOwner, Owners
<1> QED BY <1>3, <1>4, <1>5, <1>6 DEF IInv

-----------------------------------------------------------------------------
(* Each step keeps the invariant.                                           *)

\* The first states satisfy the invariant.
LEMMA InitIInv == Init => IInv
<1> SUFFICES ASSUME Init PROVE IInv
  OBVIOUS
<1>1. Types
  BY DEF Init, Types, Role, Status, NoMember
<1>2. \A c \in Connection : call[c].at = "FREE"
  BY DEF Init, Free
<1> QED BY <1>1, <1>2 DEF IInv, KeysTakeTurns, RowIsExclusive, Decided, Locked, Active, At

\* A request begins when no other with its key is under way.
LEMMA BeginKeeps ==
  ASSUME IInv, NEW c \in Connection, NEW r \in Request, Begin(c, r)
  PROVE  IInv'
<1>1. Types'
  BY DEF IInv, Types, Begin
<1>2. /\ call'[c] = [at |-> "AUTHORIZE", request |-> r]
      /\ \A d \in Connection \ {c} : call'[d] = call[d]
  BY DEF IInv, Types, Begin
<1>3. KeysTakeTurns'
  BY <1>2 DEF IInv, KeysTakeTurns, Active, At, Begin, KeyIsFree
<1>4. RowIsExclusive'
  BY <1>2 DEF IInv, RowIsExclusive, Locked, LocksRow, At
<1>5. Decided'
  BY <1>2 DEF IInv, Decided, LocksRow, At, LastOwner, IsOwner, Owners, Begin
<1> QED BY <1>1, <1>3, <1>4, <1>5 DEF IInv

\* A request that is authorized holds the row, if its route takes it.
LEMMA AuthorizeKeeps ==
  ASSUME IInv, NEW c \in Connection, Authorize(c)
  PROVE  IInv'
<1>1. CASE Rollback(c)
  BY <1>1, RollbackKeeps DEF Authorize
<1>2. CASE Goto(c, "LOOKUP")
  <2>1. call[c] \in [at : {"AUTHORIZE", "LOOKUP", "COMMIT"}, request : Request]
    BY DEF IInv, Types, Authorize, At, Free
  <2>2. /\ call[c].at = "AUTHORIZE"
        /\ \A d \in Connection \ {c} : call'[d] = call[d]
    BY <1>2 DEF IInv, Types, Goto, Authorize, At
  <2>3. call'[c].at = "LOOKUP" /\ call'[c].request = call[c].request
    BY <1>2, <2>1 DEF IInv, Types, Goto
  <2>4. Types'
    BY <1>2, <2>1 DEF IInv, Types, Goto, Authorize
  <2>5. KeysTakeTurns'
    BY <2>2, <2>3 DEF IInv, KeysTakeTurns, Active, At
  <2>6. RowIsExclusive'
    <3>1. LocksRow(c) => \A d \in Connection \ {c} : ~Locked(d)
      BY DEF Authorize, RowIsFree, Locked
    <3> QED BY <3>1, <2>2, <2>3 DEF IInv, RowIsExclusive, Locked, LocksRow, At
  <2>7. Decided'
    BY <2>2, <2>3 DEF IInv, Decided, LocksRow, At, LastOwner, IsOwner, Owners, Authorize
  <2> QED BY <2>4, <2>5, <2>6, <2>7 DEF IInv
<1> QED BY <1>1, <1>2 DEF Authorize

\* The lookup passes a request only if its key is new and the route accepts it.
LEMMA LookupKeeps ==
  ASSUME IInv, NEW c \in Connection, Lookup(c)
  PROVE  IInv'
<1>1. CASE Rollback(c)
  BY <1>1, RollbackKeeps DEF Lookup
<1>2. CASE record[Record(call[c].request)] = 0 /\ Accepted(call[c].request) /\ Goto(c, "COMMIT")
  <2>1. call[c] \in [at : {"AUTHORIZE", "LOOKUP", "COMMIT"}, request : Request]
    BY DEF IInv, Types, Lookup, At, Free
  <2>2. /\ call[c].at = "LOOKUP"
        /\ \A d \in Connection \ {c} : call'[d] = call[d]
    BY <1>2 DEF IInv, Types, Goto, Lookup, At
  <2>3. call'[c].at = "COMMIT" /\ call'[c].request = call[c].request
    BY <1>2, <2>1 DEF IInv, Types, Goto
  <2>4. Types'
    BY <1>2, <2>1 DEF IInv, Types, Goto, Lookup
  <2>5. KeysTakeTurns'
    BY <2>2, <2>3 DEF IInv, KeysTakeTurns, Active, At
  <2>6. RowIsExclusive'
    BY <2>2, <2>3 DEF IInv, RowIsExclusive, Locked, LocksRow, At
  <2>7. Decided'
    <3> SUFFICES ASSUME NEW d \in Connection, call'[d].at = "COMMIT"
                 PROVE  LET r == call'[d].request IN
                        /\ record[Record(r)] = 0
                        /\ r.input.change # "CREATE" =>
                             r.input.version = membership[r.target].version /\ ~LastOwner(r)
      BY DEF Decided, At, LocksRow, Lookup, LastOwner, IsOwner, Owners
    <3>1. CASE d = c
      BY <3>1, <1>2, <2>1, <2>3, AcceptedIsCurrent DEF IInv
    <3>2. CASE d # c
      BY <3>2, <2>2 DEF IInv, Decided, At, LocksRow
    <3> QED BY <3>1, <3>2
  <2> QED BY <2>4, <2>5, <2>6, <2>7 DEF IInv
<1> QED BY <1>1, <1>2 DEF Lookup

\* A commit writes one record, of which no other call is waiting, and changes
\* a membership only while no other call holds the row.
LEMMA CommitKeeps ==
  ASSUME IInv, NEW c \in Connection, Commit(c)
  PROVE  IInv'
<1> DEFINE r == call[c].request
           k == Record(r)
<1>1. call[c] \in [at : {"AUTHORIZE", "LOOKUP", "COMMIT"}, request : Request]
  BY DEF IInv, Types, Commit, At, Free
<1>2. r \in Request /\ k \in RecordKey /\ r.target \in User
  BY <1>1, RecordType DEF Request
<1>3. /\ call'[c].at = "FREE" /\ \A d \in Connection \ {c} : call'[d] = call[d]
      /\ call' \in [Connection -> {Free} \cup [at : {"AUTHORIZE", "LOOKUP", "COMMIT"}, request : Request]]
  BY DEF IInv, Types, Commit, Rollback, Free
<1>4. record[k] = 0 /\ (LocksRow(c) => r.input.version = membership[r.target].version)
  BY DEF IInv, Decided, Commit
<1>5. record' = [record EXCEPT ![k] = 1]
  BY <1>2, <1>4 DEF IInv, Types, Commit
<1>6. Types'
  <2>1. record' \in [RecordKey -> {0, 1}]
    BY <1>2, <1>5 DEF IInv, Types
  <2>2. revised' \in [User -> {0}]
    BY <1>2, <1>4 DEF IInv, Types, Commit
  <2>3. membership' \in [User -> [role : Role, status : Status \cup {"NONE"}, version : Int]]
    <3>1. CASE ~LocksRow(c)
      BY <3>1 DEF IInv, Types, Commit
    <3>2. CASE LocksRow(c)
      <4>1. membership[r.target] \in [role : Role, status : Status \cup {"NONE"}, version : Int]
        BY <1>2 DEF IInv, Types
      <4>2. Changed(membership[r.target], r.input.change)
              \in [role : Role, status : Status \cup {"NONE"}, version : Int]
        BY <4>1 DEF Changed, Role, Status
      <4> QED BY <3>2, <4>2, <1>2 DEF IInv, Types, Commit
    <3> QED BY <3>1, <3>2
  <2> QED BY <2>1, <2>2, <2>3, <1>3 DEF Types
<1>7. KeysTakeTurns'
  BY <1>3 DEF IInv, KeysTakeTurns, Active, At
<1>8. RowIsExclusive'
  BY <1>3 DEF IInv, RowIsExclusive, Locked, LocksRow, At
<1>9. Decided'
  <2> SUFFICES ASSUME NEW d \in Connection, call'[d].at = "COMMIT"
               PROVE  LET q == call[d].request IN
                      /\ record'[Record(q)] = 0
                      /\ q.input.change # "CREATE" =>
                           q.input.version = membership'[q.target].version /\ ~LastOwner(q)'
    BY <1>3 DEF Decided, At, LocksRow
  <2>1. d # c /\ call'[d] = call[d] /\ call[d].at = "COMMIT"
    BY <1>3
  <2>2. call[d] \in [at : {"AUTHORIZE", "LOOKUP", "COMMIT"}, request : Request]
    BY <2>1 DEF IInv, Types, Free
  <2>3. Record(call[d].request) # k /\ Record(call[d].request) \in RecordKey
    BY <2>1, <2>2, RecordType DEF IInv, KeysTakeTurns, Active, At, Commit
  <2>4. record'[Record(call[d].request)] = 0
    BY <2>1, <2>3, <1>5 DEF IInv, Types, Decided, At
  <2>5. ASSUME call[d].request.input.change # "CREATE" PROVE UNCHANGED membership
    BY <2>5, <2>1 DEF IInv, RowIsExclusive, Locked, LocksRow, At, Commit
  <2> QED BY <2>1, <2>4, <2>5 DEF IInv, Decided, At, LocksRow, LastOwner, IsOwner, Owners
<1> QED BY <1>6, <1>7, <1>8, <1>9 DEF IInv

\* Every step keeps the invariant.
LEMMA NextIInv == IInv /\ [Next]_vars => IInv'
<1> SUFFICES ASSUME IInv, [Next]_vars PROVE IInv'
  OBVIOUS
<1>1. CASE UNCHANGED vars
  BY <1>1 DEF vars, IInv, Types, KeysTakeTurns, RowIsExclusive, Decided, Locked, LocksRow, Active, At,
     LastOwner, IsOwner, Owners
<1>2. ASSUME NEW c \in Connection, NEW r \in Request, Begin(c, r) PROVE IInv'
  BY <1>2, BeginKeeps
<1>3. ASSUME NEW c \in Connection, Authorize(c) PROVE IInv'
  BY <1>3, AuthorizeKeeps
<1>4. ASSUME NEW c \in Connection, Lookup(c) PROVE IInv'
  BY <1>4, LookupKeeps
<1>5. ASSUME NEW c \in Connection, Commit(c) PROVE IInv'
  BY <1>5, CommitKeeps
<1>6. ASSUME NEW c \in Connection, Abort(c) PROVE IInv'
  BY <1>6, RollbackKeeps DEF Abort
<1> QED BY <1>1, <1>2, <1>3, <1>4, <1>5, <1>6 DEF Next

\* The invariant holds always.
THEOREM Inductive == Spec => []IInv
BY InitIInv, NextIInv, PTL DEF Spec

-----------------------------------------------------------------------------
(* Theorems.                                                                *)

\* A request is executed once for its key, however often and wherever it is
\* sent (mutate).
THEOREM ExecutedOnceAlways == Spec => []ExecutedOnce
<1>1. IInv => ExecutedOnce
  BY DEF IInv, Types, Decided, ExecutedOnce, At
<1> QED BY <1>1, Inductive, PTL

\* No membership is changed from a version that another change has replaced
\* (STALE_RESOURCE in app.ts).
THEOREM NothingIsOverwrittenAlways == Spec => []NothingIsOverwritten
<1>1. IInv => NothingIsOverwritten
  BY DEF IInv, Types, NothingIsOverwritten
<1> QED BY <1>1, Inductive, PTL

\* A change that is committed leaves an owner: it either takes no owner away
\* or takes one of several.
LEMMA CommitKeepsOwner ==
  ASSUME IsFiniteSet(User), IInv, OwnerRemains, NEW c \in Connection, Commit(c)
  PROVE  OwnerRemains'
<1> DEFINE r == call[c].request
<1>1. call[c] \in [at : {"AUTHORIZE", "LOOKUP", "COMMIT"}, request : Request]
  BY DEF IInv, Types, Commit, At, Free
<1>2. r.target \in User
  BY <1>1 DEF Request
<1>3. CASE ~LocksRow(c)
  BY <1>3 DEF Commit, OwnerRemains, Owners, IsOwner
<1>4. CASE LocksRow(c)
  <2>1. membership' = [membership EXCEPT ![r.target] = Changed(membership[r.target], r.input.change)]
    BY <1>4 DEF Commit
  <2>2. \A u \in User \ {r.target} : membership'[u] = membership[u]
    BY <2>1 DEF IInv, Types
  <2>3. ~LastOwner(r)
    BY <1>4 DEF IInv, Decided, Commit
  <2>4. CASE \E u \in Owners : u # r.target
    BY <2>2, <2>4 DEF OwnerRemains, Owners, IsOwner
  <2>5. CASE \A u \in Owners : u = r.target
    <3>1. Owners = {r.target}
      BY <2>5 DEF OwnerRemains
    <3>2. Cardinality(Owners) = 1 /\ IsOwner(r.target)
      BY <3>1, FS_Singleton DEF Owners
    <3>3. r.input.change \notin {"DEMOTE", "DISABLE"}
      BY <2>3, <3>2 DEF LastOwner
    <3>4. membership'[r.target] = Changed(membership[r.target], r.input.change)
      BY <2>1, <1>2 DEF IInv, Types
    <3>5. membership'[r.target].role = "OWNER" /\ membership'[r.target].status = "ACTIVE"
      BY <3>2, <3>3, <3>4 DEF Changed, IsOwner
    <3> QED BY <3>5, <1>2 DEF OwnerRemains, Owners, IsOwner
  <2> QED BY <2>4, <2>5
<1> QED BY <1>3, <1>4

\* An organization begins with an owner.
LEMMA OwnerInit == Init => OwnerRemains
<1> SUFFICES ASSUME Init PROVE OwnerRemains
  OBVIOUS
<1>1. PICK owners \in SUBSET User :
        /\ owners # {}
        /\ membership = [u \in User |-> IF u \in owners
                           THEN [role |-> "OWNER", status |-> "ACTIVE", version |-> 1] ELSE NoMember]
  BY DEF Init
<1>2. PICK u \in owners : u \in User
  BY <1>1
<1>3. membership[u].role = "OWNER" /\ membership[u].status = "ACTIVE"
  BY <1>1, <1>2
<1> QED BY <1>2, <1>3 DEF OwnerRemains, Owners, IsOwner

\* No step takes its last owner away.
LEMMA OwnerNext ==
  ASSUME IsFiniteSet(User), IInv, OwnerRemains, [Next]_vars
  PROVE  OwnerRemains'
<1>1. CASE UNCHANGED membership
  BY <1>1 DEF OwnerRemains, Owners, IsOwner
<1>2. ASSUME NEW c \in Connection, Commit(c) PROVE OwnerRemains'
  BY <1>2, CommitKeepsOwner
<1> QED BY <1>1, <1>2 DEF Next, vars, Begin, Authorize, Lookup, Abort

\* An organization that has an owner always keeps one (LAST_OWNER in app.ts).
THEOREM OwnerRemainsAlways ==
  ASSUME IsFiniteSet(User)
  PROVE  Spec => []OwnerRemains
BY OwnerInit, OwnerNext, Inductive, PTL DEF Spec

-----------------------------------------------------------------------------
(* Types.                                                                   *)

Bounded == \A u \in User : membership[u].version \in 0 .. MaxVersion

\* The first versions are within the bound, and a change waits for room.
LEMMA BoundedInit == ASSUME MaxVersion \in Nat \ {0}, Init PROVE Bounded
<1>1. PICK owners \in SUBSET User :
        membership = [u \in User |-> IF u \in owners
                        THEN [role |-> "OWNER", status |-> "ACTIVE", version |-> 1] ELSE NoMember]
  BY DEF Init
<1> QED BY <1>1 DEF Bounded, NoMember

\* No change makes a version beyond it.
LEMMA BoundedNext == ASSUME MaxVersion \in Nat \ {0}, IInv, Bounded, [Next]_vars PROVE Bounded'
<1>1. CASE UNCHANGED membership
  BY <1>1 DEF Bounded
<1>2. ASSUME NEW c \in Connection, Commit(c), LocksRow(c) PROVE Bounded'
  <2> DEFINE u == call[c].request.target
             m == Changed(membership[u], call[c].request.input.change)
  <2>1. membership' = [membership EXCEPT ![u] = m] /\ membership[u].version < MaxVersion
    BY <1>2 DEF Commit
  <2>2. m.version = membership[u].version + 1
    BY DEF Changed
  <2> HIDE DEF m
  <2>3. u \in User => m.version \in 0 .. MaxVersion
    BY <2>1, <2>2 DEF Bounded
  <2> QED BY <2>1, <2>3 DEF IInv, Types, Bounded
<1> QED BY <1>1, <1>2 DEF Next, vars, Begin, Authorize, Lookup, Abort, Commit

\* The invariant gives the type invariant.
LEMMA TypesSuffice == IInv /\ Bounded => TypeOK
BY DEF IInv, Types, Bounded, TypeOK, Active, At, Free

-----------------------------------------------------------------------------
(* One request at a time: what mutate() implements.                         *)

\* The whole request in one step: its key is new, its actor is authorized and
\* its route accepts it by the rows as they are; the change and the record are
\* made together.
Execute(r) ==
  /\ record[Record(r)] = 0 /\ Accepted(r)
  /\ record' = [record EXCEPT ![Record(r)] = 1]
  /\ IF r.input.change = "CREATE" THEN UNCHANGED membership
     ELSE /\ IsOwner(r.actor)
          /\ membership' = [membership EXCEPT ![r.target] = Changed(@, r.input.change)]

\* What a call found in its authorization and its lookup is so until it commits.
FindingsHold ==
  \A c \in Connection :
    LET r == call[c].request IN
    /\ Locked(c) => IsOwner(r.actor)
    /\ At(c, "COMMIT") => Accepted(r)

\* FindingsHold is kept: a call that changes the memberships has the row, so no
\* other call has findings about them.
LEMMA FindingsNext == ASSUME IInv, FindingsHold, [Next]_vars PROVE FindingsHold'
<1>1. ASSUME NEW c \in Connection, Commit(c), LocksRow(c) PROVE FindingsHold'
  <2> SUFFICES ASSUME NEW d \in Connection, call'[d].at \in {"LOOKUP", "COMMIT"}
               PROVE  d # c /\ call'[d] = call[d] /\ call[d].request.input.change = "CREATE"
    BY DEF FindingsHold, Locked, LocksRow, At, Accepted
  <2>1. d # c /\ call'[d] = call[d]
    BY <1>1 DEF IInv, Types, Commit, Rollback, Free
  <2> QED BY <1>1, <2>1 DEF IInv, RowIsExclusive, Locked, LocksRow, At, Commit
<1>2. ASSUME UNCHANGED membership, NEW c \in Connection, call' = [call EXCEPT ![c] = Free]
      PROVE  FindingsHold'
  <2>1. \A d \in Connection : call'[d] = call[d] \/ call'[d].at = "FREE"
    BY <1>2 DEF IInv, Types, Free
  <2> QED BY <1>2, <2>1 DEF FindingsHold, Locked, LocksRow, At, IsOwner, Accepted, LastOwner, Owners
<1>3. ASSUME NEW c \in Connection, NEW r \in Request, Begin(c, r) PROVE FindingsHold'
  <2>1. /\ \A d \in Connection \ {c} : call'[d] = call[d]
        /\ call'[c].at = "AUTHORIZE"
    BY <1>3 DEF IInv, Types, Begin
  <2> QED BY <1>3, <2>1
     DEF Begin, FindingsHold, Locked, LocksRow, At, IsOwner, Accepted, LastOwner, Owners
<1>4. ASSUME NEW c \in Connection, Authorize(c), Goto(c, "LOOKUP") PROVE FindingsHold'
  <2>1. call[c] \in [at : {"AUTHORIZE", "LOOKUP", "COMMIT"}, request : Request]
    BY <1>4 DEF IInv, Types, Authorize, At, Free
  <2>2. /\ \A d \in Connection \ {c} : call'[d] = call[d]
        /\ call'[c].at = "LOOKUP" /\ call'[c].request = call[c].request
    BY <1>4, <2>1 DEF IInv, Types, Goto
  <2>3. LocksRow(c) => IsOwner(call[c].request.actor)
    BY <1>4, <2>1, <2>2 DEF Authorize, Rollback, Free, IInv, Types
  <2> QED BY <1>4, <2>2, <2>3
     DEF Authorize, FindingsHold, Locked, LocksRow, At, IsOwner, Accepted, LastOwner, Owners
<1>5. ASSUME NEW c \in Connection, Lookup(c), Goto(c, "COMMIT") PROVE FindingsHold'
  <2>1. call[c] \in [at : {"AUTHORIZE", "LOOKUP", "COMMIT"}, request : Request]
    BY <1>5 DEF IInv, Types, Lookup, At, Free
  <2>2. /\ \A d \in Connection \ {c} : call'[d] = call[d]
        /\ call'[c].at = "COMMIT" /\ call'[c].request = call[c].request
    BY <1>5, <2>1 DEF IInv, Types, Goto
  <2>3. Accepted(call[c].request) /\ (LocksRow(c) => IsOwner(call[c].request.actor))
    BY <1>5, <2>1, <2>2 DEF Lookup, Rollback, Free, IInv, Types, FindingsHold, Locked
  <2> QED BY <1>5, <2>2, <2>3
     DEF Lookup, FindingsHold, Locked, LocksRow, At, IsOwner, Accepted, LastOwner, Owners
<1>6. CASE UNCHANGED vars
  BY <1>6 DEF vars, FindingsHold, Locked, LocksRow, At, IsOwner, Accepted, LastOwner, Owners
<1> QED BY <1>1, <1>2, <1>3, <1>4, <1>5, <1>6 DEF Next, Authorize, Lookup, Commit, Abort, Rollback

\* Every step that changes what the tables hold is one request, whole.
LEMMA StepsAreAtomic ==
  ASSUME IInv, FindingsHold, [Next]_vars
  PROVE  [\E r \in Request : Execute(r)]_<<membership, record>>
<1>1. ASSUME NEW c \in Connection, Commit(c) PROVE \E r \in Request : Execute(r)
  <2> DEFINE r == call[c].request
  <2>1. r \in Request
    BY <1>1 DEF IInv, Types, Commit, At, Free
  <2>2. record[Record(r)] = 0 /\ Accepted(r) /\ (LocksRow(c) => IsOwner(r.actor))
    BY <1>1 DEF Commit, IInv, Decided, FindingsHold, Locked
  <2>3. record' = [record EXCEPT ![Record(r)] = 1]
    BY <1>1, <2>1, <2>2, RecordType DEF Commit, IInv, Types
  <2>4. Execute(r)
    BY <1>1, <2>2, <2>3 DEF Execute, Commit, LocksRow
  <2> QED BY <2>1, <2>4
<1>2. CASE UNCHANGED <<membership, record>>
  BY <1>2
<1> QED BY <1>1, <1>2 DEF Next, vars, Begin, Authorize, Lookup, Abort

\* Whatever runs at the same time, crashes or is sent again, the memberships
\* and the records change as if the requests had been made one after the other,
\* each by somebody who was an owner at that moment (mutate, app.ts).
THEOREM RequestsAreAtomic == Spec => [][\E r \in Request : Execute(r)]_<<membership, record>>
<1>1. Init => FindingsHold
  BY DEF Init, FindingsHold, Locked, At, Free
<1>2. IInv /\ FindingsHold /\ [Next]_vars => FindingsHold'
  BY FindingsNext
<1>3. IInv /\ FindingsHold /\ [Next]_vars => [\E r \in Request : Execute(r)]_<<membership, record>>
  BY StepsAreAtomic
<1> QED BY <1>1, <1>2, <1>3, Inductive, PTL DEF Spec

=============================================================================
