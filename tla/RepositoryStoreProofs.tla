------------------------ MODULE RepositoryStoreProofs ------------------------
(***************************************************************************)
(* Proofs about the repository store, for any number of concurrent         *)
(* requests, any names and foldings, any pool and any failures.            *)
(***************************************************************************)
EXTENDS RepositoryStore, FiniteSetTheorems, TLAPS

CallType == [op : Operation \cup {"none"}, name : Name \cup {NoName}, id : Request \cup {NoId},
             limit : 0..MaxLimit, offset : Nat]

\* The arguments of a call: a name create() sends to the database is a legal one, and
\* an id is one that some client was given, or that of no row.
CallInv(r) ==
    /\ call[r].op \in {"create", "get_by_name"} => call[r].name \in Name
    /\ call[r].op = "create" /\ outcome[r] # "InvalidRepositoryName" => Wanted(r) \in Name
    /\ call[r].id \in Stored \cup {NoId}

\* What each await of a call entails.
ControlInv(r) ==
    /\ pc[r] \in {"idle", "pool", "begun"} => found[r] = {}
    /\ pc[r] \in {"idle", "pool", "begun", "counted", "written"} => outcome[r] = "none"
    /\ pc[r] = "begun" => began[r] # 0
    /\ pc[r] \in {"begun", "counted", "written"} => r \in conn
    /\ pc[r] = "counted" => call[r].op = "list"
    /\ pc[r] = "failed" => call[r].op = "create"
    /\ pc[r] = "written" => call[r].op \in {"create", "delete"}
    /\ pc[r] = "written" /\ call[r].op = "create" => staged[r] # NoRow /\ found[r] = {r}
    /\ pc[r] = "written" /\ call[r].op = "delete" =>
         \/ staged[r] = NoRow /\ found[r] = {} /\ call[r].id = NoId
         \/ staged[r] # NoRow /\ found[r] = {call[r].id}

\* A row comes from one create(), which has left the database and reports no conflict.
StoredInv(r) ==
    row[r] # NoRow => /\ call[r].op = "create"
                      /\ pc[r] \in {"returned", "closed", "dead"}
                      /\ outcome[r] \in {"none", "ok", "error"}

\* An uncommitted insert carries a name that no row has.
InsertInv(r) ==
    staged[r] # NoRow /\ call[r].op = "create" =>
        /\ row[r] = NoRow
        /\ staged[r].name = Wanted(r)
        /\ \A i \in Stored : Fold[row[i].name] # Fold[staged[r].name]

\* An uncommitted update keeps the name, the creation and the first deletion of the
\* row it replaces.
UpdateInv(r) ==
    staged[r] # NoRow /\ call[r].op = "delete" =>
        /\ call[r].id \in Stored
        /\ staged[r].name = row[call[r].id].name
        /\ staged[r].created = row[call[r].id].created
        /\ staged[r].deleted # Never
        /\ row[call[r].id].deleted # Never => staged[r].deleted = row[call[r].id].deleted

\* Whose transaction may be open.
StagedInv(r) ==
    staged[r] # NoRow => /\ pc[r] \in {"written", "returned", "closed", "dead"}
                         /\ outcome[r] \in {"none", "error"}
                         /\ call[r].op \in {"create", "delete"}
                         /\ r \in conn \/ pc[r] \in {"closed", "dead"}

ConnInv(r) == r \in conn => pc[r] \in {"begun", "counted", "written", "failed", "returned"}

CreateInv(r) ==
    call[r].op = "create" =>
        /\ outcome[r] = "ok" => r \in Stored /\ row[r].name = Wanted(r)
        /\ outcome[r] = "RepositoryAlreadyExists" =>
             \E i \in Stored : Fold[row[i].name] = Fold[Wanted(r)]

DeleteInv(r) ==
    call[r].op = "delete" =>
        /\ outcome[r] = "ok" => call[r].id \in Stored \ Active
        /\ outcome[r] = "RepositoryNotFound" => call[r].id = NoId

OwnInv(r) == /\ CallInv(r) /\ ControlInv(r) /\ StoredInv(r)
             /\ StagedInv(r) /\ InsertInv(r) /\ UpdateInv(r)
             /\ ConnInv(r) /\ CreateInv(r) /\ DeleteInv(r)

\* The index and row locks: no two open transactions write one name.
LockInv ==
    \A r, o \in Request :
        staged[r] # NoRow /\ staged[o] # NoRow /\ Fold[staged[r].name] = Fold[staged[o].name]
            => r = o

Typed == /\ TypeOK
         /\ call \in [Request -> CallType]
         /\ known \in [Request -> SUBSET Request]
         /\ gone \in [Request -> SUBSET Request]

IInv == /\ Typed
        /\ NamesUnique
        /\ LockInv
        /\ \A r \in Request : OwnInv(r)

RequestStep(r) == Arrive(r) \/ Serve(r) \/ Fail(r)

-----------------------------------------------------------------------------
(* Types *)

\* An arrival, whatever the operation: an idle request gets a well-formed call.
LEMMA ArriveEffect ==
    ASSUME NEW r \in Request, Arrive(r), Typed
    PROVE  /\ pc[r] = "idle"
           /\ \E c \in CallType :
                /\ call' = [call EXCEPT ![r] = c]
                /\ c.op \in Operation
                /\ c.op \in {"create", "get_by_name"} => c.name \in Name
                /\ c.id \in Stored \cup {NoId}
                /\ \/ pc' = [pc EXCEPT ![r] = "pool"] /\ UNCHANGED outcome
                      /\ (c.op = "create" => Parse[c.name] # NoName)
                   \/ /\ pc' = [pc EXCEPT ![r] = "returned"]
                      /\ outcome' = [outcome EXCEPT ![r] = "InvalidRepositoryName"]
                      /\ c.op = "create" /\ Parse[c.name] = NoName
                /\ IF c.op \in {"create", "delete"}
                     THEN UNCHANGED <<known, gone>>
                     ELSE /\ known' = [known EXCEPT ![r] = Stored]
                          /\ gone' = [gone EXCEPT ![r] = Stored \ Active]
           /\ UNCHANGED <<dbVars, began, conn, found, total>>
<1> USE DEF Goto, Answer, Return
<1>s. Stored \subseteq Request
  BY DEF Stored
<1>n. NoCall \in CallType
  BY LimitAssumption DEF NoCall, CallType, NoId
<1>1. CASE \E n \in Name : CallCreate(r, n)
  <2>1. PICK n \in Name : CallCreate(r, n)
    BY <1>1
  <2> DEFINE c == [NoCall EXCEPT !.op = "create", !.name = n]
  <2>2. c \in CallType /\ c.op = "create" /\ c.name = n /\ c.id = NoId
    BY <1>n DEF NoCall, CallType, Operation
  <2> HIDE DEF c
  <2> QED
    BY <2>1, <2>2, <1>s DEF CallCreate, Call, c, Operation
<1>2. CASE \E n \in Name : CallGetByName(r, n)
  <2>1. PICK n \in Name : CallGetByName(r, n)
    BY <1>2
  <2> DEFINE c == [NoCall EXCEPT !.op = "get_by_name", !.name = n]
  <2>2. c \in CallType /\ c.op = "get_by_name" /\ c.name = n /\ c.id = NoId
    BY <1>n DEF NoCall, CallType, Operation
  <2>3. Call(r, c) /\ Goto(r, "pool") /\ UNCHANGED outcome
    BY <2>1 DEF CallGetByName
  <2> HIDE DEF c
  <2> QED
    BY <2>3, <2>2, <1>s DEF Call, Operation
<1>3. CASE \E i \in Stored \cup {NoId} : CallGetById(r, i)
  <2>1. PICK i \in Stored \cup {NoId} : CallGetById(r, i)
    BY <1>3
  <2> DEFINE c == [NoCall EXCEPT !.op = "get_by_id", !.id = i]
  <2>2. c \in CallType /\ c.op = "get_by_id" /\ c.id = i
    BY <1>n, <1>s DEF NoCall, CallType, Operation
  <2>3. Call(r, c) /\ Goto(r, "pool") /\ UNCHANGED outcome
    BY <2>1 DEF CallGetById
  <2> HIDE DEF c
  <2> QED
    BY <2>3, <2>2, <1>s DEF Call, Operation
<1>4. CASE \E i \in Stored \cup {NoId} : CallDelete(r, i)
  <2>1. PICK i \in Stored \cup {NoId} : CallDelete(r, i)
    BY <1>4
  <2> DEFINE c == [NoCall EXCEPT !.op = "delete", !.id = i]
  <2>2. c \in CallType /\ c.op = "delete" /\ c.id = i
    BY <1>n, <1>s DEF NoCall, CallType, Operation
  <2>3. Call(r, c) /\ Goto(r, "pool") /\ UNCHANGED outcome
    BY <2>1 DEF CallDelete
  <2> HIDE DEF c
  <2> QED
    BY <2>3, <2>2, <1>s DEF Call, Operation
<1>5. CASE \E l, f \in Asked : CallList(r, l, f)
  <2>1. PICK l \in Asked, f \in Asked : CallList(r, l, f)
    BY <1>5
  <2> DEFINE c == [NoCall EXCEPT !.op = "list", !.limit = ClampLimit(l),
                                 !.offset = ClampOffset(f)]
  <2>2. ClampLimit(l) \in 0..MaxLimit /\ ClampOffset(f) \in Nat
    BY LimitAssumption DEF ClampLimit, ClampOffset
  <2>3. c \in CallType /\ c.op = "list" /\ c.id = NoId
    BY <1>n, <2>2 DEF NoCall, CallType, Operation
  <2>4. Call(r, c) /\ Goto(r, "pool") /\ UNCHANGED outcome
    BY <2>1 DEF CallList
  <2> HIDE DEF c
  <2> QED
    BY <2>4, <2>3, <1>s DEF Call, Operation
<1> QED
  BY <1>1, <1>2, <1>3, <1>4, <1>5 DEF Arrive

\* Every step keeps the types: versions are rows, a page holds ids, the pool is
\* never overdrawn and a count never exceeds the rows there can be.
LEMMA TypeStep ==
    ASSUME IInv, NEW r \in Request, RequestStep(r)
    PROVE  Typed'
<1> USE DEF Goto, Answer, Return, dbVars
<1>t. Typed
  BY DEF IInv
<1>o. OwnInv(r)
  BY DEF IInv
<1>f. IsFiniteSet(conn) /\ Cardinality(conn) \in Nat
  BY <1>t, RequestAssumption, FS_Subset, FS_CardinalityType DEF Typed, TypeOK
<1>r. /\ Cardinality(conn \ {r}) <= PoolSize
      /\ Cardinality(conn) < PoolSize => Cardinality(conn \cup {r}) <= PoolSize
  <2>1. Cardinality(conn \ {r}) \in {Cardinality(conn), Cardinality(conn) - 1}
    BY <1>f, FS_RemoveElement
  <2>2. Cardinality(conn \cup {r}) \in {Cardinality(conn), Cardinality(conn) + 1}
    BY <1>f, FS_AddElement
  <2> QED
    BY <1>t, <1>f, <2>1, <2>2, LimitAssumption DEF Typed, TypeOK
<1>1. CASE Arrive(r)
  <2>1. PICK c \in CallType :
            /\ call' = [call EXCEPT ![r] = c]
            /\ \/ pc' = [pc EXCEPT ![r] = "pool"] /\ UNCHANGED outcome
               \/ /\ pc' = [pc EXCEPT ![r] = "returned"]
                  /\ outcome' = [outcome EXCEPT ![r] = "InvalidRepositoryName"]
            /\ \/ UNCHANGED <<known, gone>>
               \/ /\ known' = [known EXCEPT ![r] = Stored]
                  /\ gone' = [gone EXCEPT ![r] = Stored \ Active]
    BY <1>1, <1>t, ArriveEffect
  <2>2. call' \in [Request -> CallType]
    BY <1>t, <2>1 DEF Typed
  <2>3. \A q \in Request : call'[q] \in CallType
    BY <2>2
  <2>4. known' \in [Request -> SUBSET Request] /\ gone' \in [Request -> SUBSET Request]
    BY <1>t, <2>1 DEF Typed, Stored
  <2>5. pc' \in [Request -> Step] /\ outcome' \in [Request -> Outcome]
    BY <1>t, <2>1 DEF Typed, TypeOK, Step, Outcome
  <2> QED
    BY <1>1, <1>t, <2>2, <2>3, <2>4, <2>5, ArriveEffect DEF Typed, TypeOK, CallType
<1>2. CASE Acquire(r)
  BY <1>2, <1>t, <1>r DEF Acquire, Typed, TypeOK, Step
<1>3. CASE PoolTimeout(r)
  BY <1>3, <1>t DEF PoolTimeout, Typed, TypeOK, Step, Outcome
<1>4. CASE Insert(r)
  <2>1. began[r] \in 1..MaxClock /\ Wanted(r) \in Name
    BY <1>4, <1>t, <1>o DEF Insert, OwnInv, ControlInv, CallInv, Typed, TypeOK
  <2>2. [name |-> Wanted(r), created |-> began[r], updated |-> began[r], deleted |-> Never] \in Row
    BY <2>1, LimitAssumption DEF Row, Never
  <2>3. /\ staged' \in [Request -> Row \cup {NoRow}] /\ found' \in [Request -> SUBSET Request]
        /\ pc' \in [Request -> Step] /\ outcome' \in [Request -> Outcome]
    <3> DEFINE v == [name |-> Wanted(r), created |-> began[r], updated |-> began[r],
                     deleted |-> Never]
    <3>1. v \in Row
      BY <2>2
    <3>2. \/ /\ staged' = [staged EXCEPT ![r] = v] /\ found' = [found EXCEPT ![r] = {r}]
             /\ pc' = [pc EXCEPT ![r] = "written"] /\ UNCHANGED outcome
          \/ /\ pc' = [pc EXCEPT ![r] = "failed"] /\ UNCHANGED <<staged, found>>
             /\ outcome' = [outcome EXCEPT ![r] = "RepositoryAlreadyExists"]
      BY <1>4 DEF Insert
    <3> HIDE DEF v
    <3>3. staged' \in [Request -> Row \cup {NoRow}]
      BY <1>t, <3>1, <3>2 DEF Typed, TypeOK
    <3>4. found' \in [Request -> SUBSET Request]
      BY <1>t, <3>2 DEF Typed, TypeOK
    <3>5. pc' \in [Request -> Step]
      BY <1>t, <3>2 DEF Typed, TypeOK, Step
    <3>6. outcome' \in [Request -> Outcome]
      BY <1>t, <3>2 DEF Typed, TypeOK, Outcome
    <3> QED
      BY <3>3, <3>4, <3>5, <3>6
  <2> QED
    BY <1>4, <1>t, <2>3 DEF Insert, Typed, TypeOK
<1>5. CASE Rollback(r)
  BY <1>5, <1>t, <1>r DEF Rollback, Typed, TypeOK, Step
<1>6. CASE Update(r)
  <2>1. began[r] \in 1..MaxClock
    BY <1>6, <1>t, <1>o DEF Update, OwnInv, ControlInv, Typed, TypeOK
  <2>2. ASSUME NEW v \in Row PROVE SoftDeleted(v, began[r]) \in Row
    <3> DEFINE d == IF v.deleted = Never THEN began[r] ELSE v.deleted
    <3>1. d \in 0..MaxClock /\ began[r] \in 1..MaxClock
      BY <2>1, LimitAssumption DEF Row, Never
    <3> HIDE DEF d
    <3>2. [v EXCEPT !.deleted = d, !.updated = began[r]] \in Row
      BY <3>1 DEF Row
    <3> QED
      BY <3>2 DEF SoftDeleted, d
  <2>3. call[r].id \in Stored => row[call[r].id] \in Row
    BY <1>t DEF Stored, Typed, TypeOK
  <2>4. {call[r].id} \cap Stored \in SUBSET Request
    BY DEF Stored
  <2> QED
    BY <1>6, <1>t, <2>2, <2>3, <2>4 DEF Update, Typed, TypeOK, Step
<1>7. CASE Commit(r)
  BY <1>7, <1>t, <1>r DEF Commit, Typed, TypeOK, Step, Outcome, Target
<1>8. CASE Select(r)
  <2>1. FindActive(r) \in SUBSET Request
    BY DEF FindActive, Active, Stored
  <2> QED
    BY <1>8, <1>t, <2>1 DEF Select, Typed, TypeOK, Step, Outcome
<1>9. CASE ListPage(r)
  <2>1. Page(call[r].limit, call[r].offset) \in SUBSET Request
    BY DEF Page, Active, Stored
  <2> QED
    BY <1>9, <1>t, <2>1 DEF ListPage, Typed, TypeOK, Step
<1>10. CASE ListTotal(r)
  <2>1. Active \in SUBSET Request
    BY DEF Active, Stored
  <2>2. Total \in 0..Cardinality(Request)
    <3>1. IsFiniteSet(Active) /\ Cardinality(Active) <= Cardinality(Request)
      BY <2>1, RequestAssumption, FS_Subset
    <3> QED
      BY <3>1, RequestAssumption, FS_CardinalityType DEF Total
  <2> QED
    BY <1>10, <1>t, <2>2 DEF ListTotal, Typed, TypeOK, Step, Outcome
<1>11. CASE CommandTimeout(r)
  <2>1. pc' \in [Request -> Step] /\ outcome' \in [Request -> Outcome]
    BY <1>11, <1>t DEF CommandTimeout, Raise, Typed, TypeOK, Step, Outcome
  <2> QED
    BY <1>11, <1>t, <2>1 DEF CommandTimeout, Typed, TypeOK
<1>12. CASE Close(r)
  BY <1>12, <1>t, <1>r, LimitAssumption DEF Close, Typed, TypeOK, Step
<1>13. CASE DbError(r)
  <2>1. pc' \in [Request -> Step] /\ outcome' \in [Request -> Outcome]
    BY <1>13, <1>t DEF DbError, Raise, Typed, TypeOK, Step, Outcome
  <2> QED
    BY <1>13, <1>t, <2>1 DEF DbError, Typed, TypeOK
<1>14. CASE Resolve(r)
  BY <1>14, <1>t DEF Resolve, Typed, TypeOK, Target
<1> QED
  BY <1>1, <1>2, <1>3, <1>4, <1>5, <1>6, <1>7, <1>8, <1>9, <1>10, <1>11, <1>12, <1>13, <1>14
  DEF RequestStep, Serve, Fail

-----------------------------------------------------------------------------
(* One request's step and what it leaves alone *)

\* A request's step changes no other request and, of the table, at most the row its
\* own transaction has staged.
LEMMA Frame ==
    ASSUME IInv, NEW r \in Request, RequestStep(r)
    PROVE  /\ \A o \in Request \ {r} :
                /\ call'[o] = call[o] /\ pc'[o] = pc[o] /\ began'[o] = began[o]
                /\ found'[o] = found[o] /\ total'[o] = total[o] /\ outcome'[o] = outcome[o]
                /\ known'[o] = known[o] /\ gone'[o] = gone[o]
                /\ staged'[o] = staged[o] /\ (o \in conn' <=> o \in conn)
           /\ \A i \in Request : row'[i] # row[i] =>
                /\ staged[r] # NoRow /\ staged'[r] = NoRow
                /\ i = Target(r) /\ row'[i] = staged[r]
<1> USE DEF Goto, Answer, Return, dbVars
<1>t. Typed
  BY DEF IInv
<1>1. CASE Arrive(r)
  BY <1>1, <1>t, ArriveEffect DEF Typed, TypeOK
<1>2. CASE Acquire(r)
  BY <1>2, <1>t DEF Acquire, Typed, TypeOK
<1>3. CASE PoolTimeout(r)
  BY <1>3, <1>t DEF PoolTimeout, Typed, TypeOK
<1>4. CASE Insert(r)
  BY <1>4, <1>t DEF Insert, Typed, TypeOK
<1>5. CASE Rollback(r)
  BY <1>5, <1>t DEF Rollback, Typed, TypeOK
<1>6. CASE Update(r)
  BY <1>6, <1>t DEF Update, Typed, TypeOK
<1>7. CASE Commit(r)
  BY <1>7, <1>t DEF Commit, Typed, TypeOK
<1>8. CASE Select(r)
  BY <1>8, <1>t DEF Select, Typed, TypeOK
<1>9. CASE ListPage(r)
  BY <1>9, <1>t DEF ListPage, Typed, TypeOK
<1>10. CASE ListTotal(r)
  BY <1>10, <1>t DEF ListTotal, Typed, TypeOK
<1>11. CASE CommandTimeout(r)
  BY <1>11, <1>t DEF CommandTimeout, Raise, Typed, TypeOK
<1>12. CASE Close(r)
  BY <1>12, <1>t DEF Close, Typed, TypeOK
<1>13. CASE DbError(r)
  BY <1>13, <1>t DEF DbError, Raise, Typed, TypeOK
<1>14. CASE Resolve(r)
  BY <1>14, <1>t DEF Resolve, Typed, TypeOK
<1> QED
  BY <1>1, <1>2, <1>3, <1>4, <1>5, <1>6, <1>7, <1>8, <1>9, <1>10, <1>11, <1>12, <1>13, <1>14
  DEF RequestStep, Serve, Fail

\* Rows stay, keep their name and creation, and once deleted keep their deletion:
\* a published insert fills an empty row, a published update ages its own.
LEMMA RowsAge ==
    ASSUME IInv, NEW r \in Request, RequestStep(r), NEW i \in Stored
    PROVE  /\ i \in Stored'
           /\ row'[i].name = row[i].name /\ row'[i].created = row[i].created
           /\ row[i].deleted # Never => row'[i].deleted = row[i].deleted
<1>o. OwnInv(r)
  BY DEF IInv
<1>i. i \in Request /\ row[i] # NoRow
  BY DEF Stored
<1>1. CASE row'[i] = row[i]
  BY <1>i, <1>1 DEF Stored
<1>2. CASE row'[i] # row[i]
  <2>1. staged[r] # NoRow /\ i = Target(r) /\ row'[i] = staged[r]
    BY <1>i, <1>2, Frame
  <2>2. call[r].op = "delete" /\ i = call[r].id
    BY <1>o, <1>i, <2>1 DEF OwnInv, StagedInv, InsertInv, Target
  <2> QED
    BY <1>o, <1>i, <2>1, <2>2 DEF OwnInv, UpdateInv, Stored
<1> QED
  BY <1>1, <1>2

\* Hence a request's step keeps what holds of every other request.
LEMMA OthersKeep ==
    ASSUME IInv, NEW r \in Request, RequestStep(r), Typed', NEW o \in Request \ {r}
    PROVE  OwnInv(o)'
<1>o. OwnInv(o) /\ OwnInv(r) /\ Typed
  BY DEF IInv
<1>f. /\ call'[o] = call[o] /\ pc'[o] = pc[o] /\ began'[o] = began[o]
      /\ found'[o] = found[o] /\ outcome'[o] = outcome[o]
      /\ staged'[o] = staged[o] /\ (o \in conn' <=> o \in conn)
  BY Frame
<1>a. \A i \in Stored : /\ i \in Stored' /\ row'[i].name = row[i].name
                        /\ row'[i].created = row[i].created
                        /\ row[i].deleted # Never => row'[i].deleted = row[i].deleted
  BY RowsAge
<1>n. \A i \in Stored' : i \in Stored \/
          (i = Target(r) /\ staged[r] # NoRow /\ row'[i] = staged[r] /\ row[i] = NoRow)
  BY Frame DEF Stored
<1>w. Wanted(o)' = Wanted(o)
  BY <1>f DEF Wanted
<1>1. CallInv(o)' /\ ControlInv(o)' /\ StagedInv(o)' /\ ConnInv(o)'
  BY <1>o, <1>f, <1>a, <1>w DEF OwnInv, CallInv, ControlInv, StagedInv, ConnInv
<1>2. row[o] = NoRow => row'[o] = NoRow
  BY <1>o, <1>n DEF Stored, OwnInv, StagedInv, UpdateInv, Target
<1>3. StoredInv(o)'
  BY <1>o, <1>f, <1>2 DEF OwnInv, StoredInv
<1>4. InsertInv(o)'
  <2> SUFFICES ASSUME staged[o] # NoRow, call[o].op = "create"
               PROVE  /\ row'[o] = NoRow
                      /\ staged[o].name = Wanted(o)
                      /\ \A i \in Stored' : Fold[row'[i].name] # Fold[staged[o].name]
    BY <1>f, <1>w DEF InsertInv
  <2>1. row'[o] = NoRow /\ staged[o].name = Wanted(o)
    BY <1>o, <1>2 DEF OwnInv, InsertInv
  <2>2. ASSUME NEW i \in Stored' PROVE Fold[row'[i].name] # Fold[staged[o].name]
    <3>1. CASE i \in Stored
      BY <1>o, <1>a, <3>1 DEF OwnInv, InsertInv
    <3>2. CASE i \notin Stored
      BY <1>n, <2>2, <3>2 DEF IInv, LockInv
    <3> QED
      BY <3>1, <3>2
  <2> QED
    BY <2>1, <2>2
<1>5. UpdateInv(o)'
  <2> SUFFICES ASSUME staged[o] # NoRow, call[o].op = "delete"
               PROVE  UpdateInv(o)'
    BY <1>f DEF UpdateInv
  <2>1. /\ call[o].id \in Stored
        /\ staged[o].name = row[call[o].id].name
    BY <1>o DEF OwnInv, UpdateInv
  <2>2. row'[call[o].id] = row[call[o].id]
    <3> SUFFICES ASSUME row'[call[o].id] # row[call[o].id]
                 PROVE  FALSE
      OBVIOUS
    <3>1. staged[r] # NoRow /\ call[o].id = Target(r)
      BY <2>1, Frame DEF Stored
    <3>2. staged[r].name = row[call[o].id].name
      BY <1>o, <2>1, <3>1 DEF OwnInv, StagedInv, InsertInv, UpdateInv, Target, Stored
    <3> QED
      BY <2>1, <3>1, <3>2 DEF IInv, LockInv
  <2> QED
    BY <1>o, <1>f, <1>a, <2>1, <2>2 DEF OwnInv, UpdateInv
<1>6. CreateInv(o)'
  BY <1>o, <1>f, <1>a, <1>w DEF OwnInv, CreateInv
<1>7. DeleteInv(o)'
  BY <1>o, <1>f, <1>a DEF OwnInv, DeleteInv, Active
<1> QED
  BY <1>1, <1>3, <1>4, <1>5, <1>6, <1>7 DEF OwnInv

\* A step keeps what holds of the request that takes it.
LEMMA OwnStep ==
    ASSUME IInv, NEW r \in Request, RequestStep(r), Typed'
    PROVE  OwnInv(r)'
<1> USE DEF Goto, Answer, Return, dbVars
<1>t. Typed /\ OwnInv(r)
  BY DEF IInv
<1>k. NoId \notin Request /\ Stored \subseteq Request
  BY RequestAssumption DEF Stored
<1>1. CASE Arrive(r)
  <2>1. PICK c \in CallType :
            /\ call' = [call EXCEPT ![r] = c]
            /\ c.op \in Operation
            /\ c.op \in {"create", "get_by_name"} => c.name \in Name
            /\ c.id \in Stored \cup {NoId}
            /\ \/ pc' = [pc EXCEPT ![r] = "pool"] /\ UNCHANGED outcome
                  /\ (c.op = "create" => Parse[c.name] # NoName)
               \/ /\ pc' = [pc EXCEPT ![r] = "returned"]
                  /\ outcome' = [outcome EXCEPT ![r] = "InvalidRepositoryName"]
                  /\ c.op = "create"
    BY <1>1, <1>t, ArriveEffect
  <2>2. /\ pc[r] = "idle" /\ call'[r] = c
        /\ UNCHANGED <<row, staged, began, conn, found>>
    BY <1>1, <1>t, <2>1, ArriveEffect DEF Typed
  <2>3. \/ pc'[r] = "pool" /\ outcome'[r] = "none"
        \/ pc'[r] = "returned" /\ outcome'[r] = "InvalidRepositoryName"
    BY <1>t, <2>1, <2>2 DEF Typed, TypeOK, OwnInv, ControlInv
  <2>4. row[r] = NoRow /\ staged[r] = NoRow /\ r \notin conn /\ found[r] = {}
    BY <1>t, <2>2 DEF OwnInv, StoredInv, StagedInv, ConnInv, ControlInv
  <2>5. CallInv(r)'
    BY <1>t, <2>1, <2>2, <2>3, NameAssumption DEF CallInv, Wanted, Stored, Typed, TypeOK
  <2> QED
    BY <2>2, <2>3, <2>4, <2>5 DEF OwnInv, ControlInv, StoredInv, StagedInv, InsertInv, UpdateInv,
       ConnInv, CreateInv, DeleteInv
<1>2. CASE \/ Acquire(r) \/ PoolTimeout(r) \/ Rollback(r) \/ CommandTimeout(r) \/ Close(r)
           \/ DbError(r) \/ Select(r) \/ ListPage(r) \/ ListTotal(r)
  <2>0. UNCHANGED <<row, staged, call>>
    BY <1>2 DEF Acquire, PoolTimeout, Rollback, CommandTimeout, Close, DbError, Select, ListPage,
       ListTotal
  <2> USE DEF Typed, TypeOK, OwnInv, CallInv, ControlInv, StoredInv, StagedInv, InsertInv, UpdateInv,
              ConnInv, CreateInv, DeleteInv, Wanted, Stored, Active
  <2>1. CASE Acquire(r)
    BY <1>t, <2>0, <2>1 DEF Acquire
  <2>2. CASE PoolTimeout(r)
    BY <1>t, <2>0, <2>2 DEF PoolTimeout
  <2>3. CASE Rollback(r)
    BY <1>t, <2>0, <2>3 DEF Rollback
  <2>4. CASE CommandTimeout(r)
    BY <1>t, <2>0, <2>4 DEF CommandTimeout, Raise
  <2>5. CASE Close(r)
    BY <1>t, <2>0, <2>5 DEF Close
  <2>6. CASE DbError(r)
    BY <1>t, <2>0, <2>6 DEF DbError, Raise
  <2>7. CASE Select(r)
    BY <1>t, <2>0, <2>7 DEF Select
  <2>8. CASE ListPage(r)
    BY <1>t, <2>0, <2>8 DEF ListPage
  <2>9. CASE ListTotal(r)
    BY <1>t, <2>0, <2>9 DEF ListTotal
  <2> QED
    BY <1>2, <2>1, <2>2, <2>3, <2>4, <2>5, <2>6, <2>7, <2>8, <2>9
<1>3. CASE Insert(r)
  <2>1. /\ pc[r] = "begun" /\ call[r].op = "create" /\ outcome[r] = "none" /\ r \in conn
        /\ row[r] = NoRow /\ staged[r] = NoRow /\ Wanted(r) \in Name
        /\ UNCHANGED <<row, call, conn>>
    BY <1>3, <1>t DEF Insert, OwnInv, CallInv, ControlInv, StoredInv, StagedInv
  <2>2. CASE Clashes(Wanted(r)) = {}
    <3> DEFINE v == [name |-> Wanted(r), created |-> began[r], updated |-> began[r],
                     deleted |-> Never]
    <3>1. /\ staged'[r] = v /\ found'[r] = {r} /\ pc'[r] = "written" /\ outcome'[r] = "none"
          /\ v.name = Wanted(r) /\ v # NoRow
      BY <1>3, <1>t, <2>1, <2>2, NameAssumption DEF Insert, Typed, TypeOK, NoRow
    <3> HIDE DEF v
    <3>2. \A i \in Stored : Fold[row[i].name] # Fold[v.name]
      BY <2>2, <3>1 DEF Clashes
    <3> QED
      BY <1>t, <2>1, <3>1, <3>2 DEF OwnInv, CallInv, ControlInv, StoredInv, StagedInv, InsertInv,
         UpdateInv, ConnInv, CreateInv, DeleteInv, Wanted, Stored
  <2>3. CASE Clashes(Wanted(r)) # {}
    <3>1. /\ staged'[r] = NoRow /\ pc'[r] = "failed"
          /\ outcome'[r] = "RepositoryAlreadyExists" /\ found'[r] = found[r]
      BY <1>3, <1>t, <2>1, <2>3 DEF Insert, Typed, TypeOK
    <3>2. \E i \in Stored : Fold[row[i].name] = Fold[Wanted(r)]
      BY <2>3 DEF Clashes
    <3> QED
      BY <1>t, <2>1, <3>1, <3>2 DEF OwnInv, CallInv, ControlInv, StoredInv, StagedInv, InsertInv,
         UpdateInv, ConnInv, CreateInv, DeleteInv, Wanted, Stored
  <2> QED
    BY <2>2, <2>3
<1>4. CASE Update(r)
  <2>1. /\ pc[r] = "begun" /\ call[r].op = "delete" /\ outcome[r] = "none" /\ r \in conn
        /\ row[r] = NoRow /\ staged[r] = NoRow /\ began[r] # 0
        /\ UNCHANGED <<row, call, conn, outcome>> /\ pc'[r] = "written"
    BY <1>4, <1>t DEF Update, OwnInv, ControlInv, StoredInv, StagedInv, Typed, TypeOK
  <2>2. CASE call[r].id \in Stored
    <3> DEFINE old == row[call[r].id]
               v   == SoftDeleted(old, began[r])
    <3>1. old \in Row
      BY <1>t, <2>2 DEF Stored, Typed, TypeOK
    <3>2. staged'[r] = v /\ found'[r] = {call[r].id}
      BY <1>4, <1>t, <2>2 DEF Update, Typed, TypeOK
    <3>3. /\ v.name = old.name /\ v.created = old.created /\ v.deleted # Never
          /\ old.deleted # Never => v.deleted = old.deleted
      BY <2>1, <3>1 DEF SoftDeleted, Row, Never
    <3>4. v # NoRow
      BY <3>1, <3>3, NameAssumption DEF Row, NoRow
    <3> HIDE DEF v
    <3> QED
      BY <1>t, <2>1, <2>2, <3>2, <3>3, <3>4 DEF OwnInv, CallInv, ControlInv, StoredInv, StagedInv,
         InsertInv, UpdateInv, ConnInv, CreateInv, DeleteInv, Stored
  <2>3. CASE call[r].id \notin Stored
    <3>1. staged'[r] = NoRow /\ found'[r] = {} /\ call[r].id = NoId
      BY <1>4, <1>t, <2>3 DEF Update, Typed, TypeOK, OwnInv, CallInv
    <3> QED
      BY <1>t, <2>1, <3>1 DEF OwnInv, CallInv, ControlInv, StoredInv, StagedInv, InsertInv,
         UpdateInv, ConnInv, CreateInv, DeleteInv, Stored
  <2> QED
    BY <2>2, <2>3
<1>a. \A i \in Stored : /\ i \in Stored' /\ row'[i].name = row[i].name
                        /\ row[i].deleted # Never => row'[i].deleted = row[i].deleted
  BY RowsAge
<1>5. CASE Commit(r)
  <2>1. /\ pc[r] = "written" /\ pc'[r] = "returned" /\ staged'[r] = NoRow /\ r \notin conn'
        /\ outcome'[r] = IF found[r] = {} THEN "RepositoryNotFound" ELSE "ok"
        /\ UNCHANGED <<call, found>>
        /\ call[r].op \in {"create", "delete"}
    BY <1>5, <1>t DEF Commit, Typed, TypeOK, OwnInv, ControlInv
  <2>2. CASE call[r].op = "create"
    <3>1. found[r] = {r} /\ staged[r] # NoRow /\ staged[r].name = Wanted(r)
      BY <1>t, <2>1, <2>2 DEF OwnInv, ControlInv, InsertInv
    <3>2. outcome'[r] = "ok"
      BY <2>1, <3>1
    <3>3. row' = [row EXCEPT ![r] = staged[r]] /\ row \in [Request -> Row \cup {NoRow}]
      BY <1>5, <1>t, <2>2, <3>1 DEF Commit, Target, Typed, TypeOK
    <3>4. row'[r] = staged[r]
      BY <3>3
    <3> QED
      BY <1>t, <1>a, <2>1, <2>2, <3>1, <3>2, <3>4 DEF OwnInv, CallInv, ControlInv, StoredInv, StagedInv,
         InsertInv, UpdateInv, ConnInv, CreateInv, DeleteInv, Wanted, Stored
  <2>3. CASE call[r].op = "delete" /\ staged[r] # NoRow
    <3>1. /\ row'[call[r].id] = staged[r] /\ outcome'[r] = "ok" /\ call[r].id \in Stored
          /\ staged[r].deleted # Never /\ call[r].id # NoId
      BY <1>5, <1>t, <1>k, <2>1, <2>3 DEF Commit, Target, Typed, TypeOK, OwnInv, ControlInv,
         UpdateInv, Stored
    <3>2. row[r] = NoRow
      BY <1>t, <2>3 DEF OwnInv, StoredInv
    <3>3. row'[r] = NoRow
      BY <1>5, <1>t, <2>3, <3>1, <3>2, Frame DEF Target, Stored
    <3> QED
      BY <1>t, <1>a, <2>1, <2>3, <3>1, <3>3 DEF OwnInv, CallInv, ControlInv, StoredInv, StagedInv,
         InsertInv, UpdateInv, ConnInv, CreateInv, DeleteInv, Wanted, Stored, Active
  <2>4. CASE call[r].op = "delete" /\ staged[r] = NoRow
    <3>1. UNCHANGED row /\ call[r].id = NoId /\ row[r] = NoRow
      BY <1>5, <1>t, <2>1, <2>4 DEF Commit, OwnInv, ControlInv, StoredInv
    <3> QED
      BY <1>t, <2>1, <2>4, <3>1 DEF OwnInv, CallInv, ControlInv, StoredInv, StagedInv, InsertInv,
         UpdateInv, ConnInv, CreateInv, DeleteInv, Wanted, Stored, Active
  <2> QED
    BY <2>1, <2>2, <2>3, <2>4
<1>6. CASE Resolve(r)
  <2>1. /\ staged[r] # NoRow /\ pc[r] \in {"returned", "closed", "dead"} /\ staged'[r] = NoRow
        /\ outcome[r] \in {"none", "error"}
        /\ UNCHANGED <<call, pc, began, conn, found, outcome>>
    BY <1>6, <1>t DEF Resolve, Typed, TypeOK, OwnInv, StagedInv
  <2>2. row'[r] # NoRow => call[r].op = "create"
    BY <1>6, <1>t, <2>1, Frame DEF OwnInv, StoredInv, StagedInv, UpdateInv, Target, Stored
  <2> QED
    BY <1>t, <1>a, <2>1, <2>2 DEF OwnInv, CallInv, ControlInv, StoredInv, StagedInv, InsertInv,
       UpdateInv, ConnInv, CreateInv, DeleteInv, Wanted, Stored
<1> QED
  BY <1>1, <1>2, <1>3, <1>4, <1>5, <1>6 DEF RequestStep, Serve, Fail

\* The unique index and the locks that guard it: a statement stages a name only if no
\* row and no open transaction has it, and a publication hands it from one to the other.
LEMMA IndexStep ==
    ASSUME IInv, NEW r \in Request, RequestStep(r), Typed'
    PROVE  LockInv' /\ NamesUnique'
<1>t. Typed /\ OwnInv(r)
  BY DEF IInv
<1>o. \A o \in Request \ {r} : staged'[o] = staged[o]
  BY Frame
<1>1. LockInv'
  <2>1. CASE staged'[r] \in {staged[r], NoRow}
    BY <1>o, <2>1 DEF IInv, LockInv
  <2>2. CASE staged'[r] \notin {staged[r], NoRow}
    <3>1. Insert(r) \/ Update(r)
      <4>1. Arrive(r) => UNCHANGED staged
        BY <1>t, ArriveEffect DEF dbVars
      <4> QED
        BY <1>t, <2>2, <4>1 DEF RequestStep, Serve, Fail, Acquire, PoolTimeout, Rollback, Commit,
           Select, ListPage, ListTotal, CommandTimeout, Close, DbError, Resolve, dbVars, Typed,
           TypeOK
    <3> SUFFICES ASSUME NEW o \in Request \ {r}, staged[o] # NoRow
                 PROVE  Fold[staged[o].name] # Fold[staged'[r].name]
      BY <1>o DEF LockInv, IInv
    <3>2. CASE Insert(r)
      <4>1. staged'[r].name = Wanted(r)
        BY <1>t, <2>2, <3>2 DEF Insert, Typed, TypeOK
      <4> QED
        BY <3>2, <4>1 DEF Insert, Blocked
    <3>3. CASE Update(r)
      <4>1. call[r].op = "delete" /\ call[r].id \in Stored
        BY <1>t, <2>2, <3>3 DEF Update, Typed, TypeOK
      <4>2. row[call[r].id] \in Row
        BY <1>t, <4>1 DEF Stored, Typed, TypeOK
      <4>3. staged'[r] = SoftDeleted(row[call[r].id], began[r])
        BY <1>t, <3>3, <4>1 DEF Update, Typed, TypeOK
      <4>4. staged'[r].name = row[call[r].id].name
        BY <4>2, <4>3 DEF SoftDeleted, Row
      <4>5. OwnInv(o) /\ Target(o) # call[r].id
        BY <3>3, <4>1 DEF Update, Blocked, IInv
      <4>6. CASE call[o].op = "create"
        BY <4>1, <4>4, <4>5, <4>6 DEF OwnInv, InsertInv
      <4>7. CASE call[o].op = "delete"
        BY <4>1, <4>4, <4>5, <4>7 DEF OwnInv, UpdateInv, Target, IInv, NamesUnique
      <4> QED
        BY <4>5, <4>6, <4>7 DEF OwnInv, StagedInv
    <3> QED
      BY <3>1, <3>2, <3>3
  <2> QED
    BY <2>1, <2>2
<1>2. NamesUnique'
  <2>a. \A i \in Stored : row'[i].name = row[i].name
    BY RowsAge
  <2>1. ASSUME NEW i \in Stored', NEW j \in Stored', i \notin Stored,
               Fold[row'[i].name] = Fold[row'[j].name]
        PROVE  i = j
    <3>1. \A k \in Stored' \ Stored : /\ staged[r] # NoRow /\ k = Target(r)
                                      /\ row'[k] = staged[r] /\ row[k] = NoRow
      BY Frame DEF Stored
    <3>2. call[r].op = "create" /\ row'[i] = staged[r]
      BY <1>t, <2>1, <3>1 DEF OwnInv, StagedInv, UpdateInv, Target, Stored
    <3>3. j \notin Stored
      BY <1>t, <2>1, <2>a, <3>1, <3>2 DEF OwnInv, InsertInv
    <3> QED
      BY <2>1, <3>1, <3>3
  <2> QED
    BY <2>1, <2>a DEF IInv, NamesUnique
<1> QED
  BY <1>1, <1>2

-----------------------------------------------------------------------------
(* The theorems *)

\* Initially nothing is stored, staged or asked for.
LEMMA InitIInv == Init => IInv
<1> SUFFICES ASSUME Init PROVE IInv
  OBVIOUS
<1>1. NoCall \in CallType /\ NoCall.op = "none" /\ NoCall.id = NoId
  BY LimitAssumption DEF NoCall, CallType, NoId
<1>2. Cardinality({}) = 0 /\ Cardinality(Request) \in Nat
  BY RequestAssumption, FS_EmptySet, FS_CardinalityType
<1>3. Typed
  <2>1. \A r \in Request : call[r] = NoCall
    BY DEF Init
  <2>2. call \in [Request -> CallType]
    BY <1>1 DEF Init
  <2> QED
    BY <1>1, <1>2, <2>1, <2>2, LimitAssumption DEF Init, Typed, TypeOK, CallType, Step, Outcome
<1>4. Stored = {}
  BY DEF Init, Stored
<1>5. \A r \in Request : OwnInv(r)
  BY <1>1, <1>4 DEF Init, OwnInv, CallInv, ControlInv, StoredInv, StagedInv, InsertInv, UpdateInv,
     ConnInv, CreateInv, DeleteInv
<1> QED
  BY <1>3, <1>4, <1>5 DEF Init, IInv, LockInv, NamesUnique

\* IInv is inductive.
LEMMA StepIInv == IInv /\ [Next]_vars => IInv'
<1> SUFFICES ASSUME IInv, [Next]_vars PROVE IInv'
  OBVIOUS
<1>t. Typed /\ \A r \in Request : OwnInv(r)
  BY DEF IInv
<1>1. ASSUME NEW r \in Request, RequestStep(r) PROVE IInv'
  <2>1. Typed'
    BY <1>1, TypeStep
  <2>2. \A o \in Request : OwnInv(o)'
    BY <1>1, <2>1, OwnStep, OthersKeep
  <2> QED
    BY <1>1, <2>1, <2>2, IndexStep DEF IInv
<1>2. CASE Kill
  <2>1. UNCHANGED <<row, staged, clock, call, found, total, outcome, known, gone>> /\ conn' = {}
    BY <1>2 DEF Kill, dbVars
  <2>2. ASSUME NEW r \in Request
        PROVE  pc'[r] = IF pc[r] \in {"idle", "closed"} THEN pc[r] ELSE "dead"
    BY <1>2 DEF Kill
  <2>3. Cardinality({}) = 0
    BY FS_EmptySet
  <2>4. Typed'
    BY <1>2, <1>t, <2>1, <2>3, LimitAssumption DEF Kill, Typed, TypeOK, Step
  <2>5. ASSUME NEW r \in Request PROVE OwnInv(r)'
    BY <1>t, <2>1, <2>2, SMTT(30) DEF OwnInv, CallInv, ControlInv, StoredInv, StagedInv, InsertInv,
       UpdateInv, ConnInv, CreateInv, DeleteInv, Wanted, Stored, Active
  <2> QED
    BY <2>1, <2>4, <2>5 DEF IInv, LockInv, NamesUnique, Stored
<1>3. CASE Tick
  <2>1. UNCHANGED <<row, staged, call, pc, began, conn, found, total, outcome, known, gone>>
    BY <1>3 DEF Tick
  <2>2. Typed'
    BY <1>3, <1>t, <2>1, LimitAssumption DEF Tick, Typed, TypeOK
  <2> QED
    BY <1>t, <2>1, <2>2 DEF IInv, LockInv, NamesUnique, OwnInv, CallInv, ControlInv, StoredInv,
       StagedInv, InsertInv, UpdateInv, ConnInv, CreateInv, DeleteInv, Wanted, Stored, Active
<1>4. CASE UNCHANGED vars
  BY <1>t, <1>4 DEF vars, dbVars, Typed, TypeOK, IInv, LockInv, NamesUnique, OwnInv, CallInv,
     ControlInv, StoredInv, StagedInv, InsertInv, UpdateInv, ConnInv, CreateInv, DeleteInv, Wanted,
     Stored, Active
<1> QED
  BY <1>1, <1>2, <1>3, <1>4 DEF Next, RequestStep, Quiescent

\* The state keeps its types: rows are rows, the pool is never overdrawn.
THEOREM Typing == Spec => []TypeOK
<1>1. IInv => TypeOK
  BY DEF IInv, Typed
<1> QED
  BY <1>1, InitIInv, StepIInv, PTL DEF Spec

\* However many create() calls race between the index check and their COMMIT, and
\* whatever is left behind by errors, timeouts and a dying process, no two rows have
\* names that differ only in case.
THEOREM UniqueNames == Spec => []NamesUnique
<1>1. IInv => NamesUnique
  BY DEF IInv
<1> QED
  BY <1>1, InitIInv, StepIInv, PTL DEF Spec

\* What create() answers is true of the table, at the time and ever after.
THEOREM CreateIsTruthful == Spec => []CreateAnswersTruthfully
<1>1. IInv => CreateAnswersTruthfully
  <2> SUFFICES ASSUME IInv, NEW r \in Request, call[r].op = "create"
               PROVE  /\ outcome[r] = "ok" => r \in Stored /\ row[r].name = Wanted(r)
                      /\ outcome[r] \in {"RepositoryAlreadyExists", "InvalidRepositoryName"}
                           => r \notin Stored
                      /\ outcome[r] = "RepositoryAlreadyExists" =>
                           \E i \in Stored : Fold[row[i].name] = Fold[Wanted(r)]
    BY DEF CreateAnswersTruthfully
  <2>1. OwnInv(r)
    BY DEF IInv
  <2> QED
    BY <2>1 DEF OwnInv, CreateInv, StoredInv, Stored
<1> QED
  BY <1>1, InitIInv, StepIInv, PTL DEF Spec

\* What delete() answers is true of the table, at the time and ever after.
THEOREM DeleteIsTruthful == Spec => []DeleteAnswersTruthfully
<1>1. IInv => DeleteAnswersTruthfully
  BY RequestAssumption DEF IInv, OwnInv, DeleteInv, DeleteAnswersTruthfully, Stored
<1> QED
  BY <1>1, InitIInv, StepIInv, PTL DEF Spec

\* Every connection is held by a request that will close its session.
THEOREM ConnectionsComeBack == Spec => []ConnectionsReturned
<1>1. IInv => ConnectionsReturned
  BY DEF IInv, Typed, TypeOK, OwnInv, ConnInv, StagedInv, ConnectionsReturned
<1> QED
  BY <1>1, InitIInv, StepIInv, PTL DEF Spec

\* No step renames a row, moves its creation or its first deletion.
THEOREM RowsAgeOnly == Spec => RowsOnlyAge
<1> DEFINE Ages == \A i \in Stored :
              /\ row'[i].name = row[i].name /\ row'[i].created = row[i].created
              /\ row[i].deleted # Never => row'[i].deleted = row[i].deleted
<1>1. IInv /\ [Next]_vars => [Ages]_vars
  <2> SUFFICES ASSUME IInv, Next PROVE Ages
    OBVIOUS
  <2>1. ASSUME NEW r \in Request, RequestStep(r) PROVE Ages
    BY <2>1, RowsAge
  <2>2. CASE Kill \/ Tick \/ Quiescent
    BY <2>2 DEF Kill, Tick, Quiescent, vars, dbVars
  <2> QED
    BY <2>1, <2>2 DEF Next, RequestStep
<1> QED
  BY <1>1, InitIInv, StepIInv, PTL DEF Spec, RowsOnlyAge

-----------------------------------------------------------------------------
(* Reads *)

\* The live rows that list() puts before row i.
Before(i) == {j \in Active : \/ row[j].created > row[i].created
                             \/ row[j].created = row[i].created /\ j > i}

\* ORDER BY created_at DESC, id DESC is a total order, and Rank counts along it:
\* distinct rows have distinct ranks, below the number of live rows.
LEMMA RankOrders ==
    ASSUME Typed
    PROVE  /\ IsFiniteSet(Active) /\ Cardinality(Active) \in Nat
           /\ \A i \in Active : Rank(i) \in 0..(Cardinality(Active) - 1)
           /\ \A i, j \in Active : i \in Before(j) => Rank(i) < Rank(j)
           /\ \A i, j \in Active : i # j => i \in Before(j) \/ j \in Before(i)
<1>a. Active \in SUBSET Request /\ Request \subseteq Nat
  BY RequestAssumption DEF Active, Stored
<1>c. \A i \in Active : row[i].created \in Nat
  BY LimitAssumption DEF Typed, TypeOK, Row, Active, Stored, NoRow
<1>1. IsFiniteSet(Active) /\ Cardinality(Active) \in Nat
  BY <1>a, RequestAssumption, FS_Subset, FS_CardinalityType
<1>2. ASSUME NEW i \in Active
      PROVE  /\ IsFiniteSet(Before(i)) /\ Rank(i) \in Nat /\ Rank(i) = Cardinality(Before(i))
             /\ i \notin Before(i) /\ Before(i) \in SUBSET Active
  <2>1. Before(i) \in SUBSET Active /\ i \notin Before(i)
    BY <1>a, <1>c DEF Before
  <2>2. IsFiniteSet(Before(i))
    BY <1>1, <2>1, FS_Subset
  <2>3. Rank(i) = Cardinality(Before(i))
    BY DEF Rank, Before
  <2> QED
    BY <2>1, <2>2, <2>3, FS_CardinalityType
<1>3. ASSUME NEW i \in Active, NEW S \in SUBSET Active, IsFiniteSet(S),
             Before(i) \cup {i} \subseteq S
      PROVE  Rank(i) + 1 <= Cardinality(S)
  <2>1. Cardinality(Before(i) \cup {i}) = Rank(i) + 1
    BY <1>2, FS_AddElement
  <2>2. Cardinality(Before(i) \cup {i}) <= Cardinality(S)
    BY <1>3, FS_Subset
  <2> QED
    BY <2>1, <2>2
<1>4. \A i \in Active : Rank(i) \in 0..(Cardinality(Active) - 1)
  <2> TAKE i \in Active
  <2>1. Rank(i) + 1 <= Cardinality(Active)
    BY <1>1, <1>2, <1>3
  <2> QED
    BY <1>1, <1>2, <2>1
<1>5. \A i, j \in Active : i \in Before(j) => Rank(i) < Rank(j)
  <2> SUFFICES ASSUME NEW i \in Active, NEW j \in Active, i \in Before(j)
               PROVE  Rank(i) < Rank(j)
    OBVIOUS
  <2>1. Before(i) \cup {i} \subseteq Before(j)
    <3> SUFFICES ASSUME NEW k \in Before(i) PROVE k \in Before(j)
      OBVIOUS
    <3>1. k \in Active /\ {i, j, k} \subseteq Nat
      BY <1>a DEF Before
    <3>2. {row[i].created, row[j].created, row[k].created} \subseteq Nat
      BY <1>c, <3>1
    <3> QED
      BY <3>1, <3>2 DEF Before
  <2>2. Rank(i) + 1 <= Rank(j)
    BY <1>2, <1>3, <2>1
  <2> QED
    BY <1>2, <2>2
<1>6. \A i, j \in Active : i # j => i \in Before(j) \/ j \in Before(i)
  BY <1>a, <1>c DEF Before
<1> QED
  BY <1>1, <1>4, <1>5, <1>6

\* A first page is full unless it holds every live row, and what it leaves out is
\* no newer than anything in it.
LEMMA FirstPage ==
    ASSUME Typed, NEW limit \in Nat
    PROVE  /\ Cardinality(Page(limit, 0)) <= limit
           /\ \A j \in Active \ Page(limit, 0) :
                /\ Cardinality(Page(limit, 0)) = limit
                /\ \A i \in Page(limit, 0) : row[i].created >= row[j].created
<1> DEFINE n == Cardinality(Active)
           p == Page(limit, 0)
           f == [i \in Active |-> Rank(i)]
           g == [i \in p |-> Rank(i)]
<1>1. /\ IsFiniteSet(Active) /\ n \in Nat
      /\ \A i \in Active : Rank(i) \in 0..(n - 1)
      /\ \A i, j \in Active : i \in Before(j) => Rank(i) < Rank(j)
      /\ \A i, j \in Active : i # j => i \in Before(j) \/ j \in Before(i)
  BY RankOrders
<1>2. \A i, j \in Active : Rank(i) = Rank(j) => i = j
  BY <1>1
<1>3. p = {i \in Active : Rank(i) \in 0..(limit - 1)}
  BY <1>1 DEF Page
<1>4. /\ IsFiniteSet(0..(n - 1)) /\ Cardinality(0..(n - 1)) = n
      /\ IsFiniteSet(0..(limit - 1)) /\ Cardinality(0..(limit - 1)) = limit
  <2>1. \A m \in Nat : IsFiniteSet(0..(m - 1)) /\ Cardinality(0..(m - 1)) = m
    BY FS_Interval
  <2> QED
    BY <1>1, <2>1
<1> HIDE DEF n, p
<1>5. f \in Surjection(Active, 0..(n - 1))
  <2>1. f \in Injection(Active, 0..(n - 1))
    BY <1>1, <1>2 DEF Injection, IsInjective
  <2> HIDE DEF f
  <2> QED
    BY <1>4, <2>1, FS_Injection DEF n
<1>6. g \in Injection(p, 0..(limit - 1))
  BY <1>2, <1>3 DEF Injection, IsInjective
<1>7. Cardinality(p) <= limit
  <2> HIDE DEF g
  <2> QED
    BY <1>4, <1>6, FS_Injection
<1>8. ASSUME NEW j \in Active \ p
      PROVE  /\ Cardinality(p) = limit
             /\ \A i \in p : row[i].created >= row[j].created
  <2>1. limit <= Rank(j) /\ limit <= n - 1
    BY <1>1, <1>3
  <2>2. g \in Surjection(p, 0..(limit - 1))
    <3>1. ASSUME NEW k \in 0..(limit - 1) PROVE \E i \in p : g[i] = k
      <4>1. k \in 0..(n - 1)
        BY <1>1, <2>1
      <4>2. PICK i \in Active : f[i] = k
        BY <1>5, <4>1 DEF Surjection
      <4> QED
        BY <1>3, <4>2
    <3> QED
      BY <1>6, <3>1 DEF Surjection, Injection
  <2>3. Cardinality(p) = limit
    <3> HIDE DEF g
    <3> QED
      BY <1>4, <1>6, <2>2, FS_Injection
  <2>4. ASSUME NEW i \in p PROVE row[i].created >= row[j].created
    <3>1. i \in Active /\ Rank(i) < Rank(j) /\ Rank(i) \in Nat /\ Rank(j) \in Nat
      BY <1>1, <1>3, <2>1
    <3>2. i \in Before(j)
      BY <1>1, <3>1
    <3>3. row[i].created \in Nat /\ row[j].created \in Nat
      BY <3>1, LimitAssumption DEF Typed, TypeOK, Row, Active, Stored, NoRow
    <3> QED
      BY <3>2, <3>3 DEF Before
  <2> QED
    BY <2>3, <2>4
<1> QED
  BY <1>7, <1>8 DEF p

\* What a read has seen, against the rows that existed and those that were deleted
\* when it was asked for.
ReadInv(r) ==
    /\ known[r] \subseteq Stored
    /\ gone[r] \subseteq Stored \ Active
    /\ call[r].op \in {"get_by_id", "get_by_name", "list"} =>
         found[r] \cap gone[r] = {} /\ found[r] \subseteq Stored
    /\ pc[r] \in {"returned", "closed"} /\ outcome[r] # "error" =>
         /\ call[r].op = "get_by_id" => {call[r].id} \cap known[r] \cap Active \subseteq found[r]
         /\ call[r].op = "get_by_name" =>
              \A i \in known[r] \cap Active :
                  Fold[row[i].name] = Fold[call[r].name] => i \in found[r]

\* The rows of a first page, from the moment they are fetched.
PageInv(r) ==
    call[r].op = "list" /\ call[r].offset = 0 /\ (pc[r] = "counted" \/ outcome[r] = "ok") =>
        /\ Cardinality(found[r]) <= call[r].limit
        /\ \A j \in (known[r] \cap Active) \ found[r] :
              /\ Cardinality(found[r]) = call[r].limit
              /\ \A i \in found[r] : row[i].created >= row[j].created

ReadIInv == IInv /\ \A r \in Request : ReadInv(r) /\ PageInv(r)

\* A step that only ages the table keeps what holds of a read it leaves alone, since a
\* row that was there and is live now was live before.
LEMMA ReadsKeep ==
    ASSUME NEW o \in Request, ReadInv(o), PageInv(o),
           call'[o] = call[o], found'[o] = found[o], outcome'[o] = outcome[o],
           known'[o] = known[o], gone'[o] = gone[o],
           pc'[o] \in {pc[o], "dead"} \/ (pc[o] = "returned" /\ pc'[o] = "closed"),
           \A i \in Stored : /\ i \in Stored'
                             /\ row'[i].name = row[i].name /\ row'[i].created = row[i].created
                             /\ row[i].deleted # Never => row'[i].deleted = row[i].deleted
    PROVE  ReadInv(o)' /\ PageInv(o)'
<1>1. known[o] \subseteq Stored /\ known'[o] \cap Active' \subseteq known[o] \cap Active
  BY DEF ReadInv, Active
<1>2. gone'[o] \subseteq Stored' \ Active'
  BY DEF ReadInv, Active
<1>3. ReadInv(o)'
  BY <1>1, <1>2 DEF ReadInv
<1>4. PageInv(o)'
  <2> SUFFICES ASSUME call[o].op = "list", call[o].offset = 0,
                      pc[o] = "counted" \/ outcome[o] = "ok"
               PROVE  /\ Cardinality(found[o]) <= call[o].limit
                      /\ \A j \in (known'[o] \cap Active') \ found[o] :
                            /\ Cardinality(found[o]) = call[o].limit
                            /\ \A i \in found[o] : row'[i].created >= row'[j].created
    BY DEF PageInv
  <2>1. found[o] \subseteq Stored
    BY DEF ReadInv
  <2> QED
    BY <1>1, <2>1 DEF PageInv
<1> QED
  BY <1>3, <1>4

\* Every step keeps what holds of reads: the rows a statement returns are live then,
\* and hold every row that was asked about and is live ever after.
LEMMA ReadStep ==
    ASSUME ReadIInv, NEW r \in Request, RequestStep(r)
    PROVE  ReadInv(r)' /\ PageInv(r)'
<1> USE DEF Goto, Answer, Return, dbVars
<1>i. IInv /\ Typed /\ OwnInv(r) /\ ReadInv(r) /\ PageInv(r)
  BY DEF ReadIInv, IInv
<1>a. \A i \in Stored : /\ i \in Stored'
                        /\ row'[i].name = row[i].name /\ row'[i].created = row[i].created
                        /\ row[i].deleted # Never => row'[i].deleted = row[i].deleted
  BY <1>i, RowsAge
<1>s. Active \subseteq Stored
  BY DEF Active
<1>1. CASE Arrive(r)
  <2>1. /\ pc[r] = "idle" /\ pc'[r] \in {"pool", "returned"}
        /\ pc'[r] = "returned" => call'[r].op = "create"
        /\ \/ known'[r] = known[r] /\ gone'[r] = gone[r]
           \/ known'[r] = Stored /\ gone'[r] = Stored \ Active
        /\ UNCHANGED <<row, found>>
        /\ outcome'[r] # "ok"
    BY <1>1, <1>i, ArriveEffect DEF Typed, TypeOK, OwnInv, ControlInv
  <2>2. found[r] = {}
    BY <1>i, <2>1 DEF OwnInv, ControlInv
  <2>3. Stored' = Stored /\ Active' = Active
    BY <2>1 DEF Stored, Active
  <2> QED
    BY <1>i, <1>s, <2>1, <2>2, <2>3 DEF ReadInv, PageInv
<1>2. CASE Select(r)
  <2>1. /\ pc'[r] = "returned" /\ found'[r] = FindActive(r)
        /\ call[r].op \in {"get_by_id", "get_by_name"}
        /\ UNCHANGED <<row, call, known, gone>>
    BY <1>2, <1>i DEF Select, Typed, TypeOK
  <2>2. Stored' = Stored /\ Active' = Active
    BY <2>1 DEF Stored, Active
  <2> QED
    BY <1>i, <1>s, <2>1, <2>2 DEF ReadInv, PageInv, FindActive
<1>3. CASE ListPage(r)
  <2> DEFINE p == Page(call[r].limit, call[r].offset)
  <2>1. /\ pc'[r] = "counted" /\ found'[r] = p /\ call[r].op = "list"
        /\ UNCHANGED <<row, call, known, gone>>
    BY <1>3, <1>i DEF ListPage, Typed, TypeOK
  <2>2. Stored' = Stored /\ Active' = Active /\ p \subseteq Active
    BY <2>1 DEF Stored, Active, Page
  <2>3. ReadInv(r)'
    BY <1>i, <1>s, <2>1, <2>2 DEF ReadInv
  <2>4. ASSUME call[r].offset = 0
        PROVE  /\ Cardinality(p) <= call[r].limit
               /\ \A j \in Active \ p : /\ Cardinality(p) = call[r].limit
                                        /\ \A i \in p : row[i].created >= row[j].created
    <3>1. call[r].limit \in Nat
      BY <1>i, LimitAssumption DEF Typed, CallType
    <3> QED
      BY <1>i, <2>4, <3>1, FirstPage
  <2> QED
    BY <2>1, <2>2, <2>3, <2>4 DEF PageInv
<1>4. CASE \/ Insert(r) \/ Update(r) \/ Commit(r)
  <2>1. /\ call[r].op \in {"create", "delete"} /\ UNCHANGED <<call, known, gone>>
    BY <1>4, <1>i DEF Insert, Update, Commit, OwnInv, ControlInv
  <2> QED
    BY <1>i, <1>a, <2>1 DEF ReadInv, PageInv, Active
<1>5. CASE ListTotal(r)
  <2>1. /\ pc[r] = "counted" /\ pc'[r] = "returned" /\ call[r].op = "list"
        /\ UNCHANGED <<row, call, found, known, gone>>
    BY <1>5, <1>i DEF ListTotal, Typed, TypeOK, OwnInv, ControlInv
  <2>2. Stored' = Stored /\ Active' = Active
    BY <2>1 DEF Stored, Active
  <2> QED
    BY <1>i, <2>1, <2>2 DEF ReadInv, PageInv
<1>6. CASE PoolTimeout(r) \/ CommandTimeout(r) \/ DbError(r)
  <2>1. /\ outcome'[r] = "error" /\ pc'[r] \in {"returned", "failed"}
        /\ UNCHANGED <<row, call, found, known, gone>>
    BY <1>6, <1>i DEF PoolTimeout, CommandTimeout, DbError, Raise, Typed, TypeOK
  <2>2. Stored' = Stored /\ Active' = Active
    BY <2>1 DEF Stored, Active
  <2> QED
    BY <1>i, <2>1, <2>2 DEF ReadInv, PageInv
<1>7. CASE Acquire(r)
  <2>1. /\ pc'[r] = "begun" /\ UNCHANGED <<row, call, found, outcome, known, gone>>
    BY <1>7, <1>i DEF Acquire, Typed, TypeOK
  <2>2. Stored' = Stored /\ Active' = Active
    BY <2>1 DEF Stored, Active
  <2> QED
    BY <1>i, <2>1, <2>2 DEF ReadInv, PageInv
<1>8. CASE Rollback(r)
  <2>1. /\ call[r].op = "create" /\ UNCHANGED <<row, call, found, outcome, known, gone>>
    BY <1>8, <1>i DEF Rollback, OwnInv, ControlInv
  <2>2. Stored' = Stored /\ Active' = Active
    BY <2>1 DEF Stored, Active
  <2> QED
    BY <1>i, <2>1, <2>2 DEF ReadInv, PageInv
<1>9. CASE Close(r)
  BY <1>9, <1>i, <1>a, ReadsKeep DEF Close, Typed, TypeOK
<1>10. CASE Resolve(r)
  BY <1>10, <1>i, <1>a, ReadsKeep DEF Resolve
<1> QED
  BY <1>1, <1>2, <1>3, <1>4, <1>5, <1>6, <1>7, <1>8, <1>9, <1>10 DEF RequestStep, Serve, Fail

\* ReadIInv is inductive.
LEMMA StepReadIInv == ReadIInv /\ [Next]_vars => ReadIInv'
<1> SUFFICES ASSUME ReadIInv, [Next]_vars PROVE ReadIInv'
  OBVIOUS
<1>i. IInv /\ Typed /\ IInv' /\ \A o \in Request : ReadInv(o) /\ PageInv(o)
  BY StepIInv DEF ReadIInv, IInv
<1>1. ASSUME NEW r \in Request, RequestStep(r), NEW o \in Request PROVE ReadInv(o)' /\ PageInv(o)'
  <2>1. CASE o = r
    BY <1>1, <2>1, ReadStep
  <2>2. CASE o # r
    <3>1. \A i \in Stored : /\ i \in Stored'
                            /\ row'[i].name = row[i].name /\ row'[i].created = row[i].created
                            /\ row[i].deleted # Never => row'[i].deleted = row[i].deleted
      BY <1>1, <1>i, RowsAge
    <3>2. /\ call'[o] = call[o] /\ pc'[o] = pc[o] /\ found'[o] = found[o]
          /\ outcome'[o] = outcome[o] /\ known'[o] = known[o] /\ gone'[o] = gone[o]
      BY <1>1, <1>i, <2>2, Frame
    <3> QED
      BY <1>i, <3>1, <3>2, ReadsKeep
  <2> QED
    BY <2>1, <2>2
<1>2. ASSUME Kill \/ Tick \/ UNCHANGED vars, NEW o \in Request PROVE ReadInv(o)' /\ PageInv(o)'
  <2>1. /\ UNCHANGED <<row, call, found, outcome, known, gone>>
        /\ pc'[o] \in {pc[o], "dead"}
    BY <1>2 DEF Kill, Tick, vars, dbVars
  <2>2. Stored' = Stored
    BY <2>1 DEF Stored
  <2> QED
    BY <1>i, <2>1, <2>2, ReadsKeep
<1> QED
  BY <1>i, <1>1, <1>2 DEF Next, RequestStep, Quiescent, ReadIInv

\* Initially nothing has been read.
LEMMA InitReadIInv == Init => ReadIInv
<1> SUFFICES ASSUME Init PROVE \A r \in Request : ReadInv(r) /\ PageInv(r)
  BY InitIInv DEF ReadIInv
<1>1. \A r \in Request : call[r].op = "none" /\ known[r] = {} /\ gone[r] = {}
  BY DEF Init, NoCall
<1> QED
  BY <1>1 DEF ReadInv, PageInv

\* A read returns no row deleted before it was asked and misses none that existed
\* then and is live still, whatever commits between its statements.
THEOREM CurrentReads == Spec => []ReadsAreCurrent
<1>1. ReadIInv => ReadsAreCurrent
  BY DEF ReadIInv, ReadInv, ReadsAreCurrent
<1> QED
  BY <1>1, InitReadIInv, StepReadIInv, PTL DEF Spec

\* The first page holds the newest rows, for any number of rows and any limit: ORDER
\* BY is a total order, so LIMIT cuts it at one place.
THEOREM NewestFirst == Spec => []FirstPageIsNewest
<1>1. ReadIInv => FirstPageIsNewest
  BY DEF ReadIInv, PageInv, FirstPageIsNewest
<1> QED
  BY <1>1, InitReadIInv, StepReadIInv, PTL DEF Spec

=============================================================================
