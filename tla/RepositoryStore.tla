--------------------------- MODULE RepositoryStore ---------------------------
(***************************************************************************)
(* The repository use cases over infrastructure/repositories/store.py: one *)
(* request-scoped SQLAlchemy session per HTTP request, on a bounded        *)
(* connection pool, against one PostgreSQL table at READ COMMITTED.  Every *)
(* awaited statement is one step, so requests interleave between BEGIN,    *)
(* statement and COMMIT, and a connection or the process may die there.    *)
(*                                                                         *)
(* A request makes one call.  A row's uuid is named by the request that    *)
(* inserts it; ids are compared by list()'s tie-break, hence numbers.      *)
(***************************************************************************)
EXTENDS Integers, FiniteSets

CONSTANTS Request,      \* the HTTP requests, and the ids of the rows they insert
          Name,         \* names as callers spell them
          NoName,       \* no name at all
          Parse,        \* RepositoryName(raw): the stripped name, or NoName
          Fold,         \* CITEXT's case folding
          PoolSize,     \* connections the engine hands out (pool + overflow)
          MaxLimit,     \* largest page list() serves
          Offered,      \* bound: the operations clients use in this instance
          Asked,        \* the limits and offsets callers ask for, unvalidated
          MaxClock,     \* bound: last instant of the database's clock
          Hazards       \* which failures may happen

Operation == {"create", "get_by_id", "get_by_name", "list", "delete"}

NoId   == 0
Never  == 0                                     \* SQL NULL in deleted_at

ASSUME RequestAssumption == Request \subseteq Nat \ {NoId} /\ IsFiniteSet(Request)
ASSUME NameAssumption    ==
    /\ NoName \notin Name
    /\ Parse \in [Name -> Name \cup {NoName}]
    /\ Fold \in [Name -> Name]
ASSUME LimitAssumption   == /\ PoolSize \in Nat \ {0} /\ MaxLimit \in Nat \ {0}
                            /\ MaxClock \in Nat \ {0} /\ Asked \subseteq Int
ASSUME OfferAssumption   == Offered \subseteq Operation
ASSUME FailureAssumption == Hazards \subseteq {"error", "kill"}

VARIABLES
    \* the database
    row,      \* the committed version of each row
    staged,   \* the version an open transaction has written
    clock,    \* now() for a transaction that begins
    \* the requests
    call,     \* the operation asked for and its arguments
    pc,       \* the statement the request awaits
    began,    \* now() of the request's transaction
    conn,     \* requests that hold a pooled connection
    found,    \* ids the statements have returned
    total,    \* list()'s count
    outcome,  \* value returned or exception raised
    known,    \* history: rows committed when a read was asked for
    gone      \* history: rows deleted when a read was asked for

dbVars  == <<row, staged, clock>>
vars    == <<dbVars, call, pc, began, conn, found, total, outcome, known, gone>>

NoCall    == [op |-> "none", name |-> NoName, id |-> NoId, limit |-> 0, offset |-> 0]
NoRow     == [name |-> NoName, created |-> 0, updated |-> 0, deleted |-> Never]

Row     == [name : Name, created : 1..MaxClock, updated : 1..MaxClock, deleted : 0..MaxClock]
Step    == {"idle", "pool", "begun", "counted", "written", "failed", "returned", "closed", "dead"}
Outcome == {"none", "ok", "error", "RepositoryNotFound", "RepositoryAlreadyExists",
            "InvalidRepositoryName"}

-----------------------------------------------------------------------------
(* The table *)

Stored == {i \in Request : row[i] # NoRow}
Active == {i \in Stored : row[i].deleted = Never}

\* The name the request's INSERT carries.
Wanted(r) == Parse[call[r].name]

\* The row a request's transaction writes.
Target(r) == IF call[r].op = "create" THEN r ELSE call[r].id

\* Mutant: a partial index, WHERE deleted_at IS NULL.
Clashes_ActiveOnly(n) == {i \in Active : Fold[row[i].name] = Fold[n]}

\* ix_repositories_name: a unique index over every row, the soft-deleted included.
Clashes(n) == {i \in Stored : Fold[row[i].name] = Fold[n]}

\* A statement waits for the open transaction that wrote an equal index key, or
\* holds the lock on the row it updates.
Blocked(r) ==
    \E o \in Request \ {r} :
        /\ staged[o] # NoRow
        /\ IF call[r].op = "create" THEN Fold[staged[o].name] = Fold[Wanted(r)]
                                    ELSE Target(o) = call[r].id

\* Mutant: the criterion alone, without the soft-deletion filter.
FindActive_Any(r) ==
    {i \in Stored : IF call[r].op = "get_by_id" THEN i = call[r].id
                                                ELSE Fold[row[i].name] = Fold[call[r].name]}

\* _find_active: the one live row that satisfies the criterion.
FindActive(r) ==
    {i \in Active : IF call[r].op = "get_by_id" THEN i = call[r].id
                                                ELSE Fold[row[i].name] = Fold[call[r].name]}

\* Mutant: ORDER BY created_at, id.
Rank_OldestFirst(i) ==
    Cardinality({j \in Active : \/ row[j].created < row[i].created
                                \/ row[j].created = row[i].created /\ j < i})

\* ORDER BY created_at DESC, id DESC: how many live rows come before this one.
Rank(i) ==
    Cardinality({j \in Active : \/ row[j].created > row[i].created
                                \/ row[j].created = row[i].created /\ j > i})

Page(limit, offset) == {i \in Active : offset <= Rank(i) /\ Rank(i) < offset + limit}

\* Mutant: the count without the filter on deleted_at.
Total_Deleted == Cardinality(Stored)

Total == Cardinality(Active)

\* Mutant: deleted_at = now(), without coalesce.
SoftDeleted_Overwrites(v, now) == [v EXCEPT !.deleted = now, !.updated = now]

\* The soft delete: the first deletion time is kept, updated_at is now().
SoftDeleted(v, now) ==
    [v EXCEPT !.deleted = IF v.deleted = Never THEN now ELSE v.deleted, !.updated = now]

\* Mutant: only the lower bound is applied.
ClampLimit_NoMax(l) == IF l < 1 THEN 1 ELSE l

ClampLimit(l) == IF l < 1 THEN 1 ELSE IF l > MaxLimit THEN MaxLimit ELSE l
ClampOffset(f) == IF f < 0 THEN 0 ELSE f

-----------------------------------------------------------------------------
(* The calls *)

Init ==
    /\ row = [i \in Request |-> NoRow]
    /\ staged = [r \in Request |-> NoRow]
    /\ clock = 1
    /\ call = [r \in Request |-> NoCall]
    /\ pc = [r \in Request |-> "idle"]
    /\ began = [r \in Request |-> 0]
    /\ conn = {}
    /\ found = [r \in Request |-> {}]
    /\ total = [r \in Request |-> 0]
    /\ outcome = [r \in Request |-> "none"]
    /\ known = [r \in Request |-> {}]
    /\ gone = [r \in Request |-> {}]

Goto(r, s)    == pc' = [pc EXCEPT ![r] = s]
Answer(r, o)  == outcome' = [outcome EXCEPT ![r] = o]
Return(r, o)  == Goto(r, "returned") /\ Answer(r, o)

\* The request arrives; its first statement asks the pool for a connection.
Call(r, c) ==
    /\ pc[r] = "idle" /\ c.op \in Offered
    /\ call' = [call EXCEPT ![r] = c]
    /\ IF c.op \in {"create", "delete"}
         THEN UNCHANGED <<known, gone>>
         ELSE /\ known' = [known EXCEPT ![r] = Stored]
              /\ gone' = [gone EXCEPT ![r] = Stored \ Active]
    /\ UNCHANGED <<dbVars, began, conn, found, total>>

\* CreateRepositoryUseCase.execute: an illegal name never reaches the store.
CallCreate(r, n) ==
    /\ Call(r, [NoCall EXCEPT !.op = "create", !.name = n])
    /\ IF Parse[n] = NoName
         THEN Return(r, "InvalidRepositoryName")
         ELSE Goto(r, "pool") /\ UNCHANGED outcome

CallGetById(r, i) ==
    Call(r, [NoCall EXCEPT !.op = "get_by_id", !.id = i]) /\ Goto(r, "pool") /\ UNCHANGED outcome

CallGetByName(r, n) ==
    Call(r, [NoCall EXCEPT !.op = "get_by_name", !.name = n])
    /\ Goto(r, "pool") /\ UNCHANGED outcome

\* ListRepositoriesUseCase.execute clamps both numbers before the store sees them.
CallList(r, l, f) ==
    /\ Call(r, [NoCall EXCEPT !.op = "list", !.limit = ClampLimit(l),
                              !.offset = ClampOffset(f)])
    /\ Goto(r, "pool") /\ UNCHANGED outcome

CallDelete(r, i) ==
    Call(r, [NoCall EXCEPT !.op = "delete", !.id = i]) /\ Goto(r, "pool") /\ UNCHANGED outcome

\* The pool hands out a connection and the transaction begins, fixing its now().
Acquire(r) ==
    /\ pc[r] = "pool" /\ Cardinality(conn) < PoolSize
    /\ conn' = conn \cup {r}
    /\ began' = [began EXCEPT ![r] = clock]
    /\ Goto(r, "begun")
    /\ UNCHANGED <<dbVars, call, found, total, outcome, known, gone>>

\* pool_timeout runs out while every connection is taken.
PoolTimeout(r) ==
    /\ pc[r] = "pool" /\ Cardinality(conn) >= PoolSize
    /\ Return(r, "error")
    /\ UNCHANGED <<dbVars, call, began, conn, found, total, known, gone>>

-----------------------------------------------------------------------------
(* create() *)

\* The flush.  A unique violation is the name's: the only other unique index is the
\* primary key's, whose values the database makes, so a violation whose constraint
\* the driver does not name (None) is the name's too.
Insert(r) ==
    /\ pc[r] = "begun" /\ call[r].op = "create" /\ ~Blocked(r)
    /\ \/ /\ Clashes(Wanted(r)) = {}
          /\ staged' = [staged EXCEPT ![r] = [name |-> Wanted(r), created |-> began[r],
                                              updated |-> began[r], deleted |-> Never]]
          /\ found' = [found EXCEPT ![r] = {r}]
          /\ Goto(r, "written") /\ UNCHANGED outcome
       \/ /\ Clashes(Wanted(r)) # {}
          /\ Goto(r, "failed") /\ Answer(r, "RepositoryAlreadyExists")
          /\ UNCHANGED <<staged, found>>
    /\ UNCHANGED <<row, clock, call, began, conn, total, known, gone>>

\* The except clause of create(): roll back, then raise what was decided.
Rollback(r) ==
    /\ pc[r] = "failed"
    /\ conn' = conn \ {r}
    /\ Goto(r, "returned")
    /\ UNCHANGED <<dbVars, call, began, found, total, outcome, known, gone>>

\* COMMIT of create() and delete(): the version is public, its locks are gone and
\* the session gives the connection back.
Commit(r) ==
    /\ pc[r] = "written"
    /\ row' = IF staged[r] = NoRow THEN row ELSE [row EXCEPT ![Target(r)] = staged[r]]
    /\ staged' = [staged EXCEPT ![r] = NoRow]
    /\ conn' = conn \ {r}
    /\ Return(r, IF found[r] = {} THEN "RepositoryNotFound" ELSE "ok")
    /\ UNCHANGED <<clock, call, began, found, total, known, gone>>

-----------------------------------------------------------------------------
(* delete(), get_by_id(), get_by_name() and list() *)

\* Mutant: UPDATE ... WHERE id = :id AND deleted_at IS NULL.
Update_ActiveOnly(r) ==
    /\ pc[r] = "begun" /\ call[r].op = "delete" /\ ~Blocked(r)
    /\ LET hit == {call[r].id} \cap Active
       IN  /\ found' = [found EXCEPT ![r] = hit]
           /\ staged' = [staged EXCEPT ![r] =
                 IF hit = {} THEN NoRow ELSE SoftDeleted(row[call[r].id], began[r])]
    /\ Goto(r, "written")
    /\ UNCHANGED <<row, clock, call, began, conn, total, outcome, known, gone>>

Update(r) ==
    /\ pc[r] = "begun" /\ call[r].op = "delete" /\ ~Blocked(r)
    /\ LET hit == {call[r].id} \cap Stored
       IN  /\ found' = [found EXCEPT ![r] = hit]
           /\ staged' = [staged EXCEPT ![r] =
                 IF hit = {} THEN NoRow ELSE SoftDeleted(row[call[r].id], began[r])]
    /\ Goto(r, "written")
    /\ UNCHANGED <<row, clock, call, began, conn, total, outcome, known, gone>>

Select(r) ==
    /\ pc[r] = "begun" /\ call[r].op \in {"get_by_id", "get_by_name"}
    /\ found' = [found EXCEPT ![r] = FindActive(r)]
    /\ Return(r, IF FindActive(r) = {} THEN "RepositoryNotFound" ELSE "ok")
    /\ UNCHANGED <<dbVars, call, began, conn, total, known, gone>>

ListPage(r) ==
    /\ pc[r] = "begun" /\ call[r].op = "list"
    /\ found' = [found EXCEPT ![r] = Page(call[r].limit, call[r].offset)]
    /\ Goto(r, "counted")
    /\ UNCHANGED <<dbVars, call, began, conn, total, outcome, known, gone>>

\* A second statement: at READ COMMITTED it sees what committed in between.
ListTotal(r) ==
    /\ pc[r] = "counted"
    /\ total' = [total EXCEPT ![r] = Total]
    /\ Return(r, "ok")
    /\ UNCHANGED <<dbVars, call, began, conn, found, known, gone>>

\* Mutant: `yield` without `async with`.
Close_Leaks(r) ==
    /\ pc[r] = "returned"
    /\ began' = [began EXCEPT ![r] = 0]
    /\ Goto(r, "closed")
    /\ UNCHANGED <<dbVars, call, conn, found, total, outcome, known, gone>>

\* get_db_session leaves `async with`: what the session still holds goes back.
Close(r) ==
    /\ pc[r] = "returned"
    /\ conn' = conn \ {r}
    /\ began' = [began EXCEPT ![r] = 0]
    /\ Goto(r, "closed")
    /\ UNCHANGED <<dbVars, call, found, total, outcome, known, gone>>

-----------------------------------------------------------------------------
(* Failures *)

\* Mutant: every DBAPIError of the flush is taken for a duplicate name.
Raise_AnyIsConflict(r) ==
    \/ /\ call[r].op = "create" /\ pc[r] \in {"pool", "begun"} /\ Goto(r, "failed")
       /\ Answer(r, "RepositoryAlreadyExists")
    \/ Return(r, "error")

\* An error other than a duplicate name leaves a statement: create()'s flush
\* rolls back first if it is a DBAPIError, everything else propagates.  A flush
\* whose rollback fails as well, whatever it had found, ends like the latter:
\* with an error, and a connection that Close gives back.
Raise(r) ==
    /\ \/ call[r].op = "create" /\ pc[r] \in {"pool", "begun"} /\ Goto(r, "failed")
       \/ Goto(r, "returned")
    /\ Answer(r, "error")

\* Mutant: no command_timeout, a blocked statement waits as long as it takes.
CommandTimeout_None(r) == pc[r] = "none" /\ UNCHANGED vars

\* command_timeout ends a statement that waits for another transaction.
CommandTimeout(r) ==
    /\ pc[r] = "begun" /\ call[r].op \in {"create", "delete"} /\ Blocked(r)
    /\ Raise(r)
    /\ UNCHANGED <<dbVars, call, began, conn, found, total, known, gone>>

\* A lost connection or a server error.  What COMMIT was doing stays open.
DbError(r) ==
    /\ "error" \in Hazards
    /\ pc[r] \in {"pool", "begun", "counted", "written"}
    /\ Raise(r)
    /\ UNCHANGED <<dbVars, call, began, conn, found, total, known, gone>>

\* The server ends a transaction whose client has gone: the COMMIT had arrived, or not.
Resolve(r) ==
    /\ staged[r] # NoRow /\ pc[r] \in {"returned", "closed", "dead"}
    /\ row' \in {row, [row EXCEPT ![Target(r)] = staged[r]]}
    /\ staged' = [staged EXCEPT ![r] = NoRow]
    /\ UNCHANGED <<clock, call, pc, began, conn, found, total, outcome, known, gone>>

\* The process dies; transactions past their statement are left to the server.
Kill ==
    /\ "kill" \in Hazards
    /\ \E r \in Request : pc[r] \notin {"idle", "closed", "dead"}
    /\ pc' = [r \in Request |-> IF pc[r] \in {"idle", "closed"} THEN pc[r] ELSE "dead"]
    /\ conn' = {}
    /\ began' = [r \in Request |-> 0]
    /\ UNCHANGED <<dbVars, call, found, total, outcome, known, gone>>

Tick ==
    /\ clock < MaxClock /\ clock' = clock + 1
    /\ UNCHANGED <<row, staged, call, pc, began, conn, found, total, outcome, known, gone>>

-----------------------------------------------------------------------------
(* The specification *)

\* A client knows the ids that were returned to it, and can make one up.
Arrive(r) ==
    \/ \E n \in Name : CallCreate(r, n) \/ CallGetByName(r, n)
    \/ \E i \in Stored \cup {NoId} : CallGetById(r, i) \/ CallDelete(r, i)
    \/ \E l, f \in Asked : CallList(r, l, f)

Serve(r) ==
    \/ Acquire(r) \/ PoolTimeout(r)
    \/ Insert(r) \/ Rollback(r) \/ Update(r) \/ Commit(r)
    \/ Select(r) \/ ListPage(r) \/ ListTotal(r)
    \/ CommandTimeout(r) \/ Close(r)

Fail(r) == DbError(r) \/ Resolve(r)

Quiescent == (\A r \in Request : pc[r] \in {"closed", "dead"}) /\ UNCHANGED vars

Next ==
    \/ \E r \in Request : Arrive(r) \/ Serve(r) \/ Fail(r)
    \/ Kill \/ Tick \/ Quiescent

Spec == Init /\ [][Next]_vars

\* The event loop and the timeouts of engine.py move every request that can move.
FairSpec == Spec /\ \A r \in Request : WF_vars(Serve(r))

-----------------------------------------------------------------------------
(* Properties *)

\* Rows, versions and calls keep their shape; in particular a committed row has a
\* legal name and a staged version belongs to a create() or delete() call.
TypeOK ==
    /\ row \in [Request -> Row \cup {NoRow}]
    /\ staged \in [Request -> Row \cup {NoRow}]
    /\ clock \in 1..MaxClock
    /\ \A r \in Request :
         /\ call[r].op \in Operation \cup {"none"} /\ call[r].name \in Name \cup {NoName}
         /\ call[r].id \in Request \cup {NoId}
         /\ call[r].limit \in 0..MaxLimit /\ call[r].offset \in Nat
    /\ pc \in [Request -> Step]
    /\ began \in [Request -> 0..MaxClock]
    /\ conn \subseteq Request /\ Cardinality(conn) <= PoolSize
    /\ found \in [Request -> SUBSET Request]
    /\ total \in [Request -> 0..Cardinality(Request)]
    /\ outcome \in [Request -> Outcome]

\* No two rows, deleted ones included, have names that differ only in case, however
\* many create() calls race between the index check and their COMMIT.
NamesUnique ==
    \A i, j \in Stored : Fold[row[i].name] = Fold[row[j].name] => i = j

\* create() that returns has published exactly its row; RepositoryAlreadyExists means
\* another row owns the name and nothing was inserted, never some other database error.
CreateAnswersTruthfully ==
    \A r \in Request : call[r].op = "create" =>
        /\ outcome[r] = "ok" => r \in Stored /\ row[r].name = Wanted(r)
        /\ outcome[r] \in {"RepositoryAlreadyExists", "InvalidRepositoryName"} => r \notin Stored
        /\ outcome[r] = "RepositoryAlreadyExists" =>
             \E i \in Stored : Fold[row[i].name] = Fold[Wanted(r)]

\* delete() that returns leaves the row deleted, whether this call, an earlier or a
\* concurrent one did it; RepositoryNotFound means the id never existed.
DeleteAnswersTruthfully ==
    \A r \in Request : call[r].op = "delete" =>
        /\ outcome[r] = "ok" => call[r].id \in Stored \ Active
        /\ outcome[r] = "RepositoryNotFound" => call[r].id \notin Stored

\* A read returns no row deleted before it was asked, and misses no row that existed
\* when it was asked and is live still, though writers commit in between.
ReadsAreCurrent ==
    \A r \in Request :
        LET steady == known[r] \cap Active
        IN  pc[r] \in {"returned", "closed"} /\ outcome[r] # "error" =>
              /\ call[r].op \in {"get_by_id", "get_by_name", "list"} => found[r] \cap gone[r] = {}
              /\ call[r].op = "get_by_id" => {call[r].id} \cap steady \subseteq found[r]
              /\ call[r].op = "get_by_name" =>
                   {i \in steady : Fold[row[i].name] = Fold[call[r].name]} \subseteq found[r]

\* The first page is the newest rows: a steady row is left out of it only if the page
\* is full and holds nothing older.
FirstPageIsNewest ==
    \A r \in Request : call[r].op = "list" /\ outcome[r] = "ok" /\ call[r].offset = 0 =>
        /\ Cardinality(found[r]) <= call[r].limit
        /\ \A j \in (known[r] \cap Active) \ found[r] :
              /\ Cardinality(found[r]) = call[r].limit
              /\ \A i \in found[r] : row[i].created >= row[j].created

\* A connection is held only by a request that will still close its session, and an
\* uncommitted version only by one that holds a connection or has lost it.
ConnectionsReturned ==
    /\ \A r \in conn : pc[r] \in {"begun", "counted", "written", "failed", "returned"}
    /\ \A r \in Request : staged[r] # NoRow => r \in conn \/ pc[r] \in {"closed", "dead"}

\* A committed row keeps its name and created_at for ever, and once deleted keeps its
\* first deleted_at, whatever deletes follow or overlap.
RowsOnlyAge ==
    [][\A i \in Stored :
         /\ row'[i].name = row[i].name /\ row'[i].created = row[i].created
         /\ row[i].deleted # Never => row'[i].deleted = row[i].deleted]_vars

\* Every request is answered and its session closed: waiting for a connection, for
\* an index key or for a row lock always ends.
EveryCallAnswers ==
    \A r \in Request : pc[r] = "pool" ~> pc[r] \in {"closed", "dead"}

\* The entity documents updated_at as the moment the row last changed, so it cannot
\* lie before the deletion that is recorded in the same row.
UpdatedIsLastChange ==
    \A i \in Stored : row[i].deleted # Never => row[i].deleted <= row[i].updated
=============================================================================
