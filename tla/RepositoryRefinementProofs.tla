---------------------- MODULE RepositoryRefinementProofs ----------------------
(***************************************************************************)
(* Proof that the PostgreSQL store implements the RepositoryStore port,    *)
(* for any number of concurrent requests, any names and page bounds and    *)
(* under every failure: each of its steps is one step of                   *)
(* RepositoryContract under the mapping of RepositoryRefinesContract, or   *)
(* invisible to the callers.                                               *)
(***************************************************************************)
EXTENDS RepositoryRefinesContract, RepositoryStoreProofs

\* What the port's variables are mapped to.
Entries == [i \in Request |-> EntryOf(row[i])]
Calls   == [r \in Request |-> CallOf(call[r])]
Stages  == [r \in Request |-> StageOf(pc[r])]
Answers == [r \in Request |-> AnswerOf(r)]

\* The callers see nothing.
Invisible == UNCHANGED <<Entries, Calls, Stages, Answers>>

PortStep == [Contract!Next]_(Contract!vars)

-----------------------------------------------------------------------------
(* What the mapping needs beyond IInv *)

\* Only a list() that returns has counted, and an insert stages a live row.
PortInv(r) ==
    /\ outcome[r] # "ok" => total[r] = 0
    /\ staged[r] # NoRow /\ call[r].op = "create" => staged[r].deleted = Never

PortIInv == IInv /\ \A r \in Request : PortInv(r)

\* A request's own step keeps both.
LEMMA PortInvStep ==
    ASSUME PortIInv, NEW r \in Request, RequestStep(r)
    PROVE  PortInv(r)'
<1> USE DEF Goto, Answer, Return, dbVars
<1>t. IInv /\ Typed /\ OwnInv(r) /\ PortInv(r)
  BY DEF PortIInv, IInv
<1>1. CASE Arrive(r)
  <2>1. pc[r] = "idle" /\ outcome[r] = "none" /\ staged[r] = NoRow
    BY <1>1, <1>t, ArriveEffect DEF OwnInv, ControlInv, StagedInv
  <2> QED
    BY <1>1, <1>t, <2>1, ArriveEffect DEF PortInv
<1>2. CASE Acquire(r) \/ PoolTimeout(r) \/ Rollback(r) \/ Close(r)
  BY <1>2, <1>t DEF Acquire, PoolTimeout, Rollback, Close, PortInv, OwnInv, ControlInv, Typed,
     TypeOK
<1>3. CASE Insert(r)
  BY <1>3, <1>t DEF Insert, PortInv, OwnInv, ControlInv, Typed, TypeOK
<1>4. CASE Update(r)
  BY <1>4, <1>t DEF Update, PortInv, OwnInv, ControlInv, Typed, TypeOK
<1>5. CASE Commit(r)
  BY <1>5, <1>t DEF Commit, PortInv, OwnInv, ControlInv, Typed, TypeOK
<1>6. CASE Select(r) \/ ListPage(r) \/ ListTotal(r)
  BY <1>6, <1>t DEF Select, ListPage, ListTotal, PortInv, OwnInv, ControlInv, Typed, TypeOK
<1>7. CASE CommandTimeout(r) \/ DbError(r)
  BY <1>7, <1>t DEF CommandTimeout, DbError, Raise, PortInv, OwnInv, ControlInv, Typed, TypeOK
<1>8. CASE Resolve(r)
  BY <1>8, <1>t DEF Resolve, PortInv, OwnInv, Typed, TypeOK
<1> QED
  BY <1>1, <1>2, <1>3, <1>4, <1>5, <1>6, <1>7, <1>8 DEF RequestStep, Serve, Fail

\* PortIInv is inductive.
LEMMA StepPortIInv == PortIInv /\ [Next]_vars => PortIInv'
<1> SUFFICES ASSUME PortIInv, [Next]_vars PROVE PortIInv'
  OBVIOUS
<1>t. IInv /\ IInv' /\ \A r \in Request : PortInv(r)
  BY StepIInv DEF PortIInv
<1>1. ASSUME NEW r \in Request, RequestStep(r), NEW o \in Request PROVE PortInv(o)'
  <2>1. CASE o = r
    BY <1>1, <2>1, PortInvStep
  <2>2. CASE o # r
    BY <1>1, <1>t, <2>2, Frame DEF PortInv
  <2> QED
    BY <2>1, <2>2
<1>2. ASSUME UNCHANGED <<staged, call, outcome, total>>
      PROVE  \A o \in Request : PortInv(o)'
  BY <1>t, <1>2 DEF PortInv
<1>3. CASE Kill \/ Tick \/ UNCHANGED vars
  BY <1>2, <1>3, <1>t DEF Kill, Tick, vars, dbVars, PortIInv
<1> QED
  BY <1>1, <1>3, <1>t DEF Next, RequestStep, Quiescent, PortIInv

\* It holds at the start.
LEMMA InitPortIInv == Init => PortIInv
  BY InitIInv DEF Init, PortIInv, PortInv

-----------------------------------------------------------------------------
(* The mapping *)

\* The stage of every await.
LEMMA StageValues ==
    /\ StageOf("idle") = "idle" /\ StageOf("counted") = "paged"
    /\ \A l \in {"pool", "begun", "written"} : StageOf(l) = "called"
    /\ \A l \in {"failed", "returned", "closed", "dead"} : StageOf(l) = "settled"
  BY DEF StageOf

\* A call that was made is seen as it was made.
LEMMA CallValues ==
    ASSUME NEW c, c.op # "none"
    PROVE  CallOf(c) = c
  BY DEF CallOf, NoCall

\* A row is seen as absent, live or deleted.
LEMMA EntryValues ==
    /\ EntryOf(NoRow) = Contract!Absent
    /\ \A v \in Row : /\ EntryOf(v) # Contract!Absent /\ EntryOf(v).name = v.name
                      /\ v.deleted = Never => EntryOf(v) = [is |-> "active", name |-> v.name]
                      /\ v.deleted # Never => EntryOf(v) = [is |-> "deleted", name |-> v.name]
<1>1. EntryOf(NoRow) = Contract!Absent
  BY DEF EntryOf, NoRow, Contract!Absent
<1>2. ASSUME NEW v \in Row
      PROVE  /\ EntryOf(v) # Contract!Absent /\ EntryOf(v).name = v.name
             /\ v.deleted = Never => EntryOf(v) = [is |-> "active", name |-> v.name]
             /\ v.deleted # Never => EntryOf(v) = [is |-> "deleted", name |-> v.name]
  <2>1. v # NoRow
    BY NameAssumption DEF Row, NoRow
  <2> QED
    BY <2>1 DEF EntryOf, Contract!Absent
<1> QED
  BY <1>1, <1>2

\* The port counts as the store does.
LEMMA SameCardinality == \A S : Contract!Cardinality(S) = Cardinality(S)
  BY DEF Contract!Cardinality, Cardinality

\* The port's registered and active repositories, and the holders of a name, are
\* the rows, the live rows and the rows that clash with it.
LEMMA TableMapped ==
    ASSUME Typed
    PROVE  /\ Contract!Registered = Stored
           /\ Contract!Active = Active
           /\ \A n : Contract!Holders(n) = Clashes(n)
<1>1. \A i \in Request : row[i] = NoRow \/ row[i] \in Row
  BY DEF Typed, TypeOK
<1>2. Contract!Registered = Stored
  BY <1>1, EntryValues DEF Contract!Registered, Stored
<1>3. Contract!Active = Active
  BY <1>1, EntryValues DEF Contract!Active, Contract!Absent, Active, Stored
<1>4. ASSUME NEW n PROVE Contract!Holders(n) = Clashes(n)
  BY <1>1, <1>2, EntryValues DEF Contract!Holders, Clashes, Stored
<1> QED
  BY <1>2, <1>3, <1>4

\* The empty table maps to the port's initial state.
LEMMA InitMapped == Init => Contract!Init
<1> SUFFICES ASSUME Init PROVE Contract!Init
  OBVIOUS
<1>1. \A r \in Request : AnswerOf(r) = Contract!NoAnswer
  BY DEF Init, AnswerOf, Contract!NoAnswer
<1>2. \A r \in Request : CallOf(call[r]) = [op |-> "none"]
  BY DEF Init, CallOf
<1> QED
  BY <1>1, <1>2, StageValues, EntryValues DEF Init, Contract!Init

\* A request's step moves its own call only.
LEMMA MappedStep ==
    ASSUME IInv, NEW r \in Request, RequestStep(r)
    PROVE  /\ Stages' = [Stages EXCEPT ![r] = StageOf(pc'[r])]
           /\ Answers' = [Answers EXCEPT ![r] = AnswerOf(r)']
           /\ Calls' = [Calls EXCEPT ![r] = CallOf(call'[r])]
<1>1. ASSUME NEW o \in Request \ {r}
      PROVE  pc'[o] = pc[o] /\ call'[o] = call[o] /\ AnswerOf(o)' = AnswerOf(o)
  <2>1. /\ pc'[o] = pc[o] /\ call'[o] = call[o]
        /\ found'[o] = found[o] /\ total'[o] = total[o] /\ outcome'[o] = outcome[o]
    BY Frame
  <2> QED
    BY <2>1 DEF AnswerOf
<1>2. Stages' = [Stages EXCEPT ![r] = StageOf(pc'[r])]
  BY <1>1 DEF Stages
<1>3. Answers' = [Answers EXCEPT ![r] = AnswerOf(r)']
  BY <1>1 DEF Answers
<1>4. Calls' = [Calls EXCEPT ![r] = CallOf(call'[r])]
  BY <1>1 DEF Calls
<1> QED
  BY <1>2, <1>3, <1>4

\* A step nobody sees is a stutter of the port.
LEMMA PortStutter == Invisible => PortStep
  BY DEF Invisible, Entries, Calls, Stages, Answers, PortStep, Contract!vars

\* A call under way moves its stage and its answer ...
LEMMA SettleStep ==
    ASSUME IInv, NEW r \in Request, RequestStep(r), UNCHANGED call
    PROVE  /\ UNCHANGED Calls
           /\ Stages' = [Stages EXCEPT ![r] = StageOf(pc'[r])]
           /\ Answers' = [Answers EXCEPT ![r] = AnswerOf(r)']
<1>1. UNCHANGED Calls
  BY DEF Calls
<1> QED
  BY <1>1, MappedStep

\* ... and is invisible when it moves neither, nor the table.
LEMMA InvisibleStep ==
    ASSUME IInv, NEW r \in Request, RequestStep(r), UNCHANGED <<call, row>>,
           StageOf(pc'[r]) = StageOf(pc[r]), AnswerOf(r)' = AnswerOf(r)
    PROVE  PortStep
<1>1. UNCHANGED Stages
  BY SettleStep DEF Stages
<1>2. UNCHANGED Answers
  BY SettleStep DEF Answers
<1>3. UNCHANGED Entries
  BY DEF Entries
<1> QED
  BY <1>1, <1>2, <1>3, SettleStep, PortStutter DEF Invisible

-----------------------------------------------------------------------------
(* The actions of the port, over the mapped state *)

Record(o, rows, n) == [outcome |-> o, rows |-> rows, total |-> n]

\* How full a page is when so many live rows follow its offset.
PageSize(rest, limit) == CASE rest <= 0    -> 0
                           [] rest > limit -> limit
                           [] OTHER        -> rest

Settles(r, o, rows, n) ==
    /\ Stages'  = [Stages EXCEPT ![r] = "settled"]
    /\ Answers' = [Answers EXCEPT ![r] = Record(o, rows, n)]

\* A call is made, and waits ...
LEMMA PortAsk ==
    ASSUME NEW r \in Request, NEW c,
           Stages[r] = "idle", c.op # "none",
           c.op = "create" => Parse[c.name] # NoName,
           Calls' = [Calls EXCEPT ![r] = c],
           Stages' = [Stages EXCEPT ![r] = "called"],
           UNCHANGED <<Entries, Answers>>
    PROVE  Contract!Ask(r)
<1>1. Calls'[r] = c /\ \A o \in Request \ {r} : Calls'[o] = Calls[o]
  BY DEF Calls
<1> QED
  BY <1>1 DEF Entries, Calls, Stages, Answers, Contract!Ask

\* ... or is refused for its name.
LEMMA PortRefuse ==
    ASSUME NEW r \in Request, NEW c,
           Stages[r] = "idle", c.op = "create", Parse[c.name] = NoName,
           Calls' = [Calls EXCEPT ![r] = c],
           Settles(r, "InvalidRepositoryName", {}, 0),
           UNCHANGED Entries
    PROVE  Contract!Ask(r)
<1>1. Calls'[r] = c /\ \A o \in Request \ {r} : Calls'[o] = Calls[o]
  BY DEF Calls
<1> QED
  BY <1>1 DEF Entries, Calls, Stages, Answers, Settles, Record, Contract!Settle, Contract!Ask

\* A transaction is committed: an insert whose name no row has, or an update of a row.
LEMMA PortEffect ==
    ASSUME PortIInv, NEW r \in Request, staged[r] # NoRow,
           row' = [row EXCEPT ![Target(r)] = staged[r]]
    PROVE  Contract!Effect(r)
<1>1. /\ Typed /\ OwnInv(r) /\ PortInv(r)
      /\ call[r].op \in {"create", "delete"} /\ staged[r] \in Row
  BY DEF PortIInv, IInv, OwnInv, StagedInv, Typed, TypeOK
<1>2. Calls[r] = call[r]
  BY <1>1, CallValues DEF Calls
<1>3. ASSUME NEW i \in Request, row' = [row EXCEPT ![i] = staged[r]]
      PROVE  Entries' = [Entries EXCEPT ![i] = EntryOf(staged[r])]
  BY <1>1, <1>3 DEF Entries, Typed, TypeOK
<1>4. CASE call[r].op = "create"
  <2>1. /\ row[r] = NoRow /\ staged[r].name = Wanted(r) /\ staged[r].deleted = Never
        /\ \A i \in Stored : Fold[row[i].name] # Fold[staged[r].name]
    BY <1>1, <1>4 DEF OwnInv, InsertInv, PortInv
  <2>2. Contract!Holders(Wanted(r)) = {}
    BY <1>1, <2>1, TableMapped DEF Clashes
  <2>3. Entries[r] = Contract!Absent
    BY <2>1, EntryValues DEF Entries
  <2>4. Entries' = [Entries EXCEPT ![r] = [is |-> "active", name |-> Wanted(r)]]
    BY <1>1, <1>3, <1>4, <2>1, EntryValues DEF Target
  <2> QED
    BY <1>2, <1>4, <2>2, <2>3, <2>4 DEF Contract!Effect, Entries, Calls, Wanted
<1>5. CASE call[r].op = "delete"
  <2> DEFINE i == call[r].id
  <2>1. /\ i \in Stored /\ i \in Request /\ row[i] \in Row
        /\ staged[r].name = row[i].name /\ staged[r].deleted # Never
    BY <1>1, <1>5 DEF OwnInv, UpdateInv, Stored, Typed, TypeOK
  <2>2. Entries' = [Entries EXCEPT ![i] = [is |-> "deleted", name |-> row[i].name]]
    BY <1>1, <1>3, <1>5, <2>1, EntryValues DEF Target
  <2>3. [Entries[i] EXCEPT !.is = "deleted"] = [is |-> "deleted", name |-> row[i].name]
    BY <2>1, EntryValues DEF Entries
  <2>4. Entries' = [Entries EXCEPT ![i].is = "deleted"]
    BY <2>2, <2>3
  <2>5. i \in Contract!Registered
    BY <1>1, <2>1, TableMapped
  <2> QED
    BY <1>2, <1>5, <2>4, <2>5 DEF Contract!Effect, Entries, Calls
<1> QED
  BY <1>1, <1>4, <1>5

\* Under way, it answers ...
LEMMA PortWrite ==
    ASSUME NEW r \in Request, Stages[r] = "called", Contract!Effect(r),
           Settles(r, "ok", {IF Calls[r].op = "create" THEN r ELSE Calls[r].id}, 0),
           UNCHANGED Calls
    PROVE  Contract!Write(r)
  BY DEF Calls, Stages, Answers, Settles, Record, Contract!Settle, Contract!Write

\* ... and otherwise it comes late.
LEMMA PortLateEffect ==
    ASSUME NEW r \in Request, Stages[r] = "settled", Contract!Effect(r),
           Answers[r].outcome \in {"error", "none"},
           UNCHANGED <<Calls, Stages, Answers>>
    PROVE  Contract!LateEffect(r)
  BY DEF Calls, Stages, Answers, Contract!LateEffect

\* create() meets the name.
LEMMA PortConflict ==
    ASSUME NEW r \in Request, Stages[r] = "called", Calls[r].op = "create",
           Contract!Holders(Parse[Calls[r].name]) # {},
           Settles(r, "RepositoryAlreadyExists", {}, 0),
           UNCHANGED <<Entries, Calls>>
    PROVE  Contract!Conflict(r)
  BY DEF Entries, Calls, Stages, Answers, Settles, Record, Contract!Settle, Contract!Calls,
     Contract!Conflict

\* delete() does not meet the id.
LEMMA PortUnknown ==
    ASSUME NEW r \in Request, Stages[r] = "called", Calls[r].op = "delete",
           Calls[r].id \notin Contract!Registered,
           Settles(r, "RepositoryNotFound", {}, 0),
           UNCHANGED <<Entries, Calls>>
    PROVE  Contract!Unknown(r)
  BY DEF Entries, Calls, Stages, Answers, Settles, Record, Contract!Settle, Contract!Calls,
     Contract!Unknown

\* get_by_id() and get_by_name() look.
LEMMA PortLook ==
    ASSUME NEW r \in Request, NEW seen, Stages[r] = "called",
           \/ Calls[r].op = "get_by_id" /\ seen = {Calls[r].id} \cap Contract!Active
           \/ Calls[r].op = "get_by_name"
              /\ seen = Contract!Holders(Calls[r].name) \cap Contract!Active,
           Settles(r, IF seen = {} THEN "RepositoryNotFound" ELSE "ok", seen, 0),
           UNCHANGED <<Entries, Calls>>
    PROVE  Contract!Look(r)
  BY DEF Entries, Calls, Stages, Answers, Settles, Record, Contract!Settle, Contract!Calls,
     Contract!Look

\* list() takes its page ...
LEMMA PortTakePage ==
    ASSUME NEW r \in Request, NEW items \in SUBSET Contract!Active,
           Stages[r] = "called", Calls[r].op = "list",
           Cardinality(items) =
               PageSize(Cardinality(Contract!Active) - Calls[r].offset, Calls[r].limit),
           Answers' = [Answers EXCEPT ![r].rows = items],
           Stages' = [Stages EXCEPT ![r] = "paged"],
           UNCHANGED <<Entries, Calls>>
    PROVE  Contract!TakePage(r)
<1>1. Contract!Calls(r, "list")
  BY DEF Calls, Stages, Contract!Calls
<1>2. Contract!Cardinality(items) =
          PageSize(Contract!Cardinality(Contract!Active) - Calls[r].offset, Calls[r].limit)
  BY SameCardinality, Zenon
<1> QED
  BY <1>1, <1>2, Zenon DEF Entries, Calls, Stages, Answers, PageSize, Contract!TakePage

\* ... and counts.
LEMMA PortCount ==
    ASSUME NEW r \in Request, Stages[r] = "paged",
           Settles(r, "ok", Answers[r].rows, Cardinality(Contract!Active)),
           UNCHANGED <<Entries, Calls>>
    PROVE  Contract!Count(r)
<1>1. Contract!Settle(r, "ok", Answers[r].rows, Contract!Cardinality(Contract!Active))
  BY SameCardinality DEF Stages, Answers, Settles, Record, Contract!Settle
<1> QED
  BY <1>1 DEF Entries, Calls, Stages, Answers, Contract!Count

\* A call under way fails.
LEMMA PortFail ==
    ASSUME NEW r \in Request, Stages[r] \in {"called", "paged"},
           Settles(r, "error", {}, 0),
           UNCHANGED <<Entries, Calls>>
    PROVE  Contract!Fail(r)
  BY DEF Entries, Calls, Stages, Answers, Settles, Record, Contract!Settle, Contract!Fail

-----------------------------------------------------------------------------
(* Steps of a request *)

\* LIMIT and OFFSET along the total order: ranks are the numbers below the count of
\* live rows, each of them once, so a page is as full as it can be.
LEMMA PageIsFull ==
    ASSUME Typed, NEW limit \in Nat, NEW offset \in Nat
    PROVE  Cardinality(Page(limit, offset)) = PageSize(Cardinality(Active) - offset, limit)
<1> DEFINE n == Cardinality(Active)
           p == Page(limit, offset)
           last == (IF n < offset + limit THEN n ELSE offset + limit) - 1
           f == [i \in Active |-> Rank(i)]
           g == [i \in p |-> Rank(i)]
<1>1. /\ IsFiniteSet(Active) /\ n \in Nat
      /\ \A i \in Active : Rank(i) \in 0..(n - 1)
      /\ \A i, j \in Active : i \in Before(j) => Rank(i) < Rank(j)
      /\ \A i, j \in Active : i # j => i \in Before(j) \/ j \in Before(i)
  BY RankOrders
<1>2. \A i, j \in Active : Rank(i) = Rank(j) => i = j
  BY <1>1
<1>3. last \in Int /\ last < n
  BY <1>1
<1>4. p = {i \in Active : Rank(i) \in offset..last}
  BY <1>1 DEF Page
<1>5. IsFiniteSet(0..(n - 1)) /\ Cardinality(0..(n - 1)) = n
  <2>1. \A m \in Nat : IsFiniteSet(0..(m - 1)) /\ Cardinality(0..(m - 1)) = m
    BY FS_Interval
  <2> QED
    BY <1>1, <2>1
<1>6. /\ IsFiniteSet(offset..last)
      /\ Cardinality(offset..last) = IF offset > last THEN 0 ELSE last - offset + 1
  <2> HIDE DEF last
  <2> QED
    BY <1>3, FS_Interval
<1> HIDE DEF p
<1>7. f \in Surjection(Active, 0..(n - 1))
  <2>1. f \in Injection(Active, 0..(n - 1))
    BY <1>1, <1>2 DEF Injection, IsInjective
  <2> HIDE DEF f
  <2> QED
    BY <1>5, <2>1, FS_Injection
<1> HIDE DEF n, last
<1>8. g \in Injection(p, offset..last)
  BY <1>2, <1>4 DEF Injection, IsInjective
<1>9. g \in Surjection(p, offset..last)
  <2>1. ASSUME NEW k \in offset..last PROVE \E i \in p : g[i] = k
    <3>1. k \in 0..(n - 1)
      BY <1>1, <1>3
    <3>2. PICK i \in Active : f[i] = k
      BY <1>7, <3>1 DEF Surjection
    <3> QED
      BY <1>4, <3>2
  <2> QED
    BY <1>8, <2>1 DEF Surjection, Injection
<1>10. Cardinality(p) = Cardinality(offset..last)
  <2> HIDE DEF g
  <2> QED
    BY <1>6, <1>8, <1>9, FS_Injection
<1>11. Cardinality(p) = PageSize(n - offset, limit)
  BY <1>1, <1>6, <1>10 DEF PageSize, last
<1> QED
  BY <1>11 DEF p, n

\* A request arrives.
LEMMA StepArrive ==
    ASSUME PortIInv, NEW r \in Request, Arrive(r)
    PROVE  PortStep
<1>1. IInv /\ Typed /\ OwnInv(r) /\ PortInv(r) /\ RequestStep(r)
  BY DEF PortIInv, IInv, RequestStep
<1>2. pc[r] = "idle" /\ UNCHANGED <<row, found, total>>
  BY <1>1, ArriveEffect DEF dbVars
<1>3. PICK c \in CallType :
          /\ call' = [call EXCEPT ![r] = c]
          /\ c.op \in Operation
          /\ \/ pc' = [pc EXCEPT ![r] = "pool"] /\ UNCHANGED outcome
                /\ (c.op = "create" => Parse[c.name] # NoName)
             \/ /\ pc' = [pc EXCEPT ![r] = "returned"]
                /\ outcome' = [outcome EXCEPT ![r] = "InvalidRepositoryName"]
                /\ c.op = "create" /\ Parse[c.name] = NoName
  BY <1>1, ArriveEffect
<1>4. outcome[r] = "none" /\ total[r] = 0
  BY <1>1, <1>2 DEF OwnInv, ControlInv, PortInv
<1>5. c.op # "none" /\ CallOf(call'[r]) = c
  BY <1>1, <1>3, CallValues DEF Operation, Typed
<1>6. UNCHANGED Entries /\ Stages[r] = "idle"
  BY <1>2, StageValues DEF Entries, Stages
<1>7. CASE pc' = [pc EXCEPT ![r] = "pool"] /\ UNCHANGED outcome
           /\ (c.op = "create" => Parse[c.name] # NoName)
  <2>1. pc'[r] = "pool" /\ AnswerOf(r)' = AnswerOf(r)
    BY <1>1, <1>2, <1>7 DEF AnswerOf, Typed, TypeOK
  <2>2. UNCHANGED Answers
    BY <1>1, <2>1, MappedStep DEF Answers
  <2>3. Stages' = [Stages EXCEPT ![r] = "called"]
    BY <1>1, <2>1, MappedStep, StageValues
  <2>4. Contract!Ask(r)
    BY <1>1, <1>5, <1>6, <1>7, <2>2, <2>3, MappedStep, PortAsk
  <2> QED
    BY <2>4 DEF PortStep, Contract!Next
<1>8. CASE /\ pc' = [pc EXCEPT ![r] = "returned"]
           /\ outcome' = [outcome EXCEPT ![r] = "InvalidRepositoryName"]
           /\ c.op = "create" /\ Parse[c.name] = NoName
  <2>1. pc'[r] = "returned" /\ AnswerOf(r)' = Record("InvalidRepositoryName", {}, 0)
    BY <1>1, <1>2, <1>4, <1>8 DEF AnswerOf, Record, Typed, TypeOK
  <2>2. Settles(r, "InvalidRepositoryName", {}, 0)
    BY <1>1, <2>1, MappedStep, StageValues DEF Settles
  <2>3. Contract!Ask(r)
    BY <1>1, <1>5, <1>6, <1>8, <2>2, MappedStep, PortRefuse
  <2> QED
    BY <2>3 DEF PortStep, Contract!Next
<1> QED
  BY <1>3, <1>7, <1>8

\* Until its COMMIT a write is invisible, and so are the pool, the rollback of a call
\* that has been decided, and the close of its session.
LEMMA StepSilent ==
    ASSUME PortIInv, NEW r \in Request,
           \/ Acquire(r) \/ Rollback(r) \/ Update(r) \/ Close(r)
           \/ Insert(r) /\ Clashes(Wanted(r)) = {}
    PROVE  PortStep
<1> USE DEF Goto, Answer, Return, dbVars
<1>1. IInv /\ Typed /\ OwnInv(r) /\ RequestStep(r)
  BY DEF PortIInv, IInv, RequestStep, Serve
<1>2. UNCHANGED <<row, call, outcome, total>>
  BY DEF Acquire, Rollback, Update, Close, Insert
<1>3. CASE Acquire(r) \/ Rollback(r) \/ Close(r)
  <2>1. /\ \/ pc[r] = "pool" /\ pc'[r] = "begun"
           \/ pc[r] \in {"failed", "returned"} /\ pc'[r] \in {"returned", "closed"}
        /\ UNCHANGED found
    BY <1>1, <1>3 DEF Acquire, Rollback, Close, Typed, TypeOK
  <2>2. StageOf(pc'[r]) = StageOf(pc[r])
    BY <2>1, StageValues
  <2>3. AnswerOf(r)' = AnswerOf(r)
    BY <1>2, <2>1 DEF AnswerOf
  <2> QED
    BY <1>1, <1>2, <2>2, <2>3, InvisibleStep
<1>4. CASE Update(r) \/ (Insert(r) /\ Clashes(Wanted(r)) = {})
  <2>1. pc[r] = "begun" /\ pc'[r] = "written" /\ outcome[r] = "none"
    BY <1>1, <1>4 DEF Update, Insert, OwnInv, ControlInv, Typed, TypeOK
  <2>2. StageOf(pc'[r]) = StageOf(pc[r])
    BY <2>1, StageValues
  <2>3. AnswerOf(r)' = AnswerOf(r)
    BY <1>2, <2>1 DEF AnswerOf
  <2> QED
    BY <1>1, <1>2, <2>2, <2>3, InvisibleStep
<1> QED
  BY <1>3, <1>4

\* What a step that answers shows: the call is settled with its outcome, the rows
\* found if it succeeded and no total.
LEMMA StepSettles ==
    ASSUME PortIInv, NEW r \in Request, RequestStep(r), UNCHANGED <<call, total>>,
           pc[r] \in {"pool", "begun", "counted", "written"},
           pc'[r] \in {"failed", "returned"}
    PROVE  /\ IInv /\ Typed /\ OwnInv(r) /\ UNCHANGED Calls
           /\ Stages[r] = StageOf(pc[r]) /\ Stages[r] \in {"called", "paged"}
           /\ pc[r] # "counted" => Stages[r] = "called"
           /\ call[r].op # "none" => Calls[r] = call[r]
           /\ Settles(r, outcome'[r], IF outcome'[r] = "ok" THEN found'[r] ELSE {}, 0)
<1>1. IInv /\ Typed /\ OwnInv(r) /\ PortInv(r)
  BY DEF PortIInv, IInv
<1>2. total[r] = 0
  BY <1>1 DEF OwnInv, ControlInv, PortInv
<1>3. AnswerOf(r)' = Record(outcome'[r], IF outcome'[r] = "ok" THEN found'[r] ELSE {}, 0)
  BY <1>2 DEF AnswerOf, Record
<1>4. Settles(r, outcome'[r], IF outcome'[r] = "ok" THEN found'[r] ELSE {}, 0)
  <2>1. StageOf(pc'[r]) = "settled"
    BY StageValues
  <2> QED
    BY <1>1, <1>3, <2>1, SettleStep DEF Settles
<1>5. call[r].op # "none" => Calls[r] = call[r]
  BY CallValues DEF Calls
<1> QED
  BY <1>1, <1>4, <1>5, SettleStep, StageValues DEF Stages

\* A timeout or an error is a failure of the call.
LEMMA StepFails ==
    ASSUME PortIInv, NEW r \in Request,
           PoolTimeout(r) \/ CommandTimeout(r) \/ DbError(r)
    PROVE  PortStep
<1> USE DEF Goto, Answer, Return, dbVars
<1>1. Typed /\ RequestStep(r)
  BY DEF PortIInv, IInv, RequestStep, Serve, Fail
<1>2. /\ UNCHANGED <<row, call, total>>
      /\ pc[r] \in {"pool", "begun", "counted", "written"}
      /\ pc'[r] \in {"failed", "returned"} /\ outcome'[r] = "error"
  BY <1>1 DEF PoolTimeout, CommandTimeout, DbError, Raise, Typed, TypeOK
<1>3. UNCHANGED Entries
  BY <1>2 DEF Entries
<1>4. Contract!Fail(r)
  BY <1>1, <1>2, <1>3, StepSettles, PortFail
<1> QED
  BY <1>4 DEF PortStep, Contract!Next

\* The unique index refuses an INSERT.
LEMMA StepClash ==
    ASSUME PortIInv, NEW r \in Request, Insert(r), Clashes(Wanted(r)) # {}
    PROVE  PortStep
<1> USE DEF Goto, Answer, Return, dbVars
<1>1. Typed /\ RequestStep(r)
  BY DEF PortIInv, IInv, RequestStep, Serve
<1>2. /\ UNCHANGED <<row, call, total>> /\ pc[r] = "begun" /\ call[r].op = "create"
      /\ pc'[r] = "failed" /\ outcome'[r] = "RepositoryAlreadyExists"
  BY <1>1 DEF Insert, Typed, TypeOK
<1>3. UNCHANGED Entries
  BY <1>2 DEF Entries
<1>4. Calls[r] = call[r] /\ Contract!Holders(Parse[Calls[r].name]) # {}
  BY <1>1, <1>2, StepSettles, TableMapped DEF Wanted
<1>5. Settles(r, "RepositoryAlreadyExists", {}, 0) /\ Stages[r] = "called" /\ UNCHANGED Calls
  BY <1>1, <1>2, StepSettles
<1>6. Contract!Conflict(r)
  BY <1>2, <1>3, <1>4, <1>5, PortConflict
<1> QED
  BY <1>6 DEF PortStep, Contract!Next

\* A COMMIT is the instant of a write; a delete() that met no row has nothing to commit.
LEMMA StepCommit ==
    ASSUME PortIInv, NEW r \in Request, Commit(r)
    PROVE  PortStep
<1> USE DEF Goto, Answer, Return, dbVars
<1>1. Typed /\ OwnInv(r) /\ RequestStep(r)
  BY DEF PortIInv, IInv, RequestStep, Serve
<1>2. /\ UNCHANGED <<call, total, found>> /\ pc[r] = "written" /\ pc'[r] = "returned"
      /\ outcome'[r] = IF found[r] = {} THEN "RepositoryNotFound" ELSE "ok"
      /\ call[r].op \in {"create", "delete"}
  BY <1>1 DEF Commit, OwnInv, ControlInv, Typed, TypeOK
<1>3. /\ Calls[r] = call[r] /\ UNCHANGED Calls /\ Stages[r] = "called"
      /\ Settles(r, outcome'[r], IF outcome'[r] = "ok" THEN found[r] ELSE {}, 0)
  BY <1>1, <1>2, StepSettles
<1>4. CASE staged[r] # NoRow
  <2>1. found[r] = {IF Calls[r].op = "create" THEN r ELSE Calls[r].id}
    BY <1>1, <1>2, <1>3, <1>4 DEF OwnInv, ControlInv
  <2>2. outcome'[r] = "ok"
    BY <1>2, <2>1
  <2>3. Contract!Effect(r)
    BY <1>4, PortEffect DEF Commit
  <2>4. Contract!Write(r)
    BY <1>3, <2>1, <2>2, <2>3, PortWrite
  <2> QED
    BY <2>4 DEF PortStep, Contract!Next
<1>5. CASE staged[r] = NoRow
  <2>1. call[r].op = "delete" /\ found[r] = {} /\ call[r].id = NoId
    BY <1>1, <1>2, <1>5 DEF OwnInv, ControlInv
  <2>2. UNCHANGED Entries
    BY <1>5 DEF Commit, Entries
  <2>3. Calls[r].id \notin Contract!Registered
    BY <1>1, <1>3, <2>1, RequestAssumption, TableMapped DEF Stored
  <2>4. Settles(r, "RepositoryNotFound", {}, 0)
    BY <1>2, <1>3, <2>1
  <2>5. Contract!Unknown(r)
    BY <1>3, <2>1, <2>2, <2>3, <2>4, PortUnknown
  <2> QED
    BY <2>5 DEF PortStep, Contract!Next
<1> QED
  BY <1>4, <1>5

\* A SELECT is the instant of a lookup.
LEMMA StepSelect ==
    ASSUME PortIInv, NEW r \in Request, Select(r)
    PROVE  PortStep
<1> USE DEF Goto, Answer, Return, dbVars
<1>1. Typed /\ RequestStep(r)
  BY DEF PortIInv, IInv, RequestStep, Serve
<1>2. /\ UNCHANGED <<row, call, total>> /\ pc[r] = "begun" /\ pc'[r] = "returned"
      /\ call[r].op \in {"get_by_id", "get_by_name"} /\ found'[r] = FindActive(r)
      /\ outcome'[r] = IF FindActive(r) = {} THEN "RepositoryNotFound" ELSE "ok"
  BY <1>1 DEF Select, Typed, TypeOK
<1>3. /\ Calls[r] = call[r] /\ UNCHANGED Calls /\ Stages[r] = "called"
      /\ Settles(r, outcome'[r], IF outcome'[r] = "ok" THEN found'[r] ELSE {}, 0)
  BY <1>1, <1>2, StepSettles
<1>4. UNCHANGED Entries
  BY <1>2 DEF Entries
<1>5. Settles(r, IF FindActive(r) = {} THEN "RepositoryNotFound" ELSE "ok", FindActive(r), 0)
  BY <1>2, <1>3
<1>6. \/ Calls[r].op = "get_by_id" /\ FindActive(r) = {Calls[r].id} \cap Contract!Active
      \/ Calls[r].op = "get_by_name"
         /\ FindActive(r) = Contract!Holders(Calls[r].name) \cap Contract!Active
  <2>1. CASE call[r].op = "get_by_id"
    BY <1>1, <1>3, <2>1, TableMapped DEF FindActive
  <2>2. CASE call[r].op = "get_by_name"
    BY <1>1, <1>3, <2>2, TableMapped DEF FindActive, Clashes, Active
  <2> QED
    BY <1>2, <2>1, <2>2
<1>7. Contract!Look(r)
  BY <1>3, <1>4, <1>5, <1>6, PortLook
<1> QED
  BY <1>7 DEF PortStep, Contract!Next

\* list() looks at the live rows for its page ...
LEMMA StepListPage ==
    ASSUME PortIInv, NEW r \in Request, ListPage(r)
    PROVE  PortStep
<1> USE DEF Goto, Answer, Return, dbVars
<1> DEFINE p == Page(call[r].limit, call[r].offset)
<1>1. IInv /\ Typed /\ OwnInv(r) /\ PortInv(r) /\ RequestStep(r)
  BY DEF PortIInv, IInv, RequestStep, Serve
<1>2. /\ UNCHANGED <<row, call, total, outcome>> /\ pc[r] = "begun" /\ pc'[r] = "counted"
      /\ call[r].op = "list" /\ found'[r] = p
  BY <1>1 DEF ListPage, Typed, TypeOK
<1>3. outcome[r] = "none" /\ total[r] = 0
  BY <1>1, <1>2 DEF OwnInv, ControlInv, PortInv
<1>4. Calls[r] = call[r] /\ UNCHANGED <<Entries, Calls>>
  BY <1>2, CallValues DEF Calls, Entries
<1>5. Stages[r] = "called" /\ Stages' = [Stages EXCEPT ![r] = "paged"]
  <2>1. StageOf(pc'[r]) = "paged" /\ StageOf(pc[r]) = "called"
    BY <1>2, StageValues
  <2> QED
    BY <1>1, <2>1, MappedStep DEF Stages
<1>6. Answers' = [Answers EXCEPT ![r].rows = p]
  <2>1. AnswerOf(r) = Record("none", {}, 0) /\ AnswerOf(r)' = Record("none", p, 0)
    BY <1>2, <1>3 DEF AnswerOf, Record
  <2>2. [Answers[r] EXCEPT !.rows = p] = Record("none", p, 0)
    BY <2>1 DEF Answers, Record
  <2> QED
    BY <1>1, <2>1, <2>2, MappedStep
<1>7. p \in SUBSET Contract!Active
  BY <1>1, TableMapped DEF Page
<1>8. Cardinality(p) = PageSize(Cardinality(Contract!Active) - Calls[r].offset, Calls[r].limit)
  <2>1. call[r].limit \in Nat /\ call[r].offset \in Nat
    BY <1>1, LimitAssumption DEF Typed, TypeOK
  <2> QED
    BY <1>1, <1>4, <2>1, PageIsFull, TableMapped
<1> HIDE DEF p
<1>9. Contract!TakePage(r)
  BY <1>2, <1>4, <1>5, <1>6, <1>7, <1>8, PortTakePage
<1> QED
  BY <1>9 DEF PortStep, Contract!Next

\* ... and again for its total.
LEMMA StepListTotal ==
    ASSUME PortIInv, NEW r \in Request, ListTotal(r)
    PROVE  PortStep
<1> USE DEF Goto, Answer, Return, dbVars
<1>1. IInv /\ Typed /\ RequestStep(r)
  BY DEF PortIInv, IInv, RequestStep, Serve
<1>2. /\ UNCHANGED <<row, call, found>> /\ pc[r] = "counted" /\ pc'[r] = "returned"
      /\ outcome'[r] = "ok" /\ total'[r] = Cardinality(Active)
  BY <1>1 DEF ListTotal, Total, Typed, TypeOK
<1>3. UNCHANGED <<Entries, Calls>>
  BY <1>2 DEF Calls, Entries
<1>4. Stages[r] = "paged" /\ Stages' = [Stages EXCEPT ![r] = "settled"]
  <2>1. StageOf(pc'[r]) = "settled" /\ StageOf(pc[r]) = "paged"
    BY <1>2, StageValues
  <2> QED
    BY <1>1, <2>1, MappedStep DEF Stages
<1>5. Answers' = [Answers EXCEPT ![r] = Record("ok", Answers[r].rows, Cardinality(Contract!Active))]
  <2>1. Answers[r].rows = found[r]
    BY <1>2 DEF Answers, AnswerOf
  <2>2. AnswerOf(r)' = Record("ok", found[r], Cardinality(Active))
    BY <1>2 DEF AnswerOf, Record
  <2> QED
    BY <1>1, <2>1, <2>2, MappedStep, TableMapped
<1>6. Contract!Count(r)
  BY <1>3, <1>4, <1>5, PortCount DEF Settles
<1> QED
  BY <1>6 DEF PortStep, Contract!Next

\* The server publishes, or drops, what a failed call or a dead process left open.
LEMMA StepResolve ==
    ASSUME PortIInv, NEW r \in Request, Resolve(r)
    PROVE  PortStep
<1>1. IInv /\ OwnInv(r) /\ RequestStep(r)
  BY DEF PortIInv, IInv, RequestStep, Fail
<1>2. /\ staged[r] # NoRow /\ pc[r] \in {"returned", "closed", "dead"}
      /\ UNCHANGED <<call, pc, found, total, outcome>>
      /\ row' \in {row, [row EXCEPT ![Target(r)] = staged[r]]}
  BY DEF Resolve
<1>3. AnswerOf(r)' = AnswerOf(r) /\ UNCHANGED <<Calls, Stages, Answers>>
  BY <1>2 DEF AnswerOf, Calls, Stages, Answers
<1>4. CASE UNCHANGED row
  BY <1>1, <1>2, <1>3, <1>4, InvisibleStep
<1>5. CASE row' = [row EXCEPT ![Target(r)] = staged[r]]
  <2>1. Contract!Effect(r)
    BY <1>2, <1>5, PortEffect
  <2>2. Stages[r] = "settled"
    BY <1>2, StageValues DEF Stages
  <2>3. Answers[r].outcome \in {"error", "none"}
    BY <1>1, <1>2 DEF Answers, AnswerOf, OwnInv, StagedInv
  <2>4. Contract!LateEffect(r)
    BY <1>3, <2>1, <2>2, <2>3, PortLateEffect
  <2> QED
    BY <2>4 DEF PortStep, Contract!Next
<1> QED
  BY <1>2, <1>4, <1>5

\* The process dies.
LEMMA StepKill ==
    ASSUME PortIInv, Kill
    PROVE  PortStep
<1>1. UNCHANGED <<row, call, found, total, outcome>>
  BY DEF Kill, dbVars
<1>2. ASSUME NEW r \in Request
      PROVE  /\ StageOf(pc'[r]) = IF StageOf(pc[r]) = "idle" THEN "idle" ELSE "settled"
             /\ AnswerOf(r)' = IF StageOf(pc[r]) = "paged" THEN Contract!NoAnswer ELSE AnswerOf(r)
  <2>1. pc'[r] = IF pc[r] \in {"idle", "closed"} THEN pc[r] ELSE "dead"
    BY DEF Kill
  <2>2. pc[r] \in Step /\ OwnInv(r) /\ PortInv(r)
    BY DEF PortIInv, IInv, Typed, TypeOK
  <2>3. pc[r] = "counted" => outcome[r] = "none" /\ total[r] = 0
    BY <2>2 DEF OwnInv, ControlInv, PortInv
  <2>4. CASE pc[r] = "idle"
    BY <1>1, <2>1, <2>4, StageValues DEF AnswerOf
  <2>5. CASE pc[r] = "counted"
    BY <1>1, <2>1, <2>3, <2>5, StageValues DEF AnswerOf, Contract!NoAnswer
  <2>6. CASE pc[r] \in Step \ {"idle", "counted"}
    BY <1>1, <2>1, <2>6, StageValues DEF AnswerOf, Step
  <2> QED
    BY <2>2, <2>4, <2>5, <2>6
<1>3. Contract!Die
  <2>1. UNCHANGED <<Entries, Calls>>
    BY <1>1 DEF Entries, Calls
  <2>2. Stages' = [r \in Request |-> IF Stages[r] = "idle" THEN "idle" ELSE "settled"]
    BY <1>2 DEF Stages
  <2>3. Answers' = [r \in Request |-> IF Stages[r] = "paged" THEN Contract!NoAnswer ELSE Answers[r]]
    BY <1>2 DEF Answers, Stages
  <2> QED
    BY <2>1, <2>2, <2>3 DEF Contract!Die, Entries, Calls, Stages, Answers
<1> QED
  BY <1>3 DEF PortStep, Contract!Next

\* Every step of the store is a step of the port, or invisible.
LEMMA StepMapped == PortIInv /\ [Next]_vars => PortStep
<1> SUFFICES ASSUME PortIInv, [Next]_vars PROVE PortStep
  OBVIOUS
<1>1. ASSUME NEW r \in Request, RequestStep(r) PROVE PortStep
  <2>1. CASE Insert(r)
    BY <2>1, StepSilent, StepClash
  <2> QED
    BY <1>1, <2>1, StepArrive, StepSilent, StepFails, StepCommit, StepSelect, StepListPage,
       StepListTotal, StepResolve
    DEF RequestStep, Serve, Fail
<1>2. CASE Tick \/ UNCHANGED vars
  BY <1>2, PortStutter DEF Tick, vars, dbVars, Invisible, Entries, Calls, Stages, Answers, AnswerOf
<1> QED
  BY <1>1, <1>2, StepKill DEF Next, RequestStep, Quiescent

\* The PostgreSQL store implements the RepositoryStore port: create(), delete() and
\* the reads answer as if each had happened at one instant between its request and
\* its answer (list() at two), for any number of concurrent requests, whatever times
\* out or fails; a write that failed or went unanswered takes effect whole, or not at all.
THEOREM RepositoryRefinement == Spec => ImplementsRepositoryContract
<1>1. Spec => []PortIInv
  BY InitPortIInv, StepPortIInv, PTL DEF Spec
<1>2. PortIInv /\ [Next]_vars => [Contract!Next]_(Contract!vars)
  BY StepMapped DEF PortStep
<1> QED
  BY <1>1, <1>2, InitMapped, PTL DEF Spec, ImplementsRepositoryContract, Contract!Spec
=============================================================================
