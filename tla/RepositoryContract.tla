-------------------------- MODULE RepositoryContract --------------------------
(***************************************************************************)
(* domain/repositories/contracts.py, and the exceptions the use cases make *)
(* of it: what the RepositoryStore port promises.  A call takes effect at  *)
(* one instant between request and answer, except that list() looks twice, *)
(* once for the page and once for the total, and that a write which ends   *)
(* in an error may still take effect later.  How rows are locked, staged   *)
(* and committed is the store's business.                                  *)
(***************************************************************************)
EXTENDS Naturals, FiniteSets

CONSTANTS Request, Parse, Fold, NoName

VARIABLES
    entry,  \* repositories by id: how each stands and its name
    call,   \* the operation asked for and its arguments
    stage,  \* "idle", "called", "paged" or "settled"
    answer  \* the outcome, the repositories it is about, and list()'s total
vars == <<entry, call, stage, answer>>

Absent   == [is |-> "absent", name |-> NoName]
NoAnswer == [outcome |-> "none", rows |-> {}, total |-> 0]

Registered == {i \in Request : entry[i] # Absent}
Active     == {i \in Request : entry[i].is = "active"}

\* Names are compared case-insensitively, and a deleted repository keeps its own.
Holders(n) == {i \in Registered : Fold[entry[i].name] = Fold[n]}

Init ==
    /\ entry  = [i \in Request |-> Absent]
    /\ call   = [r \in Request |-> [op |-> "none"]]
    /\ stage  = [r \in Request |-> "idle"]
    /\ answer = [r \in Request |-> NoAnswer]

Settle(r, outcome, rows, total) ==
    /\ stage'  = [stage EXCEPT ![r] = "settled"]
    /\ answer' = [answer EXCEPT ![r] = [outcome |-> outcome, rows |-> rows, total |-> total]]

Calls(r, op) == stage[r] = "called" /\ call[r].op = op

\* An illegal name is refused at once.
Ask(r) ==
    /\ stage[r] = "idle" /\ call'[r].op # "none"
    /\ \A o \in Request \ {r} : call'[o] = call[o]
    /\ IF call'[r].op = "create" /\ Parse[call'[r].name] = NoName
       THEN Settle(r, "InvalidRepositoryName", {}, 0)
       ELSE stage' = [stage EXCEPT ![r] = "called"] /\ UNCHANGED answer
    /\ UNCHANGED entry

Effect(r) ==
    \/ /\ call[r].op = "create" /\ entry[r] = Absent /\ Holders(Parse[call[r].name]) = {}
       /\ entry' = [entry EXCEPT ![r] = [is |-> "active", name |-> Parse[call[r].name]]]
    \/ /\ call[r].op = "delete" /\ call[r].id \in Registered
       /\ entry' = [entry EXCEPT ![call[r].id].is = "deleted"]

\* create() registers the repository, delete() leaves it deleted, again and again.
Write(r) ==
    /\ stage[r] = "called" /\ Effect(r)
    /\ Settle(r, "ok", {IF call[r].op = "create" THEN r ELSE call[r].id}, 0)
    /\ UNCHANGED call

Conflict(r) ==
    /\ Calls(r, "create") /\ Holders(Parse[call[r].name]) # {}
    /\ Settle(r, "RepositoryAlreadyExists", {}, 0)
    /\ UNCHANGED <<entry, call>>

\* delete() does not find an id that was never registered.
Unknown(r) ==
    /\ Calls(r, "delete") /\ call[r].id \notin Registered
    /\ Settle(r, "RepositoryNotFound", {}, 0)
    /\ UNCHANGED <<entry, call>>

\* get_by_id() and get_by_name() see active repositories only.
Look(r) ==
    /\ Calls(r, "get_by_id") \/ Calls(r, "get_by_name")
    /\ LET seen == IF call[r].op = "get_by_id" THEN {call[r].id} \cap Active
                   ELSE Holders(call[r].name) \cap Active
       IN  Settle(r, IF seen = {} THEN "RepositoryNotFound" ELSE "ok", seen, 0)
    /\ UNCHANGED <<entry, call>>

\* list() takes a page that is as full as the active repositories allow ...
TakePage(r) ==
    /\ Calls(r, "list")
    /\ \E items \in SUBSET Active :
           LET rest == Cardinality(Active) - call[r].offset
           IN  /\ Cardinality(items) = CASE rest <= 0 -> 0
                                         [] rest > call[r].limit -> call[r].limit
                                         [] OTHER -> rest
               /\ answer' = [answer EXCEPT ![r].rows = items]
    /\ stage' = [stage EXCEPT ![r] = "paged"]
    /\ UNCHANGED <<entry, call>>

\* ... and then counts.
Count(r) ==
    /\ stage[r] = "paged"
    /\ Settle(r, "ok", answer[r].rows, Cardinality(Active))
    /\ UNCHANGED <<entry, call>>

\* Any call may fail, ...
Fail(r) ==
    /\ stage[r] \in {"called", "paged"}
    /\ Settle(r, "error", {}, 0)
    /\ UNCHANGED <<entry, call>>

\* ... all calls in progress go unanswered when the process dies, ...
Die ==
    /\ stage' = [r \in Request |-> IF stage[r] = "idle" THEN "idle" ELSE "settled"]
    /\ answer' = [r \in Request |-> IF stage[r] = "paged" THEN NoAnswer ELSE answer[r]]
    /\ UNCHANGED <<entry, call>>

\* ... and in both cases the write may have been committed nevertheless.
LateEffect(r) ==
    /\ stage[r] = "settled" /\ answer[r].outcome \in {"error", "none"}
    /\ Effect(r)
    /\ UNCHANGED <<call, stage, answer>>

Next ==
    \/ \E r \in Request :
           \/ Ask(r) \/ Write(r) \/ Conflict(r) \/ Unknown(r) \/ Look(r)
           \/ TakePage(r) \/ Count(r) \/ Fail(r) \/ LateEffect(r)
    \/ Die

Spec == Init /\ [][Next]_vars
=============================================================================
