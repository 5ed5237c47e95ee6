---------------------- MODULE RepositoryRefinesContract ----------------------
(***************************************************************************)
(* The PostgreSQL store implements the RepositoryStore port: a write takes *)
(* effect at its COMMIT, a conflict is decided by the INSERT, a read by    *)
(* its SELECT, and every other step is invisible to callers.               *)
(***************************************************************************)
EXTENDS RepositoryStore

\* What callers can see of a row and of a call.
EntryOf(v) == [name |-> v.name,
               is |-> IF v = NoRow THEN "absent" ELSE IF v.deleted = Never THEN "active"
                      ELSE "deleted"]

StageOf(s) == CASE s = "idle" -> "idle"
                [] s \in {"pool", "begun", "written"} -> "called"
                [] s = "counted" -> "paged"
                [] OTHER -> "settled"

AnswerOf(r) == [outcome |-> outcome[r],
                rows    |-> IF outcome[r] = "ok" \/ pc[r] = "counted" THEN found[r] ELSE {},
                total   |-> total[r]]

CallOf(c) == IF c = NoCall THEN [op |-> "none"] ELSE c

Contract == INSTANCE RepositoryContract WITH
    entry  <- [i \in Request |-> EntryOf(row[i])],
    call   <- [r \in Request |-> CallOf(call[r])],
    stage  <- [r \in Request |-> StageOf(pc[r])],
    answer <- [r \in Request |-> AnswerOf(r)]

\* However their statements interleave, fail, time out or are left behind by a dead
\* process, calls answer as if each had happened at one instant: the COMMIT of a
\* write, the statement of a read.
ImplementsRepositoryContract == Contract!Spec
=============================================================================
