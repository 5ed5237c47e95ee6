---------------------------- MODULE BlobContract -----------------------------
(***************************************************************************)
(* domain/storage/contracts.py: what the BlobStorage port promises to the  *)
(* services that call it.  A call takes effect at one instant between its  *)
(* invocation and its answer, and the answer tells what the store held at  *)
(* that instant.  How contents become keys, files and directories are the  *)
(* adapter's business: put() chooses its key when it takes effect.         *)
(***************************************************************************)
CONSTANTS Request, Digest, Key, NoKey

VARIABLES
    entry,   \* what each key names: nothing, a blob, something that is no blob
    op,      \* the method each request called
    target,  \* the key it was called with; put() has none
    stage,   \* how far the call has come
    answer   \* the outcome the call has settled on, and the key it is about

vars == <<entry, op, target, stage, answer>>

Lookups  == {"get", "exists", "size", "delete"}
NoAnswer == <<"none", NoKey>>
Pending  == {"called", "decided"}

Held(k) == IF k \in Digest THEN entry[k] ELSE "absent"

Settle(r, s, o, k) == /\ stage'  = [stage  EXCEPT ![r] = s]
                      /\ answer' = [answer EXCEPT ![r] = <<o, k>>]

Init ==
    /\ entry  = [d \in Digest |-> "absent"]
    /\ op     = [r \in Request |-> "none"]
    /\ target = [r \in Request |-> NoKey]
    /\ stage  = [r \in Request |-> "idle"]
    /\ answer = [r \in Request |-> NoAnswer]

Invoke(r, o, k) ==
    /\ stage[r] = "idle"
    /\ op'     = [op     EXCEPT ![r] = o]
    /\ target' = [target EXCEPT ![r] = k]
    /\ stage'  = [stage  EXCEPT ![r] = "called"]
    /\ UNCHANGED <<entry, answer>>

\* put(): the content becomes the blob of its key ...
Store(r, d) ==
    /\ stage[r] = "called" /\ op[r] = "put"
    /\ entry' = [entry EXCEPT ![d] = "blob"]
    /\ Settle(r, "returned", "stored", d)
    /\ UNCHANGED <<op, target>>

\* ... or already was, ...
AlreadyStored(r, d) ==
    /\ stage[r] = "called" /\ op[r] = "put"
    /\ entry[d] = "blob"
    /\ Settle(r, "decided", "stored", d)
    /\ UNCHANGED <<entry, op, target>>

\* ... unless its place is taken by something that is no blob.
RefuseForeign(r, d) ==
    /\ stage[r] = "called" /\ op[r] = "put"
    /\ entry[d] = "foreign"
    /\ Settle(r, "returned", "StorageException", NoKey)
    /\ UNCHANGED <<entry, op, target>>

\* get() finds the blob, eagerly, before the first chunk.
OpenStream(r) ==
    /\ stage[r] = "called" /\ op[r] = "get"
    /\ Held(target[r]) = "blob"
    /\ Settle(r, "decided", "streamed", target[r])
    /\ UNCHANGED <<entry, op, target>>

\* exists() and size() answer for the blob they find.
Report(r) ==
    /\ stage[r] = "called" /\ op[r] \in {"exists", "size"}
    /\ Held(target[r]) = "blob"
    /\ Settle(r, "returned", IF op[r] = "size" THEN "sized" ELSE "True", target[r])
    /\ UNCHANGED <<entry, op, target>>

\* Absence is a value for exists() and an error for the others; delete() does
\* not look at what it is about to remove.
ReportAbsence(r) ==
    /\ stage[r] = "called" /\ op[r] \in Lookups
    /\ IF op[r] = "delete" THEN Held(target[r]) = "absent" ELSE Held(target[r]) # "blob"
    /\ Settle(r, "returned", IF op[r] = "exists" THEN "False" ELSE "BlobNotFound", target[r])
    /\ UNCHANGED <<entry, op, target>>

Delete(r) ==
    /\ stage[r] = "called" /\ op[r] = "delete"
    /\ Held(target[r]) # "absent"
    /\ entry' = [entry EXCEPT ![target[r]] = "absent"]
    /\ Settle(r, "returned", "deleted", target[r])
    /\ UNCHANGED <<op, target>>

Finish(r) ==
    /\ stage[r] = "decided"
    /\ stage' = [stage EXCEPT ![r] = "returned"]
    /\ UNCHANGED <<entry, op, target, answer>>

\* The backend or the caller's stream broke; a call that raises changed nothing.
Fail(r) ==
    /\ stage[r] \in Pending
    /\ \/ \E e \in {"OSError", "SourceError"} : Settle(r, "returned", e, NoKey)
       \/ op[r] = "exists" /\ Settle(r, "returned", "False", target[r])
    /\ UNCHANGED <<entry, op, target>>

\* The caller went away: nothing is left to happen, or one late effect.
Abandon(r) ==
    /\ stage[r] \in Pending
    /\ \/ Settle(r, "returned", "Cancelled", NoKey)
       \/ op[r] \in {"put", "delete"} /\ Settle(r, "abandoned", "Cancelled", NoKey)
    /\ UNCHANGED <<entry, op, target>>

LateEffect(r) ==
    /\ stage[r] = "abandoned"
    /\ stage' = [stage EXCEPT ![r] = "returned"]
    /\ \/ op[r] = "put"    /\ \E d \in Digest : entry' = [entry EXCEPT ![d] = "blob"]
       \/ op[r] = "delete" /\ entry' = [entry EXCEPT ![target[r]] = "absent"]
       \/ UNCHANGED entry
    /\ UNCHANGED <<op, target, answer>>

\* Someone else writes into the backend.
Intrude(d) ==
    /\ entry[d] = "absent"
    /\ entry' = [entry EXCEPT ![d] = "foreign"]
    /\ UNCHANGED <<op, target, stage, answer>>

Die == /\ stage'  = [r \in Request |-> CASE stage[r] \in Pending     -> "down"
                                          [] stage[r] = "abandoned"   -> "returned"
                                          [] OTHER                    -> stage[r]]
       /\ answer' = [r \in Request |-> IF stage[r] \in Pending THEN NoAnswer ELSE answer[r]]

\* A crash takes the calls in flight with it and leaves the store ...
Crash == Die /\ UNCHANGED <<entry, op, target>>

\* ... and a power loss may undo anything: the port promises no durability.
PowerLoss ==
    /\ Die
    /\ entry' \in [Digest -> {"absent", "blob", "foreign"}]
    /\ UNCHANGED <<op, target>>

Next ==
    \/ \E r \in Request : Invoke(r, "put", NoKey)
    \/ \E r \in Request, o \in Lookups, k \in Key : Invoke(r, o, k)
    \/ \E r \in Request, d \in Digest :
           Store(r, d) \/ AlreadyStored(r, d) \/ RefuseForeign(r, d)
    \/ \E r \in Request :
           \/ OpenStream(r) \/ Report(r) \/ ReportAbsence(r) \/ Delete(r)
           \/ Finish(r) \/ Fail(r) \/ Abandon(r) \/ LateEffect(r)
    \/ \E d \in Digest : Intrude(d)
    \/ Crash
    \/ PowerLoss

Spec == Init /\ [][Next]_vars
=============================================================================
