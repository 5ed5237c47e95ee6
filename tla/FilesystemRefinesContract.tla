---------------------- MODULE FilesystemRefinesContract ----------------------
(***************************************************************************)
(* The filesystem adapter implements the BlobStorage port: a call takes    *)
(* effect at its rename, its lstat of an occupied target, its open, its    *)
(* lstat or its unlink, and every other step is invisible to callers.      *)
(***************************************************************************)
EXTENDS FilesystemBlobStorage

EntryOf(e) == CASE e = "absent" -> "absent" [] e \in Request -> "blob" [] OTHER -> "foreign"

\* A cancelled rename or unlink may still happen; other orphans touch no key.
StageOf(l) ==
    CASE l = "idle" -> "idle"
      [] l = "dead" -> "down"
      [] l \in {"stream", "discard"} -> "decided"
      [] l \in {"orphan_rename", "orphan_unlink"} -> "abandoned"
      [] l \in {"done", "orphan_mkstemp", "orphan_discard"} -> "returned"
      [] OTHER -> "called"

\* The answer is settled from the deciding step on, and with it the key, unless the call
\* raises.
Raised == {"OSError", "SourceError", "StorageException", "Cancelled"}

AnswerOf(r) ==
    CASE pc[r] = "stream"  -> <<"streamed", key[r]>>
      [] pc[r] = "discard" -> <<"stored", key[r]>>
      [] StageOf(pc[r]) \in {"returned", "abandoned"} ->
             <<outcome[r], IF outcome[r] \in Raised THEN NoKey ELSE key[r]>>
      [] OTHER -> <<"none", NoKey>>

Contract == INSTANCE BlobContract WITH
    entry  <- [d \in Digest |-> EntryOf(tree[d])],
    target <- [r \in Request |-> IF op[r] = "put" THEN NoKey ELSE key[r]],
    stage  <- [r \in Request |-> StageOf(pc[r])],
    answer <- [r \in Request |-> AnswerOf(r)]

\* Concurrent put(), get(), exists(), size() and delete() calls answer as if
\* each had happened at one instant, under faults, cancellations and crashes.
ImplementsContract == Contract!Spec
=============================================================================
