------------------------ MODULE FilesystemBlobStorage ------------------------
(***************************************************************************)
(* infrastructure/storage/filesystem.py: blobs as files of a tree indexed  *)
(* by the sha256 of their content.  Calls run concurrently on one event    *)
(* loop; each `await asyncio.to_thread(syscall)` is one step of the call,  *)
(* so other calls, a cancellation, a planted entry, a process kill or a    *)
(* power loss may come between any two of them.                            *)
(*                                                                         *)
(* A call is made once by a member of Request.  An inode is named by the   *)
(* put() that creates it with mkstemp, so Request is also the set of       *)
(* inodes.  Two names can point at one: the scratch file tmp/*.part and    *)
(* the content-addressed path, which the rename swaps atomically.          *)
(***************************************************************************)
EXTENDS Naturals, Sequences, FiniteSets, SequencesExt

CONSTANTS Request,      \* calls made on the adapter, and the inodes they create
          Chunk,        \* the byte chunks of a stream
          MaxChunks,    \* bound: longest stream, in chunks
          Digest,       \* well-formed keys "sha256:<64 hex digits>"
          BadKey,       \* keys put() could never have issued
          Sha256,       \* the digest of every content
          Hazards       \* which environment actions may happen

Content == BoundedSeq(Chunk, MaxChunks)

\* What a content-addressed path can hold besides a regular file.
Foreign == {"link", "dir"}
Entry   == Request \cup Foreign \cup {"absent"}
NoKey   == "no_key"
Key     == Digest \cup BadKey

AllHazards == {"fault", "cancel", "kill", "power", "foreign"}

ASSUME BoundAssumption  == MaxChunks \in Nat
ASSUME EntryAssumption  == Request \cap (Foreign \cup {"absent"}) = {}
ASSUME KeyAssumption    == Digest \cap BadKey = {} /\ NoKey \notin Key
ASSUME HazardAssumption == Hazards \subseteq AllHazards
\* sha256 is a function of the bytes, and no two contents collide.
ASSUME HashAssumption   ==
    /\ Sha256 \in [Content -> Digest]
    /\ \A c1, c2 \in Content : Sha256[c1] = Sha256[c2] => c1 = c2

VARIABLES
    \* the file system
    tree,     \* what is at each content-addressed path
    disk,     \* the same directory entries, as a power loss would find them
    scratch,  \* inodes named by a file under tmp/
    data,     \* the bytes of each inode
    synced,   \* inodes whose bytes fsync has made durable
    latest,   \* history, read by no action: the inode last renamed to each path
    \* the calls
    op,       \* which method was called
    key,      \* its key; for put(), the key computed from the stream
    pc,       \* the syscall the call awaits
    hashed,   \* what put()'s hashlib object has consumed
    seen,     \* what the last path lookup found: lstat, open or unlink
    sent,     \* what get()'s iterator has yielded
    size,     \* the byte count reported to the caller
    outcome   \* value returned or exception raised

fsVars   == <<tree, disk, scratch, data, synced, latest>>
callVars == <<op, key, pc, hashed, seen, sent, size, outcome>>
vars     == <<fsVars, callVars>>

Op == {"put", "get", "exists", "size", "delete"}

FirstStep == [put |-> "tmpdir", get |-> "open", exists |-> "exists",
              size |-> "size", delete |-> "unlink"]

\* Inside the try block of _spool: every failure goes through the cleanup.
Spooling == {"spool", "write", "fsync"}
\* A cancelled await of one of these leaves a thread that may still run it.
Mutating == {"mkstemp", "rename", "discard", "cleanup", "unlink"}
\* Effects of no consequence when their caller has gone.
Harmless == {"tmpdir", "lstat", "shard", "stat", "open", "stream", "exists", "size"}
Orphan   == {"orphan_mkstemp", "orphan_rename", "orphan_discard", "orphan_unlink"}
OrphanOf(l) == CASE l = "mkstemp" -> "orphan_mkstemp"
                 [] l = "rename"  -> "orphan_rename"
                 [] l = "unlink"  -> "orphan_unlink"
                 [] l \in {"discard", "cleanup"} -> "orphan_discard"
Finished == {"done", "dead"}

Outcome == {"none", "stored", "streamed", "True", "False", "sized", "deleted",
            "BlobNotFound", "StorageException", "OSError", "SourceError", "Cancelled"}

TypeOK ==
    /\ tree    \in [Digest -> Entry]
    /\ disk    \in [Digest -> Entry]
    /\ scratch \subseteq Request
    /\ data    \in [Request -> Content]
    /\ synced  \in [Request -> BOOLEAN]
    /\ latest  \in [Digest -> Request \cup {"absent"}]
    /\ op      \in [Request -> Op \cup {"none"}]
    /\ key     \in [Request -> Key \cup {NoKey}]
    /\ pc      \in [Request -> {"idle"} \cup Spooling \cup Mutating \cup Harmless
                                        \cup Orphan \cup Finished]
    /\ hashed  \in [Request -> Content]
    /\ seen    \in [Request -> Entry]
    /\ sent    \in [Request -> Content]
    /\ size    \in [Request -> 0..MaxChunks]
    /\ outcome \in [Request -> Outcome]

Init ==
    /\ tree = [d \in Digest |-> "absent"]
    /\ disk = [d \in Digest |-> "absent"]
    /\ scratch = {}
    /\ data    = [r \in Request |-> <<>>]
    /\ synced  = [r \in Request |-> FALSE]
    /\ latest  = [d \in Digest |-> "absent"]
    /\ op      = [r \in Request |-> "none"]
    /\ key     = [r \in Request |-> NoKey]
    /\ pc      = [r \in Request |-> "idle"]
    /\ hashed  = [r \in Request |-> <<>>]
    /\ seen    = [r \in Request |-> "absent"]
    /\ sent    = [r \in Request |-> <<>>]
    /\ size    = [r \in Request |-> 0]
    /\ outcome = [r \in Request |-> "none"]

-----------------------------------------------------------------------------
\* How a step ends: at the next await, or by leaving the method.
Goto(r, l) == pc' = [pc EXCEPT ![r] = l]

Return(r, o) == /\ pc' = [pc EXCEPT ![r] = "done"]
                /\ outcome' = [outcome EXCEPT ![r] = o]

\* The method named o is called with key k, up to its first await.
Begin(r, o, k) ==
    /\ op'  = [op  EXCEPT ![r] = o]
    /\ key' = [key EXCEPT ![r] = k]
    /\ Goto(r, FirstStep[o])
    /\ outcome' = [outcome EXCEPT ![r] = "none"]
    /\ UNCHANGED <<fsVars, hashed, seen, sent, size>>

CallPut(r) == pc[r] = "idle" /\ Begin(r, "put", NoKey)

CallWithKey(r, o, k) == pc[r] = "idle" /\ o \in Op \ {"put"} /\ Begin(r, o, k)

\* _resolve and the path lookup: a malformed key is absence.
EntryAt(k) == IF k \in Digest THEN tree[k] ELSE "absent"

\* st_size.  Mutant: one chunk too many.
StSize_OffByOne(f) == Len(data[f]) + 1
StSize(f) == Len(data[f])

-----------------------------------------------------------------------------
\* put(), first half: _spool.

MakeTmpDirectory(r) ==
    /\ pc[r] = "tmpdir"
    /\ Goto(r, "mkstemp")
    /\ UNCHANGED <<fsVars, op, key, hashed, seen, sent, size, outcome>>

Mkstemp(r) ==
    /\ pc[r] = "mkstemp"
    /\ scratch' = scratch \cup {r}
    /\ Goto(r, "spool")
    /\ UNCHANGED <<tree, disk, data, synced, latest, op, key, hashed, seen, sent, size, outcome>>

\* `async for chunk in content`, with digest.update before the write's await.
HashChunk(r) ==
    /\ pc[r] = "spool"
    /\ Len(hashed[r]) < MaxChunks
    /\ \E c \in Chunk : hashed' = [hashed EXCEPT ![r] = Append(@, c)]
    /\ Goto(r, "write")
    /\ UNCHANGED <<fsVars, op, key, seen, sent, size, outcome>>

WriteChunk(r) ==
    /\ pc[r] = "write"
    /\ data' = [data EXCEPT ![r] = Append(@, hashed[r][Len(hashed[r])])]
    /\ Goto(r, "spool")
    /\ UNCHANGED <<tree, disk, scratch, synced, latest, op, key, hashed, seen, sent, size,
                   outcome>>

\* The stream is exhausted.
SourceEnds(r) ==
    /\ pc[r] = "spool"
    /\ Goto(r, "fsync")
    /\ UNCHANGED <<fsVars, op, key, hashed, seen, sent, size, outcome>>

\* An exception inside _spool's try block is raised again after the cleanup.
\* Mutant: it leaves without the cleanup.
RaiseInSpool_NoCleanup(r, e) == Return(r, e)
RaiseInSpool(r, e) == /\ Goto(r, "cleanup")
                      /\ outcome' = [outcome EXCEPT ![r] = e]

SourceFails(r) ==
    /\ pc[r] = "spool"
    /\ RaiseInSpool(r, "SourceError")
    /\ UNCHANGED <<fsVars, op, key, hashed, seen, sent, size>>

\* Mutant: the fsync is dropped.
MakeDurable_Dropped(r) == UNCHANGED synced
MakeDurable(r) == synced' = [synced EXCEPT ![r] = TRUE]

\* flush, fsync, close; the digest names the target from here on.
Fsync(r) ==
    /\ pc[r] = "fsync"
    /\ MakeDurable(r)
    /\ key' = [key EXCEPT ![r] = Sha256[hashed[r]]]
    /\ Goto(r, "lstat")
    /\ UNCHANGED <<tree, disk, scratch, data, latest, op, hashed, seen, sent, size, outcome>>

\* `except BaseException`: unlink(missing_ok=True), then re-raise.
Cleanup(r) ==
    /\ pc[r] = "cleanup"
    /\ scratch' = scratch \ {r}
    /\ Goto(r, "done")
    /\ UNCHANGED <<tree, disk, data, synced, latest, op, key, hashed, seen, sent, size, outcome>>

-----------------------------------------------------------------------------
\* put(), second half: publish the scratch file, or drop it as a duplicate.

\* Mutant: an occupied target is looked up again until it is free.
LstatTarget_Retries(r) ==
    /\ pc[r] = "lstat"
    /\ seen' = [seen EXCEPT ![r] = tree[key[r]]]
    /\ IF tree[key[r]] = "absent" THEN Goto(r, "shard") ELSE UNCHANGED pc
    /\ UNCHANGED <<fsVars, op, key, hashed, sent, size, outcome>>

LstatTarget(r) ==
    LET existing == tree[key[r]] IN
    /\ pc[r] = "lstat"
    /\ seen' = [seen EXCEPT ![r] = existing]
    /\ \/ existing = "absent"  /\ Goto(r, "shard")   /\ UNCHANGED outcome
       \/ existing \in Request /\ Goto(r, "discard") /\ UNCHANGED outcome
       \/ existing \in Foreign /\ Return(r, "StorageException")
    /\ UNCHANGED <<fsVars, op, key, hashed, sent, size>>

\* os.rename replaces a file or a link, and refuses to replace a directory.
Publish(r) ==
    /\ tree[key[r]] # "dir"
    /\ tree' = [tree EXCEPT ![key[r]] = r]
    /\ latest' = [latest EXCEPT ![key[r]] = r]
    /\ scratch' = scratch \ {r}
    /\ UNCHANGED <<disk, data, synced>>

\* Mutant: the rename comes before the stat of the scratch file.
MakeShardDirectory_ThenRename(r) ==
    /\ pc[r] = "shard"
    /\ Publish(r)
    /\ Goto(r, "stat")
    /\ UNCHANGED <<op, key, hashed, seen, sent, size, outcome>>

MakeShardDirectory(r) ==
    /\ pc[r] = "shard"
    /\ Goto(r, "stat")
    /\ UNCHANGED <<fsVars, op, key, hashed, seen, sent, size, outcome>>

LstatScratch(r) ==
    /\ pc[r] = "stat"
    /\ size' = [size EXCEPT ![r] = StSize(r)]
    /\ Goto(r, "rename")
    /\ UNCHANGED <<fsVars, op, key, hashed, seen, sent, outcome>>

\* Mutant: a rename that fails is rolled back by unlinking its target.
Rename_RollsBack(r) ==
    /\ pc[r] = "rename"
    /\ \/ Publish(r) /\ Return(r, "stored")
       \/ /\ tree' = [tree EXCEPT ![key[r]] = "absent"]
          /\ Return(r, "OSError")
          /\ UNCHANGED <<disk, scratch, data, synced, latest>>
    /\ UNCHANGED <<op, key, hashed, seen, sent, size>>

Rename(r) ==
    /\ pc[r] = "rename"
    /\ \/ Publish(r) /\ Return(r, "stored")
       \/ tree[key[r]] = "dir" /\ UNCHANGED fsVars /\ Return(r, "OSError")
    /\ UNCHANGED <<op, key, hashed, seen, sent, size>>

DiscardDuplicate(r) ==
    /\ pc[r] = "discard"
    /\ scratch' = scratch \ {r}
    /\ size' = [size EXCEPT ![r] = StSize(seen[r])]
    /\ Return(r, "stored")
    /\ UNCHANGED <<tree, disk, data, synced, latest, op, key, hashed, seen, sent>>

-----------------------------------------------------------------------------
\* get(), exists(), size(), delete().

\* O_NOFOLLOW and fstat refuse whatever is not a regular file.
OpenBlob(r) ==
    /\ pc[r] = "open"
    /\ seen' = [seen EXCEPT ![r] = EntryAt(key[r])]
    /\ \/ EntryAt(key[r]) \in Request    /\ Goto(r, "stream") /\ UNCHANGED outcome
       \/ EntryAt(key[r]) \notin Request /\ Return(r, "BlobNotFound")
    /\ UNCHANGED <<fsVars, op, key, hashed, sent, size>>

\* The handle keeps the inode it opened.  Mutant: each read opens the path again.
Handle_ByPath(r) == IF tree[key[r]] \in Request THEN data[tree[key[r]]] ELSE <<>>
Handle(r) == data[seen[r]]

\* The consumer pulls one chunk.
ReadChunk(r) ==
    LET blob == Handle(r) IN
    /\ pc[r] = "stream"
    /\ \/ /\ Len(sent[r]) < Len(blob)
          /\ sent' = [sent EXCEPT ![r] = Append(@, blob[Len(sent[r]) + 1])]
          /\ UNCHANGED <<pc, outcome>>
       \/ /\ Len(sent[r]) >= Len(blob)
          /\ Return(r, "streamed")
          /\ UNCHANGED sent
    /\ UNCHANGED <<fsVars, op, key, hashed, seen, size>>

\* Mutant: whatever occupies the path exists.
IsStoredBlob_Any(k) == EntryAt(k) # "absent"
IsStoredBlob(k) == EntryAt(k) \in Request

ExistsBlob(r) ==
    /\ pc[r] = "exists"
    /\ Return(r, IF IsStoredBlob(key[r]) THEN "True" ELSE "False")
    /\ UNCHANGED <<fsVars, op, key, hashed, seen, sent, size>>

SizeBlob(r) ==
    /\ pc[r] = "size"
    /\ \/ /\ EntryAt(key[r]) \in Request
          /\ size' = [size EXCEPT ![r] = StSize(tree[key[r]])]
          /\ Return(r, "sized")
       \/ /\ EntryAt(key[r]) \notin Request
          /\ Return(r, "BlobNotFound")
          /\ UNCHANGED size
    /\ UNCHANGED <<fsVars, op, key, hashed, seen, sent>>

\* os.unlink removes a file or a link, and refuses a directory.
UnlinkEntry(r) ==
    /\ EntryAt(key[r]) \notin {"absent", "dir"}
    /\ tree' = [tree EXCEPT ![key[r]] = "absent"]
    /\ seen' = [seen EXCEPT ![r] = tree[key[r]]]
    /\ UNCHANGED <<disk, scratch, data, synced, latest>>

\* Mutant: missing_ok=True.
UnlinkError_MissingOk(e) == IF e = "dir" THEN "OSError" ELSE "deleted"
UnlinkError(e) == IF e = "dir" THEN "OSError" ELSE "BlobNotFound"

UnlinkBlob(r) ==
    /\ pc[r] = "unlink"
    /\ \/ UnlinkEntry(r) /\ Return(r, "deleted")
       \/ /\ EntryAt(key[r]) \in {"absent", "dir"}
          /\ Return(r, UnlinkError(EntryAt(key[r])))
          /\ UNCHANGED <<fsVars, seen>>
    /\ UNCHANGED <<op, key, hashed, sent, size>>

-----------------------------------------------------------------------------
\* What the environment does to a call.

\* A syscall fails with an OSError that does not mean absence.
Fault(r) ==
    /\ "fault" \in Hazards
    /\ op[r] # "put" => key[r] \in Digest
    /\ \/ pc[r] \in Spooling /\ RaiseInSpool(r, "OSError")
       \/ pc[r] \in Mutating \cup (Harmless \ {"exists"}) /\ Return(r, "OSError")
       \/ pc[r] = "exists" /\ Return(r, "False")
    /\ UNCHANGED <<fsVars, op, key, hashed, seen, sent, size>>

\* The awaiting task is cancelled; a thread already submitted is not stopped.
Cancel(r) ==
    /\ "cancel" \in Hazards
    /\ op[r] # "put" => key[r] \in Digest
    /\ \/ pc[r] \in Spooling /\ RaiseInSpool(r, "Cancelled")
       \/ /\ pc[r] \in Mutating
          /\ Goto(r, OrphanOf(pc[r]))
          /\ outcome' = [outcome EXCEPT ![r] = "Cancelled"]
       \/ pc[r] \in Harmless /\ Return(r, "Cancelled")
    /\ UNCHANGED <<fsVars, op, key, hashed, seen, sent, size>>

\* The abandoned thread runs its syscall ...
OrphanRun(r) ==
    /\ \/ /\ pc[r] = "orphan_mkstemp"
          /\ scratch' = scratch \cup {r}
          /\ UNCHANGED <<tree, disk, data, synced, latest, seen>>
       \/ /\ pc[r] = "orphan_discard"
          /\ scratch' = scratch \ {r}
          /\ UNCHANGED <<tree, disk, data, synced, latest, seen>>
       \/ pc[r] = "orphan_rename" /\ Publish(r) /\ UNCHANGED seen
       \/ pc[r] = "orphan_unlink" /\ UnlinkEntry(r)
    /\ Goto(r, "done")
    /\ UNCHANGED <<op, key, hashed, sent, size, outcome>>

\* ... or fails, or was still queued when the cancellation reached it.
OrphanDrop(r) ==
    /\ pc[r] \in Orphan
    /\ Goto(r, "done")
    /\ UNCHANGED <<fsVars, op, key, hashed, seen, sent, size, outcome>>

-----------------------------------------------------------------------------
\* What the environment does to the store.

\* Another local user puts a symlink or a directory at a free path.
Plant(d, e) ==
    /\ "foreign" \in Hazards
    /\ tree[d] = "absent"
    /\ tree' = [tree EXCEPT ![d] = e]
    /\ UNCHANGED <<disk, scratch, data, synced, latest, callVars>>

\* The kernel writes a directory entry back; nothing in the code forces it to.
Writeback(d) ==
    /\ "power" \in Hazards
    /\ disk[d] # tree[d]
    /\ disk' = [disk EXCEPT ![d] = tree[d]]
    /\ UNCHANGED <<tree, scratch, data, synced, latest, callVars>>

\* Calls in flight are gone with the exceptions they were raising, and so are
\* the threads that cancelled calls had left behind.
InFlight(r) == pc[r] \notin {"idle"} \cup Orphan \cup Finished

Die == /\ pc' = [r \in Request |-> CASE InFlight(r)      -> "dead"
                                     [] pc[r] \in Orphan -> "done"
                                     [] OTHER            -> pc[r]]
       /\ outcome' = [r \in Request |-> IF InFlight(r) THEN "none" ELSE outcome[r]]

Kill ==
    /\ "kill" \in Hazards
    /\ Die
    /\ UNCHANGED <<fsVars, op, key, hashed, seen, sent, size>>

\* Only what was written back survives; an unsynced inode keeps some prefix.
PowerLoss ==
    /\ "power" \in Hazards
    /\ Die
    /\ tree' = disk
    /\ \E left \in SUBSET ((scratch \cup {tree[d] : d \in Digest}) \cap Request) :
           scratch' = left \ {disk[d] : d \in Digest}
    /\ \E kept \in 0..MaxChunks :
           data' = [r \in Request |-> IF synced[r] \/ Len(data[r]) <= kept
                                      THEN data[r] ELSE SubSeq(data[r], 1, kept)]
    /\ UNCHANGED <<disk, synced, latest, op, key, hashed, seen, sent, size>>

-----------------------------------------------------------------------------
\* The steps of a call that wait on nothing but its own thread.
Syscall(r) ==
    \/ MakeTmpDirectory(r) \/ Mkstemp(r) \/ WriteChunk(r) \/ Fsync(r) \/ Cleanup(r)
    \/ LstatTarget(r) \/ MakeShardDirectory(r) \/ LstatScratch(r) \/ Rename(r)
    \/ DiscardDuplicate(r)
    \/ OpenBlob(r) \/ ExistsBlob(r) \/ SizeBlob(r) \/ UnlinkBlob(r)

\* The steps that wait on the caller's stream: put()'s source, get()'s consumer.
CallerStep(r) == HashChunk(r) \/ SourceEnds(r) \/ SourceFails(r) \/ ReadChunk(r)

Interference(r) == Fault(r) \/ Cancel(r) \/ OrphanRun(r) \/ OrphanDrop(r)

Environment ==
    \/ \E d \in Digest, e \in Foreign : Plant(d, e)
    \/ \E d \in Digest : Writeback(d)
    \/ Kill
    \/ PowerLoss

\* Every call has come to its end: the adapter waits for the next one.
Quiescent == (\A r \in Request : pc[r] \in Finished) /\ UNCHANGED vars

Next ==
    \/ \E r \in Request : CallPut(r)
    \/ \E r \in Request, o \in Op, k \in Key : CallWithKey(r, o, k)
    \/ \E r \in Request : Syscall(r) \/ CallerStep(r) \/ Interference(r)
    \/ Environment
    \/ Quiescent

Spec == Init /\ [][Next]_vars

\* A thread of the pool runs every submitted syscall; streams owe nothing.
Fairness == \A r \in Request : WF_vars(Syscall(r))

FairSpec == Spec /\ Fairness

-----------------------------------------------------------------------------
(***************************************************************************)
(* Properties.                                                             *)
(***************************************************************************)

\* A regular file at a content-addressed path, now or after a power loss,
\* holds exactly the bytes its digest names: the fsync comes before the
\* rename, and nobody writes to an inode once it has been published.
ContentAddressed ==
    \A d \in Digest : \A f \in {tree[d], disk[d]} \cap Request : Sha256[data[f]] = d

\* get() never yields bytes of another content, whatever is deleted, stored
\* again or planted while it streams, and a stream that ends is complete.
StreamFaithful ==
    \A r \in Request : pc[r] = "stream" \/ sent[r] # <<>> \/ outcome[r] = "streamed" =>
        \E c \in Content : /\ Sha256[c] = key[r]
                           /\ IsPrefix(sent[r], c)
                           /\ outcome[r] = "streamed" => sent[r] = c

\* The StoredBlob that put() returns has the key and the byte count of what it
\* consumed, when it published the content and when it found it stored.
PutReportsWhatItConsumed ==
    \A r \in Request : outcome[r] = "stored" =>
        key[r] = Sha256[hashed[r]] /\ size[r] = Len(hashed[r])

\* "Nothing is ever published at the content-addressed path unless the rename
\* succeeded": a put() that raised has no inode in the tree, nor will have.
FailedPutPublishesNothing ==
    \A r \in Request :
        outcome[r] \in {"OSError", "SourceError", "StorageException"} =>
            \A d \in Digest : r \notin {tree[d], disk[d]}

\* A scratch file outlives its put() only after a failure that put() documents
\* (the syscalls that follow the spooling) or a cancellation; a success and a
\* broken source stream leave tmp/ as they found it.
ScratchAccounted ==
    \A r \in scratch : pc[r] = "done" =>
        outcome[r] \in {"StorageException", "OSError", "Cancelled"}

\* A stored blob leaves the tree through a delete() only.  Racing put()s of one
\* content replace each other's file; once any put() of a key has returned, the
\* file the last of their renames left is at the path, or a delete() removed
\* that very file.
StoredBlobConserved ==
    \A r \in Request : outcome[r] = "stored" =>
        LET blob == latest[key[r]] IN
        /\ blob \in Request
        /\ \/ tree[key[r]] = blob
           \/ \E q \in Request : op[q] = "delete" /\ seen[q] = blob

\* "two concurrent deletes cannot both report success": each successful
\* delete() removed something, and no two of them removed the same inode.
DeletesNeverShareAVictim ==
    \A r \in Request : op[r] = "delete" /\ outcome[r] = "deleted" =>
        /\ seen[r] # "absent"
        /\ \A q \in Request \ {r} :
               op[q] = "delete" /\ outcome[q] = "deleted" /\ seen[q] \in Request
                   => seen[q] # seen[r]

\* A call the adapter has in hand returns or comes to wait for its caller's
\* stream; no sequence of races or failures makes it wait for another call.
EveryCallReturns ==
    \A r \in Request : InFlight(r) ~> pc[r] \in {"spool", "stream"} \/ ~InFlight(r)

\* domain/storage/contracts.py:41: "a repeat call whose content hashes to an
\* already-stored key is an idempotent no-op": a stored file is never replaced.
StoredBlobNeverRewritten ==
    [][\A d \in Digest : tree[d] \in Request /\ tree'[d] \in Request
                              => tree'[d] = tree[d]]_vars
=============================================================================
