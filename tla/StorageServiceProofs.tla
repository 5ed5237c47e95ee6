------------------------- MODULE StorageServiceProofs -------------------------
(***************************************************************************)
(* Proofs about the storage service, for any number of requests and under  *)
(* every hazard.  retrieve and remove look a blob up twice: what makes the *)
(* second lookup agree with the first is that contents have one key and    *)
(* one size, whichever file holds them.                                    *)
(***************************************************************************)
EXTENDS StorageService, FilesystemBlobStorageProofs

\* The method a request runs and the port call it has in hand.  A request that
\* stores nothing has made no file, and reads nothing before get().
FrameInv(r) ==
    /\ frame[r] = "none"  <=> op[r] = "none"
    /\ frame[r] = "store" <=> op[r] = "put"
    /\ op[r] = "get" => frame[r] = "retrieve"
    /\ op[r] = "delete" => frame[r] = "remove"
    /\ op[r] # "exists"
    /\ op[r] # "put" => ~synced[r]
    /\ op[r] # "get" => sent[r] = <<>>
    /\ op[r] = "size" => seen[r] = "absent"

\* A status line is sent once, for the outcome the port call has or will have.
StatusInv(r) ==
    /\ status[r] = "200" => /\ op[r] = "get" /\ pc[r] \in {"stream", "done"}
                            /\ outcome[r] # "BlobNotFound"
    /\ status[r] = "201" => outcome[r] = "stored"
    /\ status[r] = "204" => outcome[r] = "deleted"
    /\ status[r] = "404" => outcome[r] = "BlobNotFound"
    /\ status[r] \notin {"none", "200"} => pc[r] \in Finished \cup Orphan
    /\ outcome[r] = "BlobNotFound" => pc[r] = "done" /\ sent[r] = <<>>

\* The size that retrieve and remove learnt is that of the content their key names.
SizedInv(r) ==
    /\ outcome[r] = "sized" => op[r] = "size" /\ pc[r] = "done"
    /\ outcome[r] = "streamed" => op[r] = "get"
    /\ op[r] = "get" => logSize[r] = size[r]
    /\ outcome[r] = "sized" \/ op[r] \in {"get", "delete"} =>
           \E c \in Content : Sha256[c] = key[r] /\ size[r] = Len(c)

\* What remove deleted held the content its key names.
DeletedInv(r) ==
    /\ op[r] = "delete" /\ seen[r] \in Request =>
           /\ pc[seen[r]] = "done" /\ synced[seen[r]]
           /\ Sha256[data[seen[r]]] = key[r]
    /\ log[r] = "blob_deleted" => /\ op[r] = "delete" /\ outcome[r] = "deleted"
                                  /\ pc[r] = "done" /\ logSize[r] = size[r]

ServeInv(r) == FrameInv(r) /\ StatusInv(r) /\ SizedInv(r) /\ DeletedInv(r)

ServiceInv == CallsInv /\ ServiceTypeOK /\ \A r \in Request : ServeInv(r)

-----------------------------------------------------------------------------
(* A step of the port call a request awaits *)

\* What it may change, and what it may end with.
Moves(r) ==
    /\ op'[r] = op[r] /\ pc[r] # "idle"
    /\ op[r] = "put" \/ (key'[r] = key[r] /\ synced'[r] = synced[r])
    /\ sent'[r] = sent[r] \/ pc[r] = "stream"
    /\ size'[r] = size[r] \/ op[r] = "put" \/ outcome'[r] = "sized"
    /\ op[r] = "size" => seen'[r] = seen[r]
    /\ op[r] = "delete" /\ seen'[r] # seen[r] => key[r] \in Digest /\ seen'[r] = tree[key[r]]
    /\ pc[r] = "stream" => pc'[r] \in {"stream", "done"}
    /\ pc[r] \in Orphan => pc'[r] = "done" /\ outcome'[r] = outcome[r]
    /\ outcome'[r] = "BlobNotFound" => pc'[r] = "done" /\ pc[r] # "stream" /\ sent'[r] = sent[r]
    /\ outcome'[r] = "streamed" => pc[r] = "stream"
    /\ outcome'[r] = "sized" => /\ pc[r] = "size" /\ pc'[r] = "done"
                                /\ key[r] \in Digest /\ tree[key[r]] \in Request
                                /\ size'[r] = Len(data[tree[key[r]]])

LEMMA AdapterMoves ==
    ASSUME CallsInv, NEW r \in Request, Syscall(r) \/ CallerStep(r) \/ Interference(r)
    PROVE  Moves(r)
<1>t. TypeOK /\ CallInv(r)
  BY DEF CallsInv, IInv
<1>n. outcome[r] \notin {"BlobNotFound", "streamed", "sized"}
  BY <1>t, LocalStep DEF CallInv, RequestStep, Finished
<1> USE DEF TypeOK, Goto, Return, fsVars, CallInv, PutSteps, Unnamed, Named, Deleting, Spooling,
            Orphan, Moves
<1>1. CASE MakeTmpDirectory(r) \/ Mkstemp(r) \/ HashChunk(r) \/ WriteChunk(r) \/ SourceEnds(r)
  BY <1>t, <1>n, <1>1 DEF MakeTmpDirectory, Mkstemp, HashChunk, WriteChunk, SourceEnds
<1>2. CASE SourceFails(r) \/ Fsync(r) \/ Cleanup(r)
  BY <1>t, <1>n, <1>2 DEF SourceFails, RaiseInSpool, Fsync, Cleanup
<1>3. CASE LstatTarget(r) \/ MakeShardDirectory(r) \/ LstatScratch(r)
  BY <1>t, <1>n, <1>3 DEF LstatTarget, MakeShardDirectory, LstatScratch
<1>4. CASE Rename(r) \/ DiscardDuplicate(r)
  BY <1>t, <1>n, <1>4 DEF Rename, DiscardDuplicate
<1>5. CASE OpenBlob(r)
  BY <1>t, <1>n, <1>5 DEF OpenBlob
<1>6. CASE ReadChunk(r)
  BY <1>t, <1>n, <1>6 DEF ReadChunk
<1>7. CASE ExistsBlob(r)
  BY <1>t, <1>n, <1>7 DEF ExistsBlob
<1>8. CASE SizeBlob(r)
  BY <1>t, <1>n, <1>8, EntryAssumption DEF SizeBlob, EntryAt, StSize
<1>9. CASE UnlinkBlob(r)
  BY <1>t, <1>n, <1>9 DEF UnlinkBlob, UnlinkEntry, UnlinkError, EntryAt
<1>10. CASE Fault(r)
  BY <1>t, <1>n, <1>10 DEF Fault, RaiseInSpool, Mutating, Harmless
<1>11. CASE Cancel(r)
  BY <1>t, <1>n, <1>11 DEF Cancel, RaiseInSpool, Mutating, Harmless
<1>12. CASE OrphanRun(r)
  BY <1>t, <1>n, <1>12 DEF OrphanRun, Publish, UnlinkEntry, EntryAt
<1>13. CASE OrphanDrop(r)
  BY <1>t, <1>n, <1>13 DEF OrphanDrop
<1> QED
  BY <1>1, <1>2, <1>3, <1>4, <1>5, <1>6, <1>7, <1>8, <1>9, <1>10, <1>11, <1>12, <1>13
     DEF Syscall, CallerStep, Interference

\* Nothing about request q changes that it could notice: the files in the tree
\* and those it has opened or deleted stay as they are.
Lasts(f) == pc[f] = "done" /\ synced[f] =>
                pc'[f] = "done" /\ synced'[f] /\ data'[f] = data[f]

Apart(q) == /\ op'[q] = op[q] /\ key'[q] = key[q] /\ pc'[q] = pc[q] /\ synced'[q] = synced[q]
            /\ seen'[q] = seen[q] /\ sent'[q] = sent[q] /\ size'[q] = size[q]
            /\ outcome'[q] = outcome[q] /\ frame'[q] = frame[q] /\ log'[q] = log[q]
            /\ logSize'[q] = logSize[q] /\ status'[q] = status[q]

LEMMA ApartKeeps ==
    ASSUME NEW q \in Request, ServeInv(q), Apart(q), \A f \in Request : Lasts(f)
    PROVE  ServeInv(q)'
<1>1. (FrameInv(q) /\ StatusInv(q) /\ SizedInv(q))'
  BY DEF ServeInv, Apart, FrameInv, StatusInv, SizedInv
<1>2. DeletedInv(q)'
  BY DEF ServeInv, Apart, Lasts, DeletedInv
<1> QED
  BY <1>1, <1>2 DEF ServeInv

\* A published file has the content its path names.
LEMMA PublishedFile ==
    ASSUME CallsInv, NEW d \in Digest, tree[d] \in Request
    PROVE  /\ pc[tree[d]] = "done" /\ synced[tree[d]]
           /\ data[tree[d]] \in Content /\ Sha256[data[tree[d]]] = d
  BY DEF CallsInv, IInv, PublishedInv, TypeOK

\* The request whose port call takes a step keeps its part of the invariant.
LEMMA AdapterServes ==
    ASSUME ServiceInv, NEW r \in Request, AdapterStep(r), \A f \in Request : Lasts(f)
    PROVE  ServeInv(r)'
<1>1. CallsInv /\ TypeOK /\ CallInv(r) /\ ServeInv(r)
  BY DEF ServiceInv, CallsInv, IInv
<1>2. Moves(r) /\ RequestStep(r)
  BY <1>1, AdapterMoves DEF AdapterStep, RequestStep
<1>3. pc[r] \notin Finished
  BY <1>1, <1>2, LocalStep
<1>4. UNCHANGED <<frame, log, logSize, status>>
  BY DEF AdapterStep, serviceVars
<1>5. pc[r] = "stream" => op[r] = "get"
  BY <1>1 DEF CallInv
<1>6. FrameInv(r)'
  BY <1>1, <1>2, <1>4, <1>5 DEF ServeInv, FrameInv, Moves
<1>7. StatusInv(r)'
  <2>1. sent[r] # <<>> => pc[r] = "stream"
    BY <1>1, <1>3 DEF CallsInv, IInv, StreamInv, Finished
  <2>2. status[r] \notin {"none", "200"} => pc[r] \in Orphan
    BY <1>1, <1>3 DEF ServeInv, StatusInv
  <2>3. status[r] = "200" => pc[r] = "stream" /\ op[r] = "get"
    BY <1>1, <1>3 DEF ServeInv, StatusInv, Finished
  <2>4. outcome'[r] = "BlobNotFound" => pc'[r] = "done" /\ sent'[r] = <<>>
    BY <1>2, <2>1 DEF Moves
  <2> QED
    BY <1>1, <1>2, <1>4, <2>2, <2>3, <2>4 DEF ServeInv, StatusInv, Moves, Finished
<1>8. SizedInv(r)'
  <2>1. CASE outcome'[r] = "sized"
    <3>1. op[r] = "size"
      BY <1>1, <1>2, <2>1 DEF Moves, CallInv
    <3>2. /\ data[tree[key[r]]] \in Content /\ Sha256[data[tree[key[r]]]] = key[r]
          /\ size'[r] = Len(data[tree[key[r]]])
      BY <1>1, <1>2, <2>1, PublishedFile DEF Moves
    <3>3. key'[r] = key[r] /\ op'[r] = "size" /\ pc'[r] = "done"
      BY <1>2, <2>1, <3>1 DEF Moves
    <3> QED
      BY <2>1, <3>2, <3>3 DEF SizedInv
  <2>2. CASE outcome'[r] # "sized"
    BY <1>1, <1>2, <1>4, <1>5, <2>2 DEF ServeInv, SizedInv, Moves
  <2> QED
    BY <2>1, <2>2
<1>9. DeletedInv(r)'
  <2>1. log[r] # "blob_deleted"
    BY <1>1, <1>3 DEF ServeInv, DeletedInv, Finished
  <2>2. ASSUME op[r] = "delete", seen'[r] \in Request
        PROVE  /\ pc[seen'[r]] = "done" /\ synced[seen'[r]]
               /\ Sha256[data[seen'[r]]] = key[r]
    <3>1. CASE seen'[r] = seen[r]
      BY <1>1, <2>2, <3>1 DEF ServeInv, DeletedInv
    <3>2. CASE seen'[r] # seen[r]
      BY <1>1, <1>2, <2>2, <3>2, PublishedFile DEF Moves
    <3> QED
      BY <3>1, <3>2
  <2> QED
    BY <1>2, <1>4, <2>1, <2>2 DEF DeletedInv, Moves, Lasts
<1> QED
  BY <1>6, <1>7, <1>8, <1>9 DEF ServeInv

-----------------------------------------------------------------------------
(* The second port call of retrieve and remove *)

\* A request that has its size begins get() or delete(): it made no file, so
\* no reader and no path depends on the call it has just ended.
LEMMA ResumeCalls ==
    ASSUME ServiceInv, NEW r \in Request, NEW o \in {"get", "delete"},
           outcome[r] = "sized", Begin(r, o, key[r])
    PROVE  CallsInv' /\ \A f \in Request : Lasts(f)
<1>1. TypeOK /\ IInv /\ CallInv(r) /\ ServeInv(r)
  BY DEF ServiceInv, CallsInv, IInv
<1>2. op[r] = "size" /\ pc[r] = "done" /\ ~synced[r] /\ sent[r] = <<>> /\ seen[r] = "absent"
  BY <1>1 DEF ServeInv, SizedInv, FrameInv
<1>3. key[r] \in Key
  BY <1>1, <1>2 DEF CallInv
<1>4. /\ UNCHANGED <<fsVars, hashed, seen, sent, size>>
      /\ key' = [key EXCEPT ![r] = key[r]] /\ op' = [op EXCEPT ![r] = o]
      /\ outcome' = [outcome EXCEPT ![r] = "none"]
      /\ pc' = [pc EXCEPT ![r] = FirstStep[o]]
  BY DEF Begin, Goto
<1>5. FirstStep[o] = (IF o = "get" THEN "open" ELSE "unlink")
  BY DEF FirstStep
<1>6. TypeOK'
  BY <1>1, <1>4, <1>5 DEF TypeOK, fsVars, Op, Outcome, Harmless, Mutating
<1>7. key' = key /\ op'[r] = o /\ outcome'[r] = "none" /\ pc'[r] \in {"open", "unlink"}
  BY <1>1, <1>4, <1>5 DEF TypeOK
<1>8. ASSUME NEW q \in Request \ {r} PROVE Same(q) /\ op'[q] = op[q]
  BY <1>1, <1>4 DEF TypeOK, fsVars, Same
<1>9. ASSUME NEW f \in Request, synced[f] PROVE Same(f)
  BY <1>2, <1>8, <1>9
<1>10. (SpoolInv(r) /\ TargetInv(r) /\ DuplicateInv(r) /\ ReportInv(r) /\ StreamInv(r))'
  BY <1>2, <1>4, <1>7 DEF SpoolInv, TargetInv, DuplicateInv, ReportInv, StreamInv
<1>11. ASSUME NEW q \in Request \ {r}
       PROVE  (SpoolInv(q) /\ TargetInv(q) /\ DuplicateInv(q) /\ ReportInv(q) /\ StreamInv(q))'
  <2>1. /\ SpoolInv(q) /\ TargetInv(q) /\ DuplicateInv(q) /\ ReportInv(q) /\ StreamInv(q)
        /\ Same(q)
    BY <1>1, <1>8 DEF IInv
  <2>2. (SpoolInv(q) /\ TargetInv(q) /\ ReportInv(q))'
    BY <2>1 DEF Same, SpoolInv, TargetInv, ReportInv
  <2>3. DuplicateInv(q)'
    BY <1>9, <2>1 DEF Same, DuplicateInv
  <2>4. \A c : Yielded(q, c) <=> Yielded(q, c)'
    BY <2>1 DEF Same, Yielded
  <2>5. pc[q] = "stream" => Same(seen[q]) /\ seen'[q] = seen[q]
    BY <1>9, <2>1 DEF Same, StreamInv
  <2>6. StreamInv(q)'
    BY <2>1, <2>4, <2>5 DEF Same, StreamInv
  <2> QED
    BY <2>2, <2>3, <2>6
<1>12. ASSUME NEW d \in Digest PROVE PublishedInv(d)'
  BY <1>1, <1>4, <1>9 DEF IInv, PublishedInv, fsVars, Same
<1>13. IInv'
  BY <1>6, <1>10, <1>11, <1>12 DEF IInv
<1>14. CallInv(r)'
  BY <1>2, <1>3, <1>4, <1>5, <1>7 DEF CallInv, PutSteps, Unnamed, Named, Deleting, Spooling, Orphan
<1>15. ASSUME NEW q \in Request \ {r} PROVE CallInv(q)'
  <2>1. CallInv(q) /\ Same(q) /\ op'[q] = op[q]
    BY <1>8 DEF ServiceInv, CallsInv
  <2> QED
    BY <2>1 DEF Same, CallInv
<1>16. \A f \in Request : Lasts(f)
  BY <1>9 DEF Same, Lasts
<1> QED
  BY <1>13, <1>14, <1>15, <1>16 DEF CallsInv

-----------------------------------------------------------------------------
(* The steps of the service *)

\* A request is accepted.
Accept(r) == UploadBlob(r) \/ \E k \in Key : DownloadBlob(r, k) \/ DeleteBlob(r, k)

LEMMA AcceptServes ==
    ASSUME ServiceInv, NEW r \in Request, Accept(r)
    PROVE  ServeInv(r)'
<1>1. TypeOK /\ CallInv(r) /\ ServeInv(r) /\ ServiceTypeOK
  BY DEF ServiceInv, CallsInv, IInv
<1>2. PICK o \in {"put", "size"}, f \in {"store", "retrieve", "remove"}, j \in Key \cup {NoKey} :
          /\ pc[r] = "idle" /\ Begin(r, o, j) /\ frame' = [frame EXCEPT ![r] = f]
          /\ o = "put" <=> f = "store"
          /\ UNCHANGED <<log, logSize, status>>
  BY DEF Accept, UploadBlob, DownloadBlob, DeleteBlob, CallPut, CallWithKey
<1>3. /\ op'[r] = o /\ outcome'[r] = "none" /\ frame'[r] = f
      /\ UNCHANGED <<synced, seen, sent>>
  BY <1>1, <1>2 DEF Begin, fsVars, TypeOK, ServiceTypeOK
<1>4. op[r] = "none" /\ seen[r] = "absent" /\ ~synced[r] /\ sent[r] = <<>>
  BY <1>1, <1>2 DEF CallInv, ServeInv, FrameInv
<1>5. status[r] = "none" /\ log[r] # "blob_deleted"
  BY <1>1, <1>2, <1>4 DEF ServeInv, StatusInv, DeletedInv, Finished, Orphan
<1>6. FrameInv(r)'
  BY <1>2, <1>3, <1>4 DEF FrameInv
<1>7. StatusInv(r)' /\ SizedInv(r)' /\ DeletedInv(r)'
  BY <1>2, <1>3, <1>5 DEF StatusInv, SizedInv, DeletedInv
<1> QED
  BY <1>6, <1>7 DEF ServeInv

\* The service resumes, with the files and the port calls as they are.
LEMMA AnswerServes ==
    ASSUME ServiceInv, NEW r \in Request, UNCHANGED vars,
           \/ Stored(r) \/ StartResponse(r) \/ Removed(r) \/ AnswerError(r) \/ Disconnect(r)
    PROVE  ServeInv(r)'
<1>1. TypeOK /\ CallInv(r) /\ ServeInv(r) /\ ServiceTypeOK /\ ReportInv(r)
  BY DEF ServiceInv, CallsInv, IInv
<1>2. frame' = frame /\ UNCHANGED <<op, key, pc, synced, data, seen, sent, size, outcome>>
  BY DEF Stored, StartResponse, Removed, AnswerError, Disconnect, vars, fsVars, callVars
<1>3. FrameInv(r)'
  BY <1>1, <1>2 DEF ServeInv, FrameInv
<1>4. StatusInv(r)'
  <2> USE DEF ServeInv, StatusInv, ServiceTypeOK, Answers, Awaited, Finished
  <2>1. CASE Stored(r) \/ Removed(r)
    BY <1>1, <1>2, <2>1 DEF Stored, Removed
  <2>2. CASE StartResponse(r)
    <3>1. op[r] = "get" /\ outcome[r] = "none"
      BY <1>1, <2>2 DEF StartResponse, CallInv, Orphan
    <3> QED
      BY <1>1, <1>2, <2>2, <3>1 DEF StartResponse
  <2>3. CASE AnswerError(r)
    BY <1>1, <1>2, <2>3 DEF AnswerError
  <2>4. CASE Disconnect(r)
    BY <1>1, <1>2, <2>4 DEF Disconnect
  <2> QED
    BY <2>1, <2>2, <2>3, <2>4
<1>5. SizedInv(r)'
  <2>1. op[r] = "get" => logSize'[r] = logSize[r]
    BY <1>1 DEF Stored, StartResponse, Removed, AnswerError, Disconnect, Awaited, ServeInv,
       FrameInv, Logs, ServiceTypeOK
  <2> QED
    BY <1>1, <1>2, <2>1 DEF ServeInv, SizedInv
<1>6. DeletedInv(r)'
  <2>1. CASE Removed(r)
    <3>1. outcome[r] = "deleted" /\ pc[r] = "done" /\ frame[r] = "remove"
      BY <2>1 DEF Removed, Awaited
    <3>2. log'[r] = "blob_deleted" /\ logSize'[r] = size[r]
      BY <1>1, <2>1 DEF Removed, Logs, ServiceTypeOK
    <3>3. op[r] = "delete"
      BY <1>1, <3>1 DEF ServeInv, FrameInv, CallInv, TypeOK, Op
    <3> QED
      BY <1>1, <1>2, <3>1, <3>2, <3>3 DEF ServeInv, DeletedInv
  <2>2. CASE Stored(r)
    BY <1>1, <1>2, <2>2 DEF Stored, Logs, ServiceTypeOK, ServeInv, DeletedInv
  <2>3. CASE UNCHANGED <<log, logSize>>
    BY <1>1, <1>2, <2>3 DEF ServeInv, DeletedInv
  <2> QED
    BY <2>1, <2>2, <2>3 DEF StartResponse, AnswerError, Disconnect
<1> QED
  BY <1>3, <1>4, <1>5, <1>6 DEF ServeInv

\* retrieve logs the size and calls get(), remove calls delete().
LEMMA ResumeServes ==
    ASSUME ServiceInv, NEW r \in Request, RetrieveSized(r) \/ RemoveSized(r),
           \A f \in Request : Lasts(f)
    PROVE  ServeInv(r)'
<1>1. TypeOK /\ CallInv(r) /\ ServeInv(r) /\ ServiceTypeOK
  BY DEF ServiceInv, CallsInv, IInv
<1>2. PICK o \in {"get", "delete"} :
          /\ Begin(r, o, key[r]) /\ outcome[r] = "sized" /\ status[r] = "none"
          /\ o = "get"    => frame[r] = "retrieve" /\ logSize'[r] = size[r]
                             /\ log'[r] = "blob_retrieved"
          /\ o = "delete" => frame[r] = "remove" /\ log'[r] = log[r]
          /\ UNCHANGED <<frame, status>>
  BY <1>1 DEF RetrieveSized, RemoveSized, Awaited, Logs, serviceVars, ServiceTypeOK
<1>3. /\ op'[r] = o /\ outcome'[r] = "none" /\ key'[r] = key[r]
      /\ UNCHANGED <<synced, seen, sent, size>>
  BY <1>1, <1>2 DEF Begin, fsVars, TypeOK
<1>4. /\ op[r] = "size" /\ ~synced[r] /\ sent[r] = <<>> /\ seen[r] = "absent"
      /\ log[r] # "blob_deleted"
  BY <1>1, <1>2 DEF ServeInv, SizedInv, FrameInv, DeletedInv
<1>5. FrameInv(r)'
  BY <1>2, <1>3, <1>4 DEF FrameInv
<1>6. StatusInv(r)' /\ DeletedInv(r)'
  BY <1>2, <1>3, <1>4, EntryAssumption DEF StatusInv, DeletedInv
<1>7. SizedInv(r)'
  BY <1>1, <1>2, <1>3 DEF ServeInv, SizedInv
<1> QED
  BY <1>5, <1>6, <1>7 DEF ServeInv

\* A crash ends every request that was being served.
LEMMA CrashServes ==
    ASSUME ServiceInv, Crash, NEW r \in Request, \A f \in Request : Lasts(f)
    PROVE  ServeInv(r)'
<1>1. TypeOK /\ CallInv(r) /\ ServeInv(r) /\ ServiceTypeOK
  BY DEF ServiceInv, CallsInv, IInv
<1>2. /\ Die /\ UNCHANGED <<synced, op, key, seen, sent, size, frame, log, logSize>>
      /\ status'[r] = IF frame[r] # "none" /\ (status[r] = "none" \/ pc[r] = "stream")
                      THEN "aborted" ELSE status[r]
  BY DEF Crash, Kill, PowerLoss, fsVars
<1>3. /\ pc'[r] \in {"idle", "done", "dead"}
      /\ pc'[r] = "idle" <=> pc[r] = "idle"
      /\ pc[r] = "done" => pc'[r] = "done"
      /\ outcome'[r] = outcome[r] \/ (outcome'[r] = "none" /\ InFlight(r))
  BY <1>1, <1>2 DEF Die, InFlight, Orphan, Finished, TypeOK
<1>4. pc[r] = "idle" <=> frame[r] = "none"
  BY <1>1 DEF CallInv, ServeInv, FrameInv
<1>5. FrameInv(r)' /\ SizedInv(r)'
  BY <1>1, <1>2, <1>3 DEF ServeInv, FrameInv, SizedInv
<1>6. DeletedInv(r)'
  BY <1>1, <1>2, <1>3 DEF ServeInv, DeletedInv, Lasts, InFlight, Finished
<1>7. StatusInv(r)'
  <2>1. InFlight(r) => status[r] \in {"none", "200"}
    BY <1>1 DEF ServeInv, StatusInv, InFlight
  <2>2. status[r] = "200" => pc[r] \in {"stream", "done"} /\ frame[r] # "none"
    BY <1>1 DEF ServeInv, StatusInv, FrameInv
  <2>3. InFlight(r) => status'[r] = "aborted" \/ frame[r] = "none"
    BY <1>2, <2>1, <2>2 DEF InFlight, Finished
  <2>4. InFlight(r) => status'[r] = "aborted"
    BY <2>3, <1>4 DEF InFlight
  <2>5. CASE status'[r] = "aborted"
    BY <1>1, <1>2, <1>3, <1>4, <2>1, <2>2, <2>5 DEF ServeInv, StatusInv, Finished, Orphan
  <2>6. CASE status'[r] # "aborted"
    <3>1. status'[r] = status[r] /\ outcome'[r] = outcome[r]
      BY <1>2, <1>3, <2>4, <2>6
    <3> QED
      BY <1>1, <1>2, <1>3, <1>4, <2>2, <2>6, <3>1 DEF ServeInv, StatusInv, Finished
  <2> QED
    BY <2>5, <2>6
<1> QED
  BY <1>5, <1>6, <1>7 DEF ServeInv

-----------------------------------------------------------------------------
(* The inductive invariant *)

\* Nothing has been asked of the service yet.
LEMMA InitService == ServiceInit => ServiceInv
<1> SUFFICES ASSUME ServiceInit PROVE ServiceInv
  OBVIOUS
<1>1. CallsInv /\ TypeOK
  BY InitCalls DEF ServiceInit, CallsInv, IInv
<1>2. ServiceTypeOK
  BY <1>1, BoundAssumption DEF ServiceInit, ServiceTypeOK
<1>3. ASSUME NEW r \in Request PROVE ServeInv(r)
  BY DEF ServiceInit, Init, ServeInv, FrameInv, StatusInv, SizedInv, DeletedInv
<1> QED
  BY <1>1, <1>2, <1>3 DEF ServiceInv

\* The port calls of the service are calls of the adapter.
LEMMA ServiceCalls ==
    ASSUME ServiceInv, [ServiceNext]_allVars
    PROVE  CallsInv' /\ \A f \in Request : Lasts(f)
<1>1. CallsInv /\ TypeOK
  BY DEF ServiceInv, CallsInv, IInv
<1>2. ASSUME NEW r \in Request, RequestStep(r)
      PROVE  CallsInv' /\ \A f \in Request : Lasts(f)
  <2>1. CallsInv'
    BY <1>1, <1>2, StepCalls DEF Next, RequestStep
  <2>2. pc[r] # "done" /\ \A q \in Request \ {r} : Same(q)
    BY <1>1, <1>2, LocalStep DEF Finished
  <2> QED
    BY <2>1, <2>2 DEF Same, Lasts
<1>3. ASSUME NEW r \in Request, RetrieveSized(r) \/ RemoveSized(r)
      PROVE  CallsInv' /\ \A f \in Request : Lasts(f)
  <2>1. PICK o \in {"get", "delete"} : outcome[r] = "sized" /\ Begin(r, o, key[r])
    BY <1>3 DEF RetrieveSized, RemoveSized, Awaited
  <2> QED
    BY <2>1, ResumeCalls
<1>4. ASSUME UNCHANGED vars PROVE CallsInv' /\ \A f \in Request : Lasts(f)
  BY <1>1, <1>4, StepCalls DEF vars, fsVars, callVars, Lasts
<1>5. CASE StoreChanges
  <2>1. Environment /\ UNCHANGED <<data, synced, callVars>>
    BY <1>5 DEF StoreChanges, Environment, Plant, Writeback
  <2> QED
    BY <1>1, <2>1, StepCalls DEF Next, callVars, Lasts
<1>6. CASE Crash
  <2>1. CallsInv'
    BY <1>1, <1>6, StepCalls DEF Crash, Next, Environment
  <2>2. ASSUME NEW f \in Request, pc[f] = "done", synced[f]
        PROVE  pc'[f] = "done" /\ synced'[f] /\ data'[f] = data[f]
    <3>1. Die /\ UNCHANGED synced
      BY <1>6 DEF Crash, Kill, PowerLoss, fsVars
    <3>2. data'[f] = data[f]
      BY <1>6, <2>2 DEF Crash, Kill, PowerLoss, fsVars
    <3> QED
      BY <2>2, <3>1, <3>2, DieDone
  <2> QED
    BY <2>1, <2>2 DEF Lasts
<1>7. ASSUME NEW r \in Request, ServiceStep(r)
      PROVE  CallsInv' /\ \A f \in Request : Lasts(f)
  BY <1>3, <1>4, <1>7 DEF ServiceStep, Stored, StartResponse, Removed, AnswerError, Disconnect
<1>8. ASSUME NEW r \in Request, Accept(r) PROVE RequestStep(r)
  BY <1>8 DEF Accept, UploadBlob, DownloadBlob, DeleteBlob, RequestStep, CallWithKey, Op
<1>9. ASSUME NEW r \in Request, AdapterStep(r) PROVE RequestStep(r)
  BY <1>9 DEF AdapterStep, RequestStep
<1> QED
  BY <1>2, <1>4, <1>5, <1>6, <1>7, <1>8, <1>9 DEF ServiceNext, Accept, AllAnswered, allVars

\* A step of one request leaves the others alone.
LEMMA OthersApart ==
    ASSUME ServiceInv, NEW r \in Request, Accept(r) \/ AdapterStep(r) \/ ServiceStep(r),
           NEW q \in Request \ {r}
    PROVE  Apart(q)
<1>1. TypeOK /\ ServiceTypeOK
  BY DEF ServiceInv, CallsInv, IInv
<1>2. frame'[q] = frame[q] /\ log'[q] = log[q] /\ logSize'[q] = logSize[q] /\ status'[q] = status[q]
  BY <1>1 DEF Accept, UploadBlob, DownloadBlob, DeleteBlob, AdapterStep, ServiceStep, Stored,
     RetrieveSized, StartResponse, RemoveSized, Removed, AnswerError, Disconnect, Logs, Answers,
     serviceVars, ServiceTypeOK
<1>3. CASE RequestStep(r)
  BY <1>1, <1>2, <1>3, LocalStep, OpLocal DEF Same, Apart
<1>4. CASE UNCHANGED vars
  BY <1>2, <1>4 DEF vars, fsVars, callVars, Apart
<1>5. CASE RetrieveSized(r) \/ RemoveSized(r)
  BY <1>1, <1>2, <1>5 DEF RetrieveSized, RemoveSized, Begin, Goto, fsVars, TypeOK, Apart
<1>6. CASE Accept(r) \/ AdapterStep(r)
  BY <1>3, <1>6 DEF Accept, UploadBlob, DownloadBlob, DeleteBlob, AdapterStep, RequestStep,
     CallWithKey, Op
<1> QED
  BY <1>4, <1>5, <1>6 DEF ServiceStep, Stored, StartResponse, Removed, AnswerError, Disconnect

\* What the service keeps has its type.
LEMMA ServiceTypes ==
    ASSUME ServiceInv, [ServiceNext]_allVars, TypeOK'
    PROVE  ServiceTypeOK'
<1>1. ServiceTypeOK /\ TypeOK
  BY DEF ServiceInv, ServiceTypeOK
<1> USE DEF ServiceTypeOK
<1>2. ASSUME NEW r \in Request, Accept(r) PROVE ServiceTypeOK'
  BY <1>1, <1>2 DEF Accept, UploadBlob, DownloadBlob, DeleteBlob
<1>3. CASE UNCHANGED serviceVars
  BY <1>1, <1>3 DEF serviceVars
<1>4. ASSUME NEW r \in Request, ServiceStep(r) PROVE ServiceTypeOK'
  <2>1. size[r] \in 0..MaxChunks
    BY <1>1 DEF TypeOK
  <2>2. CASE Stored(r) \/ RetrieveSized(r) \/ Removed(r)
    BY <1>1, <2>1, <2>2 DEF Stored, RetrieveSized, Removed, Logs, Answers
  <2>3. CASE StartResponse(r) \/ AnswerError(r) \/ Disconnect(r)
    BY <1>1, <2>3 DEF StartResponse, AnswerError, Disconnect, Answers
  <2> QED
    BY <1>3, <1>4, <2>2, <2>3 DEF ServiceStep, RemoveSized
<1>5. CASE Crash
  BY <1>1, <1>5 DEF Crash
<1> QED
  BY <1>2, <1>3, <1>4, <1>5 DEF ServiceNext, Accept, AdapterStep, StoreChanges, AllAnswered,
     allVars, serviceVars

\* Every step of the service preserves the inductive invariant.
LEMMA StepService == ServiceInv /\ [ServiceNext]_allVars => ServiceInv'
<1> SUFFICES ASSUME ServiceInv, [ServiceNext]_allVars PROVE ServiceInv'
  OBVIOUS
<1>1. CallsInv' /\ \A f \in Request : Lasts(f)
  BY ServiceCalls
<1>2. ServiceTypeOK'
  BY <1>1, ServiceTypes DEF CallsInv, IInv
<1>3. \A r \in Request : ServeInv(r)
  BY DEF ServiceInv
<1>4. ASSUME NEW r \in Request, Accept(r) \/ AdapterStep(r) \/ ServiceStep(r)
      PROVE  \A q \in Request : ServeInv(q)'
  <2>1. ASSUME Accept(r) PROVE ServeInv(r)'
    BY <2>1, AcceptServes
  <2>2. ASSUME AdapterStep(r) PROVE ServeInv(r)'
    BY <1>1, <2>2, AdapterServes
  <2>3. ASSUME RetrieveSized(r) \/ RemoveSized(r) PROVE ServeInv(r)'
    BY <1>1, <2>3, ResumeServes
  <2>4. ASSUME \/ Stored(r) \/ StartResponse(r) \/ Removed(r)
               \/ AnswerError(r) \/ Disconnect(r)
        PROVE  ServeInv(r)'
    <3>1. UNCHANGED vars
      BY <2>4 DEF Stored, StartResponse, Removed, AnswerError, Disconnect
    <3> QED
      BY <2>4, <3>1, AnswerServes
  <2>5. ServeInv(r)'
    BY <1>4, <2>1, <2>2, <2>3, <2>4 DEF ServiceStep
  <2>6. ASSUME NEW q \in Request \ {r} PROVE ServeInv(q)'
    BY <1>1, <1>3, <1>4, <2>6, OthersApart, ApartKeeps
  <2> QED
    BY <2>5, <2>6
<1>5. CASE UNCHANGED <<synced, callVars, serviceVars>>
  <2>1. ASSUME NEW q \in Request PROVE ServeInv(q)'
    <3>1. Apart(q)
      BY <1>5 DEF callVars, serviceVars, Apart
    <3> QED
      BY <1>1, <1>3, <3>1, ApartKeeps
  <2> QED
    BY <1>1, <1>2, <2>1 DEF ServiceInv
<1>6. CASE StoreChanges \/ AllAnswered \/ UNCHANGED allVars
  BY <1>5, <1>6 DEF StoreChanges, Plant, Writeback, AllAnswered, allVars, vars, fsVars
<1>7. CASE Crash
  BY <1>1, <1>2, <1>7, CrashServes DEF ServiceInv
<1> QED
  BY <1>1, <1>2, <1>4, <1>6, <1>7 DEF ServiceNext, Accept, ServiceInv

\* ... and so it holds in every reachable state.
LEMMA Services == ServiceSpec => []ServiceInv
  BY InitService, StepService, PTL DEF ServiceSpec

-----------------------------------------------------------------------------
(* The adapter under the service: what it leaves behind *)

\* The second port call of retrieve and remove keeps the history of the first: a
\* size() owns no file.
LEMMA ResumeHistory ==
    ASSUME ServiceInv, HistoryInv, NEW r \in Request, NEW o \in {"get", "delete"},
           outcome[r] = "sized", Begin(r, o, key[r])
    PROVE  HistoryInv'
<1>1. TypeOK /\ ServeInv(r) /\ \A q \in Request : DeletedInv(q)
  BY DEF ServiceInv, CallsInv, IInv, ServeInv
<1>2. op[r] = "size" /\ pc[r] = "done" /\ ~synced[r] /\ seen[r] = "absent"
  BY <1>1 DEF ServeInv, SizedInv, FrameInv
<1>3. /\ UNCHANGED <<tree, scratch, latest, seen>>
      /\ key' = key /\ op' = [op EXCEPT ![r] = o]
      /\ outcome' = [outcome EXCEPT ![r] = "none"]
      /\ pc' = [pc EXCEPT ![r] = FirstStep[o]]
  BY <1>1 DEF Begin, Goto, fsVars, TypeOK
<1>4. op'[r] = o /\ outcome'[r] = "none"
  BY <1>1, <1>3 DEF TypeOK
<1>5. ASSUME NEW q \in Request \ {r}
      PROVE  op'[q] = op[q] /\ outcome'[q] = outcome[q] /\ pc'[q] = pc[q]
  BY <1>1, <1>3 DEF TypeOK
<1>6. ASSUME NEW q \in Request PROVE ScratchInv(q) /\ VictimInv(q) /\ ConservedInv(q)
  BY DEF HistoryInv
<1>7. r \notin scratch
  BY <1>2, <1>6 DEF ScratchInv
<1>8. ASSUME NEW q \in Request PROVE ScratchInv(q)'
  BY <1>3, <1>5, <1>6, <1>7 DEF ScratchInv
<1>9. "absent" \notin Request
  BY EntryAssumption
<1>10. ASSUME NEW q \in Request PROVE VictimInv(q)'
  <2>1. CASE q = r
    BY <1>2, <1>3, <1>9, <2>1 DEF VictimInv
  <2>2. CASE q # r
    <3> SUFFICES ASSUME op[q] = "delete", seen[q] \in Request
                 PROVE  /\ pc'[seen[q]] = "done"
                        /\ \A d \in Digest : tree[d] # seen[q]
                        /\ \A u \in Request \ {q} : op'[u] = "delete" => seen[u] # seen[q]
      BY <1>3, <1>5, <2>2 DEF VictimInv
    <3>1. VictimInv(q) /\ DeletedInv(q)
      BY <1>1, <1>6
    <3>2. seen[q] # r
      BY <1>2, <3>1 DEF DeletedInv
    <3>3. pc'[seen[q]] = "done"
      BY <1>5, <3>1, <3>2 DEF VictimInv
    <3>4. ASSUME NEW u \in Request \ {q}, op'[u] = "delete" PROVE seen[u] # seen[q]
      BY <1>2, <1>5, <1>9, <3>1, <3>4 DEF VictimInv
    <3> QED
      BY <3>1, <3>3, <3>4 DEF VictimInv
  <2> QED
    BY <2>1, <2>2
<1>11. ASSUME NEW q \in Request PROVE ConservedInv(q)'
  <2>1. CASE q = r
    <3>1. pc'[r] # "discard"
      BY <1>1, <1>3 DEF FirstStep, TypeOK
    <3> QED
      BY <1>4, <2>1, <3>1 DEF ConservedInv, Settled
  <2>2. CASE q # r
    BY <1>3, <1>5, <1>6, <2>2 DEF ConservedInv, Settled
  <2> QED
    BY <2>1, <2>2
<1>12. ASSUME NEW d \in Digest PROVE LatestInv(d)'
  <2>1. LatestInv(d)
    BY DEF HistoryInv
  <2>2. ASSUME NEW w \in Request, op[w] = "delete" PROVE op'[w] = "delete"
    BY <1>2, <1>5, <2>2
  <2> QED
    BY <1>3, <2>1, <2>2 DEF LatestInv
<1> QED
  BY <1>8, <1>10, <1>11, <1>12 DEF HistoryInv

\* Every step of the service keeps the history of the store.
LEMMA ServiceHistory ==
    ASSUME NoPowerLoss, ServiceInv, HistoryInv, [ServiceNext]_allVars
    PROVE  HistoryInv'
<1>1. CallsInv
  BY DEF ServiceInv
<1>2. ASSUME [Next]_vars PROVE HistoryInv'
  BY <1>1, <1>2, StepHistory
<1>3. ASSUME NEW r \in Request, Accept(r) \/ AdapterStep(r) PROVE HistoryInv'
  <2>1. RequestStep(r)
    BY <1>3 DEF Accept, UploadBlob, DownloadBlob, DeleteBlob, AdapterStep, RequestStep,
       CallWithKey, Op
  <2> QED
    BY <1>2, <2>1 DEF Next, RequestStep
<1>4. ASSUME NEW r \in Request, RetrieveSized(r) \/ RemoveSized(r) PROVE HistoryInv'
  <2>1. PICK o \in {"get", "delete"} : outcome[r] = "sized" /\ Begin(r, o, key[r])
    BY <1>4 DEF RetrieveSized, RemoveSized, Awaited
  <2> QED
    BY <2>1, ResumeHistory
<1>5. ASSUME UNCHANGED vars PROVE HistoryInv'
  BY <1>2, <1>5
<1>6. ASSUME NEW r \in Request, ServiceStep(r) PROVE HistoryInv'
  BY <1>4, <1>5, <1>6 DEF ServiceStep, Stored, StartResponse, Removed, AnswerError, Disconnect
<1>7. CASE StoreChanges \/ Crash
  BY <1>2, <1>7 DEF StoreChanges, Crash, Next, Environment
<1> QED
  BY <1>3, <1>5, <1>6, <1>7 DEF ServiceNext, Accept, AllAnswered, allVars

-----------------------------------------------------------------------------
(* The theorems *)

\* The service's state, and the adapter's under it, always has its type: every
\* status line is one the routes and exception handlers send.
THEOREM ServiceTyping == ServiceSpec => []ServiceTypeOK
<1>1. ServiceInv => ServiceTypeOK
  BY DEF ServiceInv
<1> QED
  BY <1>1, Services, PTL

\* remove() logs blob_deleted for a removal that happened, with the size of the
\* blob it removed, although size() may have looked at another file.
THEOREM TrueDeletionLog == ServiceSpec => []DeletionLogIsTrue
<1>1. ServiceInv => DeletionLogIsTrue
  <2> SUFFICES ASSUME ServiceInv, NEW r \in Request, log[r] = "blob_deleted"
               PROVE  /\ seen[r] # "absent"
                      /\ seen[r] \in Request => logSize[r] = Len(data[seen[r]])
    BY DEF DeletionLogIsTrue
  <2>1. TypeOK /\ CallInv(r) /\ DeletedInv(r) /\ SizedInv(r)
    BY DEF ServiceInv, CallsInv, IInv, ServeInv
  <2>2. op[r] = "delete" /\ outcome[r] = "deleted" /\ logSize[r] = size[r]
    BY <2>1 DEF DeletedInv
  <2>3. PICK c \in Content : Sha256[c] = key[r] /\ size[r] = Len(c)
    BY <2>1, <2>2 DEF SizedInv
  <2>4. ASSUME seen[r] \in Request PROVE logSize[r] = Len(data[seen[r]])
    <3>1. data[seen[r]] \in Content /\ Sha256[data[seen[r]]] = key[r]
      BY <2>1, <2>2, <2>4 DEF DeletedInv, TypeOK
    <3>2. data[seen[r]] = c
      BY <2>3, <3>1, HashAssumption
    <3> QED
      BY <2>2, <2>3, <3>2
  <2> QED
    BY <2>1, <2>2, <2>4 DEF CallInv
<1> QED
  BY <1>1, Services, PTL

\* A download that completed with a 200 is the whole content of the requested
\* key, as long as the size that was logged before get() opened the file.
THEOREM WholeDownloads == ServiceSpec => []CompletedDownloadIsWhole
<1>1. ServiceInv => CompletedDownloadIsWhole
  <2> SUFFICES ASSUME ServiceInv, NEW r \in Request, outcome[r] = "streamed"
               PROVE  Sha256[sent[r]] = key[r] /\ Len(sent[r]) = logSize[r]
    BY DEF CompletedDownloadIsWhole
  <2>1. StreamInv(r) /\ SizedInv(r)
    BY DEF ServiceInv, CallsInv, IInv, ServeInv
  <2>2. PICK c \in Content : Yielded(r, c)
    BY <2>1 DEF StreamInv
  <2>3. sent[r] = c /\ Sha256[c] = key[r]
    BY <2>2 DEF Yielded
  <2>4. PICK b \in Content : Sha256[b] = key[r] /\ size[r] = Len(b)
    BY <2>1 DEF SizedInv
  <2>5. b = c
    BY <2>3, <2>4, HashAssumption
  <2> QED
    BY <2>1, <2>3, <2>4, <2>5 DEF SizedInv
<1> QED
  BY <1>1, Services, PTL

\* Absence is decided before the status line: no 200, 201 or 204 for a blob that
\* was not found, and no 404 after a byte of content.
THEOREM EagerNotFound == ServiceSpec => []NotFoundIsEager
<1>1. ServiceInv => NotFoundIsEager
  BY DEF ServiceInv, ServeInv, StatusInv, NotFoundIsEager
<1> QED
  BY <1>1, Services, PTL

\* The adapter's promises survive the service, whose requests make two port calls
\* one after the other on one key: what is stored is addressed by its content, a
\* stream is a prefix of its blob, and put() reports what it consumed or stores nothing.
THEOREM ServiceKeepsPromises ==
    ServiceSpec => [](/\ ContentAddressed /\ StreamFaithful
                      /\ PutReportsWhatItConsumed /\ FailedPutPublishesNothing)
<1>1. ServiceInv => /\ ContentAddressed /\ StreamFaithful
                    /\ PutReportsWhatItConsumed /\ FailedPutPublishesNothing
  BY IInvImplies DEF ServiceInv, CallsInv
<1> QED
  BY <1>1, Services, PTL

\* Behind uploads, downloads and deletions that race, fail and are killed, no blob is
\* lost, no two deletions report the same file and no scratch file stays unaccounted for.
THEOREM ServiceConserves ==
    ASSUME NoPowerLoss
    PROVE  ServiceSpec => [](ScratchAccounted /\ StoredBlobConserved /\ DeletesNeverShareAVictim)
<1>1. ServiceInit => ServiceInv /\ HistoryInv
  BY InitService, InitHistory DEF ServiceInit
<1>2. ServiceInv /\ HistoryInv /\ [ServiceNext]_allVars => (ServiceInv /\ HistoryInv)'
  BY StepService, ServiceHistory
<1>3. ServiceInv /\ HistoryInv =>
          ScratchAccounted /\ StoredBlobConserved /\ DeletesNeverShareAVictim
  BY HistoryImplies DEF ServiceInv
<1> QED
  BY <1>1, <1>2, <1>3, PTL DEF ServiceSpec
=============================================================================
