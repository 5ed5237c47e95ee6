---------------------------- MODULE StorageService ----------------------------
(***************************************************************************)
(* application/services/storage_service.py and api/routes/storage.py over  *)
(* the filesystem adapter: store, retrieve and remove, each chaining port  *)
(* calls, the log event it emits and the HTTP answer the client gets.      *)
(* retrieve and remove ask for the size first, so the blob may change      *)
(* hands between their two port calls.                                     *)
(***************************************************************************)
EXTENDS FilesystemBlobStorage

VARIABLES
    frame,    \* the service method each request runs
    log,      \* the log event each request has emitted
    logSize,  \* the size written in that event
    status    \* the HTTP status line sent, or "aborted" for a cut connection

serviceVars == <<frame, log, logSize, status>>
allVars     == <<vars, serviceVars>>

ServiceTypeOK ==
    /\ TypeOK
    /\ frame   \in [Request -> {"none", "store", "retrieve", "remove"}]
    /\ log     \in [Request -> {"none", "blob_stored", "blob_retrieved", "blob_deleted"}]
    /\ logSize \in [Request -> 0..MaxChunks]
    /\ status  \in [Request -> {"none", "200", "201", "204", "404", "500", "aborted"}]

ServiceInit ==
    /\ Init
    /\ frame   = [r \in Request |-> "none"]
    /\ log     = [r \in Request |-> "none"]
    /\ logSize = [r \in Request |-> 0]
    /\ status  = [r \in Request |-> "none"]

Logs(r, event) == /\ log' = [log EXCEPT ![r] = event]
                  /\ logSize' = [logSize EXCEPT ![r] = size[r]]

Answers(r, code) == status' = [status EXCEPT ![r] = code]

\* The port call the service awaits has returned o, and nothing was sent yet.
Awaited(r, f, o) == /\ frame[r] = f /\ pc[r] = "done" /\ outcome[r] = o
                    /\ status[r] = "none"

-----------------------------------------------------------------------------
UploadBlob(r) ==
    /\ CallPut(r)
    /\ frame' = [frame EXCEPT ![r] = "store"]
    /\ UNCHANGED <<log, logSize, status>>

DownloadBlob(r, k) ==
    /\ CallWithKey(r, "size", k)
    /\ frame' = [frame EXCEPT ![r] = "retrieve"]
    /\ UNCHANGED <<log, logSize, status>>

DeleteBlob(r, k) ==
    /\ CallWithKey(r, "size", k)
    /\ frame' = [frame EXCEPT ![r] = "remove"]
    /\ UNCHANGED <<log, logSize, status>>

\* store: put() returned.
Stored(r) ==
    /\ Awaited(r, "store", "stored")
    /\ Logs(r, "blob_stored")
    /\ Answers(r, "201")
    /\ UNCHANGED <<vars, frame>>

\* retrieve: size() returned; log, then get().
RetrieveSized(r) ==
    /\ Awaited(r, "retrieve", "sized")
    /\ Logs(r, "blob_retrieved")
    /\ Begin(r, "get", key[r])
    /\ UNCHANGED <<frame, status>>

\* Mutant: get() is an async generator, which opens at its first iteration.
StartResponse_Lazy(r) ==
    /\ frame[r] = "retrieve" /\ pc[r] \in {"open", "stream"} /\ op[r] = "get"
    /\ status[r] = "none"
    /\ Answers(r, "200")
    /\ UNCHANGED <<vars, frame, log, logSize>>

\* get() returned its iterator: StreamingResponse sends the status line.
StartResponse(r) ==
    /\ frame[r] = "retrieve" /\ pc[r] = "stream" /\ status[r] = "none"
    /\ Answers(r, "200")
    /\ UNCHANGED <<vars, frame, log, logSize>>

\* remove: size() returned; delete().
RemoveSized(r) ==
    /\ Awaited(r, "remove", "sized")
    /\ Begin(r, "delete", key[r])
    /\ UNCHANGED serviceVars

\* Mutant: the event is logged whether or not the delete found the blob.
Removed_LoggedFirst(r) ==
    /\ \/ Awaited(r, "remove", "deleted") /\ Answers(r, "204")
       \/ Awaited(r, "remove", "BlobNotFound") /\ Answers(r, "404")
    /\ Logs(r, "blob_deleted")
    /\ UNCHANGED <<vars, frame>>

\* remove: delete() returned.
Removed(r) ==
    /\ Awaited(r, "remove", "deleted")
    /\ Logs(r, "blob_deleted")
    /\ Answers(r, "204")
    /\ UNCHANGED <<vars, frame>>

\* Mutants: a status the API does not have; no handler for unexpected errors.
AnswerError_BadGateway(r) ==
    /\ \E f \in {"store", "retrieve", "remove"} :
           \/ Awaited(r, f, "BlobNotFound") /\ Answers(r, "404")
           \/ \E e \in {"StorageException", "OSError", "SourceError"} :
                  Awaited(r, f, e) /\ Answers(r, "502")
    /\ UNCHANGED <<vars, frame, log, logSize>>

AnswerError_OnlyNotFound(r) ==
    /\ \E f \in {"store", "retrieve", "remove"} :
           Awaited(r, f, "BlobNotFound") /\ Answers(r, "404")
    /\ UNCHANGED <<vars, frame, log, logSize>>

\* The exception handlers: BlobNotFound is a 404, everything else a 500.
AnswerError(r) ==
    /\ \E f \in {"store", "retrieve", "remove"} :
           \/ Awaited(r, f, "BlobNotFound") /\ Answers(r, "404")
           \/ \E e \in {"StorageException", "OSError", "SourceError"} :
                  Awaited(r, f, e) /\ Answers(r, "500")
    /\ UNCHANGED <<vars, frame, log, logSize>>

\* A cancelled request gets no answer; an error after the status line cuts the body.
Disconnect(r) ==
    /\ \/ outcome[r] = "Cancelled" /\ (pc[r] = "done" \/ pc[r] \in Orphan)
       \/ outcome[r] = "OSError" /\ pc[r] = "done" /\ status[r] = "200"
    /\ status[r] \in {"none", "200"}
    /\ Answers(r, "aborted")
    /\ UNCHANGED <<vars, frame, log, logSize>>

-----------------------------------------------------------------------------
\* The body is pulled only once the response has begun.
AdapterStep(r) ==
    /\ \/ Syscall(r)
       \/ CallerStep(r) /\ (pc[r] = "stream" => status[r] = "200")
       \/ Interference(r)
    /\ UNCHANGED serviceVars

ServiceStep(r) ==
    \/ Stored(r) \/ RetrieveSized(r) \/ StartResponse(r)
    \/ RemoveSized(r) \/ Removed(r) \/ AnswerError(r) \/ Disconnect(r)

StoreChanges ==
    /\ \/ \E d \in Digest, e \in Foreign : Plant(d, e)
       \/ \E d \in Digest : Writeback(d)
    /\ UNCHANGED serviceVars

\* A crash cuts the connections of the requests that were being served.
Crash ==
    /\ Kill \/ PowerLoss
    /\ status' = [r \in Request |->
                    IF frame[r] # "none" /\ (status[r] = "none" \/ pc[r] = "stream")
                    THEN "aborted" ELSE status[r]]
    /\ UNCHANGED <<frame, log, logSize>>

AllAnswered ==
    /\ \A r \in Request : pc[r] \in Finished /\ status[r] # "none"
    /\ UNCHANGED allVars

ServiceNext ==
    \/ \E r \in Request : UploadBlob(r)
    \/ \E r \in Request, k \in Key : DownloadBlob(r, k) \/ DeleteBlob(r, k)
    \/ \E r \in Request : AdapterStep(r) \/ ServiceStep(r)
    \/ StoreChanges
    \/ Crash
    \/ AllAnswered

ServiceSpec == ServiceInit /\ [][ServiceNext]_allVars

\* The event loop resumes every awaiting coroutine, the pool runs every thread.
ServiceFairness ==
    \A r \in Request : /\ WF_allVars(Syscall(r) /\ UNCHANGED serviceVars)
                       /\ WF_allVars(ServiceStep(r))

FairServiceSpec == ServiceSpec /\ ServiceFairness

-----------------------------------------------------------------------------
\* blob_deleted is logged for a removal that happened, with the removed blob's
\* own size, although the size was read from whatever file was there before.
DeletionLogIsTrue ==
    \A r \in Request : log[r] = "blob_deleted" =>
        /\ seen[r] # "absent"
        /\ seen[r] \in Request => logSize[r] = Len(data[seen[r]])

\* A 200 whose body ended is the whole content of the requested key, as long as
\* the size logged for it, whatever happened between size() and get().
CompletedDownloadIsWhole ==
    \A r \in Request : status[r] = "200" /\ pc[r] = "done" /\ outcome[r] = "streamed" =>
        Sha256[sent[r]] = key[r] /\ Len(sent[r]) = logSize[r]

\* contracts.py:62, "Raised eagerly": absence is decided before the status line,
\* so no 200 is ever followed by BlobNotFound, and no 404 by a byte of content.
NotFoundIsEager ==
    \A r \in Request : /\ outcome[r] = "BlobNotFound" => status[r] \notin {"200", "201", "204"}
                       /\ status[r] = "404" => sent[r] = <<>>

\* Every request the service accepts gets its status line, loses its connection,
\* or waits for the client to send the rest of its upload.
EveryRequestIsAnswered ==
    \A r \in Request : frame[r] # "none" ~> status[r] # "none" \/ pc[r] = "spool"

\* storage_service.py:63: BlobNotFound is "Propagated unchanged from the size
\* lookup and not logged".
NotFoundIsNotLogged ==
    \A r \in Request : frame[r] = "retrieve" /\ outcome[r] = "BlobNotFound" => log[r] = "none"
=============================================================================
