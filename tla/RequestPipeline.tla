---------------------------- MODULE RequestPipeline ----------------------------
(***************************************************************************)
(* One HTTP request through asgi_app of main.py: request logging around    *)
(* the body limit around the FastAPI application.  The application may     *)
(* read the body while its response is already going out (StreamingResponse *)
(* listens for a disconnect while it streams), so receive and send         *)
(* interleave freely.  FastAPI with Starlette's error middlewares, and the *)
(* server below, are external.                                             *)
(***************************************************************************)
EXTENDS Naturals, Sequences

CONSTANTS
    MaxBytes,       \* settings.max_upload_bytes
    ChunkSizes,     \* sizes of the body messages a client may send
    MaxChunks,      \* how many of them
    MaxMessages,    \* bound on the messages of a response
    ContentLengths, \* what Content-Length may claim
    Absent,         \* no Content-Length: a chunked request
    Malformed       \* a Content-Length that is no number

ASSUME LimitAssumption == MaxBytes \in Nat \ {0}
ASSUME SizesAssumption == /\ ChunkSizes \subseteq Nat /\ ContentLengths \subseteq Nat
                          /\ MaxChunks \in Nat /\ MaxMessages \in Nat
                          /\ {Absent, Malformed} \cap ContentLengths = {}

\* What the handlers of handlers.py make of the exceptions a route may raise.
Presentation == [InvalidRepositoryName   |-> 400,
                 RepositoryNotFound      |-> 404,
                 BlobNotFound            |-> 404,
                 RepositoryAlreadyExists |-> 409]
Unmapped == {"StorageException", "ClientDisconnect"}
\* What the application answers by itself: a route's own status, which 200 stands for, or
\* FastAPI's default for an HTTPException (no such path or method, an unreadable body) or a
\* RequestValidationError; main.py registers no handler for these.
OwnStatus == {200, 400, 404, 405, 422}

VARIABLES
    pc,                \* where control is
    body,              \* body messages the client has yet to send
    content_length,    \* the Content-Length header
    inbound,           \* X-Request-ID: "absent", "safe" or "unsafe"
    client,            \* "connected", "gone", or "noticed" by the application
    request_id,        \* what _resolve_request_id chose
    bound,             \* the id structlog's context variables add to a record
    received,          \* bytes counted by receive_counting_body
    delivered,         \* bytes handed to the application
    response_started,  \* the body limit's flag
    status_code,       \* the request log's status, 0 for None
    error,             \* the status of the error response being sent
    exc,               \* the exception in flight
    wire,              \* messages passed to the server's send
    log                \* log records
vars == <<pc, body, content_length, inbound, client, request_id, bound, received, delivered,
          response_started, status_code, error, exc, wire, log>>

inputs  == <<content_length, inbound>>
ids     == <<request_id, bound>>
counted == <<body, received, delivered>>

Start(code, id) == [type |-> "start", status |-> code, id |-> id]
Body(id, more)  == [type |-> "body", id |-> id, more |-> more]
Record(event, code, id) == [event |-> event, status |-> code, id |-> id]

Started == wire # <<>>
Complete == Started /\ wire[Len(wire)].type = "body" /\ ~wire[Len(wire)].more

Init ==
    /\ pc = "accepted"
    /\ body \in UNION {[1..n -> ChunkSizes] : n \in 0..MaxChunks}
    /\ content_length \in ContentLengths \cup {Absent, Malformed}
    /\ inbound \in {"absent", "safe", "unsafe"}
    /\ client = "connected"
    /\ request_id = "none" /\ bound = "none"
    /\ received = 0 /\ delivered = 0
    /\ response_started = FALSE /\ status_code = 0 /\ error = 0
    /\ exc = "none" /\ wire = <<>> /\ log = <<>>

-----------------------------------------------------------------------------
\* Mutant: any inbound value is trusted.
ResolveRequestId_Trusting == IF inbound = "absent" THEN "fresh" ELSE inbound

\* A fresh UUID4 unless the client's value matches _SAFE_REQUEST_ID in full.
ResolveRequestId == IF inbound = "safe" THEN "safe" ELSE "fresh"

\* RequestLoggingMiddleware up to the call of what it wraps.
Correlate ==
    /\ pc = "accepted"
    /\ request_id' = ResolveRequestId /\ bound' = ResolveRequestId
    /\ pc' = "limit"
    /\ UNCHANGED <<inputs, counted, client, response_started, status_code, error, exc, wire, log>>

\* _declared_body_size: the number claimed, or none.
DeclaredBodySize == {content_length} \ {Absent, Malformed}

\* MaxBodySizeMiddleware up to the call of the application.
CheckDeclared ==
    /\ pc = "limit"
    /\ pc' = IF \E n \in DeclaredBodySize : n > MaxBytes THEN "reject_start" ELSE "app"
    /\ UNCHANGED <<inputs, counted, ids, client, response_started, status_code, error, exc,
                   wire, log>>

\* send_with_request_id: the one way out of the process.
SendStart(code) == /\ status_code' = code
                   /\ wire' = Append(wire, Start(code, request_id))
SendBody(id, more) == /\ wire' = Append(wire, Body(id, more))
                      /\ UNCHANGED status_code

\* Mutant: each message is measured on its own.
Count_PerMessage(chunk) == chunk

\* The running total over the messages of one body.
Count(chunk) == received + chunk

\* Mutant: the overrun is an Exception, so Starlette answers it as a bug.
ReceiveBody_Exception ==
    /\ pc = "app" /\ body # <<>> /\ ~Complete /\ client = "connected"
    /\ body' = Tail(body)
    /\ received' = Count(Head(body))
    /\ IF received' > MaxBytes
       THEN /\ IF response_started
               THEN pc' = "leave_limit" /\ exc' = "Exception"
               ELSE pc' = "error_start" /\ UNCHANGED exc
            /\ error' = 500 /\ UNCHANGED delivered
       ELSE delivered' = delivered + Head(body) /\ UNCHANGED <<exc, pc, error>>
    /\ UNCHANGED <<inputs, ids, client, response_started, status_code, wire, log>>

\* receive_counting_body on a body message.
ReceiveBody ==
    /\ pc = "app" /\ body # <<>> /\ ~Complete /\ client = "connected"
    /\ body' = Tail(body)
    /\ received' = Count(Head(body))
    /\ IF received' > MaxBytes
       THEN exc' = "_BodyTooLarge" /\ pc' = "leave_limit" /\ UNCHANGED delivered
       ELSE delivered' = delivered + Head(body) /\ UNCHANGED <<exc, pc>>
    /\ UNCHANGED <<inputs, ids, client, response_started, status_code, error, wire, log>>

\* receive_counting_body on http.disconnect, which is not counted.
ReceiveDisconnect ==
    /\ pc = "app" /\ client = "gone"
    /\ client' = "noticed"
    /\ UNCHANGED <<pc, inputs, counted, ids, response_started, status_code, error, exc, wire, log>>

\* A route's own response or FastAPI's, through send_tracking_response_start.  Neither
\* has the request's id in its body, and neither leaves a request_failed record.
AppStart(code) ==
    /\ pc = "app" /\ ~response_started
    /\ response_started' = TRUE
    /\ SendStart(code)
    /\ UNCHANGED <<pc, inputs, counted, ids, client, error, exc, log>>

AppBody(more) ==
    /\ pc = "app" /\ response_started /\ ~Complete /\ Len(wire) < MaxMessages
    /\ SendBody("none", more)
    /\ UNCHANGED <<pc, inputs, counted, ids, client, response_started, error, exc, log>>

\* A streaming response ends early once the client is known to be gone.
AppReturn ==
    /\ pc = "app" /\ response_started /\ (Complete \/ client = "noticed")
    /\ pc' = "leave_limit"
    /\ UNCHANGED <<inputs, counted, ids, client, response_started, status_code, error, exc,
                   wire, log>>

-----------------------------------------------------------------------------
\* The record a handler writes before it answers.
Failed(code) == Append(log, Record("request_failed", code, request_id))

\* A mapped exception is answered, unless the response has begun: then Starlette
\* turns it into a RuntimeError, an unexpected exception like any other.
AppRaises(e) ==
    /\ pc = "app" /\ (Complete => e \in Unmapped)
    /\ e = "ClientDisconnect" => client = "noticed"
    /\ LET code == IF e \in DOMAIN Presentation /\ ~response_started
                   THEN Presentation[e] ELSE 500
       IN  error' = code /\ log' = Failed(code)
    /\ IF response_started
       THEN exc' = "Exception" /\ pc' = "leave_limit"
       ELSE pc' = "error_start" /\ UNCHANGED exc
    /\ UNCHANGED <<inputs, counted, ids, client, response_started, status_code, wire>>

\* _error_response's JSONResponse, its two messages.
ErrorStart ==
    /\ pc = "error_start"
    /\ response_started' = TRUE
    /\ SendStart(error)
    /\ pc' = "error_body"
    /\ UNCHANGED <<inputs, counted, ids, client, error, exc, log>>

\* ServerErrorMiddleware raises again what it has answered with a 500.
ErrorBody ==
    /\ pc = "error_body"
    /\ SendBody(request_id, FALSE)
    /\ exc' = IF error = 500 THEN "Exception" ELSE "none"
    /\ pc' = "leave_limit"
    /\ UNCHANGED <<inputs, counted, ids, client, response_started, error, log>>

\* The error response itself cannot be produced.
ErrorFails ==
    /\ pc = "error_start"
    /\ exc' = "Exception"
    /\ pc' = "leave_limit"
    /\ UNCHANGED <<inputs, counted, ids, client, response_started, status_code, error, wire, log>>

-----------------------------------------------------------------------------
\* Mutant: the 413 is sent whether or not a response has begun.
LeaveLimit_AlwaysRejects ==
    /\ pc = "leave_limit"
    /\ IF exc = "_BodyTooLarge"
       THEN pc' = "reject_start" /\ exc' = "none"
       ELSE pc' = "leave_logging" /\ UNCHANGED exc
    /\ UNCHANGED <<inputs, counted, ids, client, response_started, status_code, error, wire, log>>

\* The except clause of MaxBodySizeMiddleware.
LeaveLimit ==
    /\ pc = "leave_limit"
    /\ IF exc = "_BodyTooLarge" /\ ~response_started
       THEN pc' = "reject_start" /\ exc' = "none"
       ELSE pc' = "leave_logging" /\ UNCHANGED exc
    /\ UNCHANGED <<inputs, counted, ids, client, response_started, status_code, error, wire, log>>

\* _reject, its two messages; it sends past send_tracking_response_start.
RejectStart ==
    /\ pc = "reject_start"
    /\ SendStart(413)
    /\ pc' = "reject_body"
    /\ UNCHANGED <<inputs, counted, ids, client, response_started, error, exc, log>>

\* Mutant: the rest of the body is awaited before the answer is completed.
RejectBody_Drains ==
    /\ pc = "reject_body" /\ body = <<>>
    /\ SendBody(request_id, FALSE)
    /\ pc' = "leave_logging"
    /\ UNCHANGED <<inputs, counted, ids, client, response_started, error, exc, log>>

RejectBody ==
    /\ pc = "reject_body"
    /\ SendBody(request_id, FALSE)
    /\ pc' = "leave_logging"
    /\ UNCHANGED <<inputs, counted, ids, client, response_started, error, exc, log>>

\* Mutant: a failure always counts as a 500.
LoggedStatus_Always500 == IF exc = "Exception" THEN 500 ELSE status_code

LoggedStatus == IF exc = "Exception" /\ status_code = 0 THEN 500 ELSE status_code

\* Mutant: the context variables are reset before the summary is written.
Summary_AfterReset == Record("http_request", LoggedStatus, "none")

Summary == Record("http_request", LoggedStatus, bound)

\* The except and finally clauses of RequestLoggingMiddleware.
LeaveLogging ==
    /\ pc = "leave_logging"
    /\ status_code' = LoggedStatus
    /\ log' = log \o (IF exc = "Exception"
                      THEN <<Record("http_request_failed", 0, bound)>> ELSE <<>>)
                  \o <<Summary>>
    /\ bound' = "none"
    /\ pc' = "server"
    /\ UNCHANGED <<inputs, counted, request_id, client, response_started, error, exc, wire>>

\* The server answers in place of an application that has not, and otherwise
\* closes a connection whose response is incomplete.
ServerEnds ==
    /\ pc = "server"
    /\ wire' = IF ~Started /\ client = "connected"
               THEN <<Start(500, "none"), Body("none", FALSE)>> ELSE wire
    /\ pc' = "ended"
    /\ UNCHANGED <<inputs, counted, ids, client, response_started, status_code, error, exc, log>>

\* The server cancels the task of a request that outlasts the shutdown.
Cancel ==
    /\ pc \in {"app", "error_start", "error_body", "reject_start", "reject_body"}
    /\ exc' = "CancelledError"
    /\ pc' = IF pc \in {"reject_start", "reject_body"} THEN "leave_logging" ELSE "leave_limit"
    /\ UNCHANGED <<inputs, counted, ids, client, response_started, status_code, error, wire, log>>

ClientLeaves ==
    /\ client = "connected" /\ pc # "ended"
    /\ client' = "gone"
    /\ UNCHANGED <<pc, inputs, counted, ids, response_started, status_code, error, exc, wire, log>>

-----------------------------------------------------------------------------
App == \/ ReceiveBody \/ ReceiveDisconnect \/ AppReturn
       \/ \E code \in OwnStatus : AppStart(code)
       \/ \E more \in BOOLEAN : AppBody(more)
       \/ \E e \in DOMAIN Presentation \cup Unmapped : AppRaises(e)

Middleware == \/ Correlate \/ CheckDeclared \/ LeaveLimit \/ RejectStart \/ RejectBody
              \/ LeaveLogging \/ ServerEnds \/ ErrorStart \/ ErrorBody

Next == App \/ Middleware \/ ErrorFails \/ Cancel \/ ClientLeaves

Spec == Init /\ [][Next]_vars
FairSpec == Spec /\ WF_vars(Middleware)

-----------------------------------------------------------------------------
Ids    == {"none", "safe", "fresh"}
Status == {0, 409, 413, 500} \cup OwnStatus

\* The state keeps its types; in particular an id is one that may be put in a header
\* and a log record, never an unsafe one the client sent.
TypeOK ==
    /\ pc \in {"accepted", "limit", "app", "error_start", "error_body", "leave_limit",
               "reject_start", "reject_body", "leave_logging", "server", "ended"}
    /\ body \in Seq(ChunkSizes)
    /\ content_length \in ContentLengths \cup {Absent, Malformed}
    /\ inbound \in {"absent", "safe", "unsafe"}
    /\ client \in {"connected", "gone", "noticed"}
    /\ request_id \in Ids /\ bound \in Ids
    /\ received \in Nat /\ delivered \in Nat
    /\ response_started \in BOOLEAN
    /\ status_code \in Status /\ error \in Status
    /\ exc \in {"none", "_BodyTooLarge", "Exception", "CancelledError"}
    /\ wire \in Seq([type : {"start"}, status : Status, id : Ids]
                     \cup [type : {"body"}, id : Ids, more : BOOLEAN])
    /\ log \in Seq([event : {"request_failed", "http_request_failed", "http_request"},
                     status : Status, id : Ids])

\* However the body is cut into messages, the application is handed at most
\* max_bytes of it.
BodyBounded == delivered <= MaxBytes

\* What leaves for the server is one response: a status line first and never
\* again, then body messages, and nothing after the last of them, although the
\* route, the error handlers and the body limit all send.
OneResponse ==
    /\ \A i \in 1..Len(wire) : (wire[i].type = "start") = (i = 1)
    /\ \A i \in 2..(Len(wire) - 1) : wire[i].more

Oversized == received > MaxBytes \/ \E n \in DeclaredBodySize : n > MaxBytes

\* A request whose body was found too large, declared or counted, ends in a
\* whole 413 when nothing had been sent and in a cut connection otherwise, never in
\* a success the client could take for one; only a cancellation leaves it to the
\* server to answer.
OversizedIsRefused ==
    pc = "ended" /\ Oversized =>
        \/ Complete /\ wire[1].status = 413
        \/ ~Complete /\ (response_started \/ exc = "CancelledError")
        \/ exc = "CancelledError" /\ wire[1].id = "none"

\* Every request that ends has exactly one http_request record, its last, with
\* the status the client was sent, mid-stream failures included; no status is
\* recorded only for a request cancelled before it had one.
SummaryIsTrue ==
    pc \in {"server", "ended"} =>
        /\ \A i \in 1..Len(log) : (log[i].event = "http_request") = (i = Len(log))
        /\ LET status == log[Len(log)].status
           IN  /\ status = 0 => exc = "CancelledError" /\ (Started => wire[1].id = "none")
               /\ status # 0 /\ Started => wire[1].status = status

\* The response is an ErrorResponse of handlers.py, which has logged request_failed with
\* its status, or of _reject: all but a route's own and FastAPI's default answers.
ErrorResponse ==
    \/ wire[1].status \notin OwnStatus
    \/ \E i \in 1..Len(log) :
           log[i].event = "request_failed" /\ log[i].status = wire[1].status

\* One id is in every record of a request, in the header of whatever response the
\* application sends, FastAPI's default answers included, and in the body of an
\* ErrorResponse, so that the client of a failure that was logged can name its record.
\* Only the server's own 500 is without it, and that is seen only after a cancellation
\* or when the error response itself failed.
IdsAgree ==
    /\ \A i \in 1..Len(log) : log[i].id = request_id
    /\ Started =>
           \/ /\ wire[1].id = request_id
              /\ ErrorResponse => \A i \in 2..Len(wire) : wire[i].id = request_id
           \/ /\ wire[1].id = "none"
              /\ exc = "CancelledError" \/ (exc = "Exception" /\ ~response_started)

\* A body found too large ends its request whatever the client does next: the
\* application is not asked to read on, nor the client to finish.
OversizedEnds == Oversized ~> pc = "ended"
=============================================================================
