------------------------ MODULE RequestPipelineProofs ------------------------
(***************************************************************************)
(* Proofs about one request through the middleware stack, for any limit,   *)
(* any body cut into any messages, any Content-Length and responses of any *)
(* number of messages.                                                     *)
(***************************************************************************)
EXTENDS RequestPipeline, SequenceTheorems, TLAPS

\* What the exception in flight can be where.
ExcInv ==
    /\ pc \notin {"leave_limit", "leave_logging", "server", "ended"} => exc = "none"
    /\ pc = "leave_limit" /\ ~Started => exc # "none"
    /\ pc \in {"leave_logging", "server"} /\ ~Started => exc \in {"Exception", "CancelledError"}

\* The body limit's flag tells whether a response has begun, up to the 413 that the
\* body limit sends past it.
FlagInv ==
    /\ response_started => Started
    /\ pc \in {"accepted", "limit", "app", "error_start", "error_body", "leave_limit",
               "reject_start"} /\ Started => response_started
    /\ pc \in {"accepted", "limit", "error_start", "reject_start"} => ~Started
    /\ pc \in {"error_body", "reject_body"} => Len(wire) = 1

\* The response bears the request's id, in the body too if it is an ErrorResponse.
Header ==
    /\ wire[1].id = request_id
    /\ wire[1].status # 0
    /\ ErrorResponse => \A i \in 2..Len(wire) : wire[i].id = request_id

\* The response so far: who may still send, with which status.
ResponseInv ==
    /\ OneResponse
    /\ pc = "app" /\ Started => wire[1].status \in OwnStatus
    /\ pc = "reject_body" => wire[1].status = 413
    /\ pc \in {"error_start", "error_body"} => error # 0
    /\ pc # "ended" /\ Started => Header
    /\ pc \notin {"server", "ended"} => status_code = IF Started THEN wire[1].status ELSE 0

\* The bytes handed on are the bytes counted, until the count passes the limit.
CountInv ==
    /\ pc \in {"accepted", "limit"} => received = 0
    /\ pc \in {"accepted", "limit", "app"} => delivered = received
    /\ delivered <= MaxBytes

\* How far the refusal of an oversized body has come.
RefusalInv ==
    Oversized =>
        \/ pc \in {"accepted", "limit", "reject_start", "reject_body", "ended"}
        \/ pc = "leave_limit" /\ exc = "_BodyTooLarge" /\ ~Complete
        \/ /\ pc \in {"leave_logging", "server"}
           /\ \/ Complete /\ wire[1].status = 413
              \/ ~Complete /\ (response_started \/ exc = "CancelledError")

\* One id is in every record; none of them is the summary, or the last one only.
LogIds      == \A i \in 1..Len(log) : log[i].id = request_id
NoSummary   == \A i \in 1..Len(log) : log[i].event # "http_request"
SummaryLast == \A i \in 1..Len(log) : (log[i].event = "http_request") = (i = Len(log))

LogInv ==
    /\ pc \in {"accepted", "limit", "app"} => log = <<>>
    /\ pc \notin {"accepted", "server", "ended"} => bound = request_id
    /\ LogIds
    /\ pc \notin {"server", "ended"} => NoSummary
    /\ pc \in {"server", "ended"} => SummaryLast
    /\ pc = "server" =>
         log[Len(log)].status = IF Started THEN wire[1].status
                                ELSE IF exc = "Exception" THEN 500 ELSE 0

IInv == /\ TypeOK /\ ExcInv /\ FlagInv /\ ResponseInv /\ CountInv /\ RefusalInv /\ LogInv
        /\ OversizedIsRefused /\ SummaryIsTrue /\ IdsAgree
-----------------------------------------------------------------------------
(* Types *)

Message == [type : {"start"}, status : Status, id : Ids]
             \cup [type : {"body"}, id : Ids, more : BOOLEAN]
LogRecord == [event : {"request_failed", "http_request_failed", "http_request"},
              status : Status, id : Ids]

\* The messages and records the middlewares build are well-formed.
LEMMA Built ==
    ASSUME TypeOK
    PROVE  /\ wire \in Seq(Message) /\ log \in Seq(LogRecord)
           /\ \A c \in Status, i \in Ids : Start(c, i) \in Message
           /\ \A i \in Ids, m \in BOOLEAN : Body(i, m) \in Message
           /\ \A c \in Status, i \in Ids :
                /\ Record("request_failed", c, i) \in LogRecord
                /\ Record("http_request_failed", c, i) \in LogRecord
                /\ Record("http_request", c, i) \in LogRecord
  BY DEF TypeOK, Message, LogRecord, Start, Body, Record

\* Two elements make a sequence.
LEMMA TwoInSeq == ASSUME NEW S, NEW a \in S, NEW b \in S PROVE <<a, b>> \in Seq(S)
  OBVIOUS

\* The statuses of the mapped exceptions.
LEMMA Presented == \A e \in DOMAIN Presentation : Presentation[e] \in {400, 404, 409}
<1>1. DOMAIN Presentation = {"InvalidRepositoryName", "RepositoryNotFound", "BlobNotFound",
                             "RepositoryAlreadyExists"}
  BY DEF Presentation
<1>2. /\ Presentation["InvalidRepositoryName"] = 400
      /\ Presentation["RepositoryNotFound"] = 404
      /\ Presentation["BlobNotFound"] = 404
      /\ Presentation["RepositoryAlreadyExists"] = 409
  BY DEF Presentation
<1> QED
  BY <1>1, <1>2

\* Every step keeps the types.
LEMMA TypeStep == IInv /\ [Next]_vars => TypeOK'
<1> SUFFICES ASSUME IInv, [Next]_vars PROVE TypeOK'
  OBVIOUS
<1> USE DEF inputs, ids, counted
<1>t. TypeOK
  BY DEF IInv
<1>b. /\ wire \in Seq(Message) /\ log \in Seq(LogRecord)
      /\ \A c \in Status, i \in Ids : Start(c, i) \in Message
      /\ \A i \in Ids, m \in BOOLEAN : Body(i, m) \in Message
      /\ \A c \in Status, i \in Ids :
           /\ Record("request_failed", c, i) \in LogRecord
           /\ Record("http_request_failed", c, i) \in LogRecord
           /\ Record("http_request", c, i) \in LogRecord
  BY <1>t, Built
<1>n. /\ "none" \in Ids /\ 0 \in Status /\ 413 \in Status /\ 500 \in Status
      /\ OwnStatus \subseteq Status
  BY DEF Ids, Status
<1>s. ASSUME wire' \in Seq(Message), log' \in Seq(LogRecord),
             body' \in Seq(ChunkSizes), received' \in Nat, delivered' \in Nat,
             status_code' \in Status, error' \in Status,
             request_id' \in Ids, bound' \in Ids, UNCHANGED inputs,
             client' \in {"connected", "gone", "noticed"},
             response_started' \in BOOLEAN,
             exc' \in {"none", "_BodyTooLarge", "Exception", "CancelledError"},
             pc' \in {"accepted", "limit", "app", "error_start", "error_body", "leave_limit",
                      "reject_start", "reject_body", "leave_logging", "server", "ended"}
      PROVE  TypeOK'
  BY <1>t, <1>s DEF TypeOK, Message, LogRecord
<1>a. /\ \A m \in Message : Append(wire, m) \in Seq(Message)
      /\ \A l \in LogRecord : Append(log, l) \in Seq(LogRecord)
  BY <1>b, AppendProperties
<1>1. CASE Correlate
  BY <1>t, <1>b, <1>s, <1>1 DEF Correlate, ResolveRequestId, TypeOK, Ids
<1>2. CASE CheckDeclared
  BY <1>t, <1>b, <1>s, <1>2 DEF CheckDeclared, TypeOK
<1>3. CASE ReceiveBody
  <2>1. body \in Seq(ChunkSizes) /\ body # <<>> /\ body' = Tail(body)
    BY <1>t, <1>3 DEF ReceiveBody, TypeOK
  <2>2. Head(body) \in ChunkSizes /\ body' \in Seq(ChunkSizes)
    BY <2>1, HeadTailProperties
  <2>3. received' \in Nat /\ delivered' \in Nat
    <3>1. received \in Nat /\ delivered \in Nat /\ Head(body) \in Nat
      BY <1>t, <2>2, SizesAssumption DEF TypeOK
    <3>2. received' = received + Head(body)
          /\ delivered' \in {delivered, delivered + Head(body)}
      BY <1>3 DEF ReceiveBody, Count
    <3> QED
      BY <3>1, <3>2
  <2> QED
    BY <1>t, <1>b, <1>s, <1>3, <2>2, <2>3 DEF ReceiveBody, TypeOK
<1>4. CASE ReceiveDisconnect
  BY <1>t, <1>b, <1>s, <1>4 DEF ReceiveDisconnect, TypeOK
<1>5. ASSUME NEW code \in OwnStatus, AppStart(code) PROVE TypeOK'
  <2>1. wire' \in Seq(Message) /\ status_code' \in Status
    BY <1>t, <1>a, <1>b, <1>n, <1>5 DEF AppStart, SendStart, TypeOK
  <2> QED
    BY <1>t, <1>b, <1>s, <1>5, <2>1 DEF AppStart, TypeOK
<1>6. CASE AppReturn
  BY <1>t, <1>b, <1>s, <1>6 DEF AppReturn, TypeOK
<1>7. ASSUME NEW more \in BOOLEAN, AppBody(more) PROVE TypeOK'
  <2>1. wire' \in Seq(Message) /\ status_code' \in Status
    BY <1>t, <1>a, <1>b, <1>n, <1>7 DEF AppBody, SendBody, TypeOK
  <2> QED
    BY <1>t, <1>b, <1>s, <1>7, <2>1 DEF AppBody, TypeOK
<1>8. ASSUME NEW e \in DOMAIN Presentation \cup Unmapped, AppRaises(e) PROVE TypeOK'
  <2>1. PICK code \in Status : error' = code /\ log' = Failed(code)
    <3> DEFINE code == IF e \in DOMAIN Presentation /\ ~response_started
                       THEN Presentation[e] ELSE 500
    <3>1. code \in Status
      BY Presented DEF Status, OwnStatus
    <3>2. error' = code /\ log' = Failed(code)
      BY <1>8 DEF AppRaises
    <3> HIDE DEF code
    <3> QED
      BY <3>1, <3>2
  <2>2. log' \in Seq(LogRecord) /\ error' \in Status
    BY <1>t, <1>a, <1>b, <2>1 DEF Failed, TypeOK
  <2> QED
    <3>1. /\ exc' \in {exc, "Exception"} /\ pc' \in {"leave_limit", "error_start"}
          /\ UNCHANGED <<inputs, counted, ids, client, response_started, status_code, wire>>
      BY <1>8 DEF AppRaises
    <3> QED
      BY <1>t, <1>b, <1>s, <2>2, <3>1 DEF TypeOK
<1>9. CASE ErrorStart
  <2>1. wire' \in Seq(Message) /\ status_code' \in Status
    <3>1. error \in Status /\ Start(error, request_id) \in Message
      BY <1>t, <1>b DEF TypeOK
    <3>2. wire' = Append(wire, Start(error, request_id)) /\ status_code' = error
      BY <1>9 DEF ErrorStart, SendStart
    <3> QED
      BY <1>a, <3>1, <3>2
  <2> QED
    BY <1>t, <1>b, <1>s, <1>9, <2>1 DEF ErrorStart, TypeOK
<1>10. CASE ErrorBody
  <2>1. wire' \in Seq(Message) /\ status_code' \in Status
    BY <1>t, <1>a, <1>b, <1>10 DEF ErrorBody, SendBody, TypeOK
  <2> QED
    BY <1>t, <1>b, <1>s, <1>10, <2>1 DEF ErrorBody, TypeOK
<1>11. CASE ErrorFails
  BY <1>t, <1>b, <1>s, <1>11 DEF ErrorFails, TypeOK
<1>12. CASE LeaveLimit
  BY <1>t, <1>b, <1>s, <1>12 DEF LeaveLimit, TypeOK
<1>13. CASE RejectStart
  <2>1. wire' \in Seq(Message) /\ status_code' \in Status
    <3>1. 413 \in Status /\ Start(413, request_id) \in Message
      <4>1. \A c \in Status, i \in Ids : Start(c, i) \in Message
        BY <1>b
      <4>2. request_id \in Ids
        BY <1>t DEF TypeOK
      <4> QED
        BY <1>n, <4>1, <4>2
    <3>2. wire' = Append(wire, Start(413, request_id)) /\ status_code' = 413
      BY <1>13 DEF RejectStart, SendStart
    <3> QED
      BY <1>a, <3>1, <3>2
  <2> QED
    BY <1>t, <1>b, <1>s, <1>13, <2>1 DEF RejectStart, TypeOK
<1>14. CASE RejectBody
  <2>1. wire' \in Seq(Message) /\ status_code' \in Status
    BY <1>t, <1>a, <1>b, <1>14 DEF RejectBody, SendBody, TypeOK
  <2> QED
    BY <1>t, <1>b, <1>s, <1>14, <2>1 DEF RejectBody, TypeOK
<1>15. CASE LeaveLogging
  <2>1. LoggedStatus \in Status
    BY <1>t, <1>n DEF LoggedStatus, TypeOK
  <2>2. Summary \in LogRecord /\ Record("http_request_failed", 0, bound) \in LogRecord
    BY <1>t, <1>b, <1>n, <2>1 DEF Summary, TypeOK
  <2>3. log' \in Seq(LogRecord)
    <3> DEFINE f == IF exc = "Exception" THEN <<Record("http_request_failed", 0, bound)>>
                    ELSE <<>>
    <3>1. f \in Seq(LogRecord) /\ <<Summary>> \in Seq(LogRecord)
      <4>1. \A l \in LogRecord : <<l>> \in Seq(LogRecord)
        OBVIOUS
      <4> QED
        BY <2>2, <4>1
    <3>2. log' = log \o f \o <<Summary>>
      BY <1>15 DEF LeaveLogging
    <3> HIDE DEF f
    <3> QED
      BY <1>b, <3>1, <3>2, ConcatProperties
  <2> QED
    BY <1>t, <1>b, <1>s, <1>n, <1>15, <2>1, <2>3 DEF LeaveLogging, TypeOK
<1>16. CASE ServerEnds
  <2>1. Start(500, "none") \in Message /\ Body("none", FALSE) \in Message
    <3>1. \A c \in Status, i \in Ids : Start(c, i) \in Message
      BY <1>b
    <3>2. \A i \in Ids, m \in BOOLEAN : Body(i, m) \in Message
      BY <1>b
    <3>3. Start(500, "none") \in Message
      BY <1>n, <3>1
    <3>4. Body("none", FALSE) \in Message
      BY <1>n, <3>2
    <3> QED
      BY <3>3, <3>4
  <2>2. <<Start(500, "none"), Body("none", FALSE)>> \in Seq(Message)
    <3> DEFINE start == Start(500, "none")
               rest  == Body("none", FALSE)
    <3>1. start \in Message /\ rest \in Message
      BY <2>1
    <3> HIDE DEF start, rest
    <3>2. <<start, rest>> \in Seq(Message)
      BY <3>1, TwoInSeq
    <3> QED
      BY <3>2 DEF start, rest
  <2>3. wire' \in Seq(Message)
    BY <1>b, <1>16, <2>2 DEF ServerEnds
  <2> QED
    BY <1>t, <1>b, <1>s, <1>16, <2>3 DEF ServerEnds, TypeOK
<1>17. CASE Cancel
  BY <1>t, <1>b, <1>s, <1>17 DEF Cancel, TypeOK
<1>18. CASE ClientLeaves
  BY <1>t, <1>b, <1>s, <1>18 DEF ClientLeaves, TypeOK
<1>19. CASE UNCHANGED vars
  <2>1. UNCHANGED <<inputs, pc, body, received, delivered, exc, client, error, response_started,
                    status_code, request_id, bound, wire, log>>
    BY <1>19 DEF vars
  <2>2. wire' \in Seq(Message) /\ log' \in Seq(LogRecord)
    BY <1>b, <2>1
  <2>3. body' \in Seq(ChunkSizes) /\ received' \in Nat /\ delivered' \in Nat
    BY <1>t, <2>1 DEF TypeOK
  <2>4. status_code' \in Status /\ error' \in Status /\ request_id' \in Ids /\ bound' \in Ids
    BY <1>t, <2>1 DEF TypeOK
  <2>5. /\ client' \in {"connected", "gone", "noticed"} /\ response_started' \in BOOLEAN
        /\ exc' \in {"none", "_BodyTooLarge", "Exception", "CancelledError"}
    BY <1>t, <2>1 DEF TypeOK
  <2>6. pc' \in {"accepted", "limit", "app", "error_start", "error_body", "leave_limit",
                 "reject_start", "reject_body", "leave_logging", "server", "ended"}
    BY <1>t, <2>1 DEF TypeOK
  <2> QED
    BY <1>s, <2>1, <2>2, <2>3, <2>4, <2>5, <2>6
<1> QED
  BY <1>1, <1>2, <1>3, <1>4, <1>5, <1>6, <1>7, <1>8, <1>9, <1>10, <1>11, <1>12, <1>13, <1>14,
     <1>15, <1>16, <1>17, <1>18, <1>19 DEF Next, App, Middleware

-----------------------------------------------------------------------------
(* The messages of the response *)

\* The first message is a status line, alone and not a whole response.
LEMMA SendsStart ==
    ASSUME TypeOK, ~Started, NEW c \in Status, wire' = Append(wire, Start(c, request_id))
    PROVE  /\ Len(wire') = 1 /\ Started' /\ ~Complete' /\ OneResponse'
           /\ wire'[1].status = c /\ wire'[1].id = request_id
<1>1. wire = <<>> /\ wire' = <<Start(c, request_id)>>
  BY DEF Started
<1>2. Len(wire') = 1 /\ wire'[1] = Start(c, request_id)
  BY <1>1
<1>3. /\ Start(c, request_id).type = "start" /\ Start(c, request_id).status = c
      /\ Start(c, request_id).id = request_id
  BY DEF Start
<1> QED
  BY <1>1, <1>2, <1>3 DEF Started, Complete, OneResponse

\* A body message after an unfinished response continues it, and ends it if it is
\* the last.
LEMMA SendsBody ==
    ASSUME TypeOK, Started, ~Complete, OneResponse, NEW i \in Ids, NEW more \in BOOLEAN,
           wire' = Append(wire, Body(i, more))
    PROVE  /\ Len(wire') = Len(wire) + 1 /\ Started' /\ OneResponse'
           /\ Complete' <=> ~more
           /\ wire'[Len(wire) + 1].id = i
           /\ \A k \in 1..Len(wire) : wire'[k] = wire[k]
<1>1. wire \in Seq(Message) /\ Body(i, more) \in Message
  BY Built
<1>2. /\ Len(wire) \in Nat /\ Len(wire) > 0
      /\ Len(wire') = Len(wire) + 1 /\ wire'[Len(wire) + 1] = Body(i, more)
      /\ \A k \in 1..Len(wire) : wire'[k] = wire[k] /\ wire[k] \in Message
  BY <1>1, AppendProperties, EmptySeq DEF Started
<1>3. Body(i, more).type = "body" /\ Body(i, more).id = i /\ Body(i, more).more = more
  BY DEF Body
<1>4. Len(wire) > 1 => wire[Len(wire)].more
  <2>1. \A m \in Message : m.type # "start" => m.type = "body" /\ m.more \in BOOLEAN
    BY DEF Message
  <2> QED
    BY <1>2, <2>1 DEF Complete, OneResponse, Started
<1>5. Started' /\ (Complete' <=> ~more)
  BY <1>2, <1>3 DEF Started, Complete
<1>6. OneResponse'
  <2>1. ASSUME NEW k \in 1..Len(wire') PROVE (wire'[k].type = "start") = (k = 1)
    <3>1. CASE k = Len(wire) + 1
      BY <1>2, <1>3, <3>1
    <3>2. CASE k \in 1..Len(wire)
      BY <1>2, <3>2 DEF OneResponse
    <3> QED
      BY <1>2, <3>1, <3>2
  <2>2. ASSUME NEW k \in 2..(Len(wire') - 1) PROVE wire'[k].more
    <3>1. CASE k = Len(wire)
      BY <1>2, <1>4, <3>1
    <3>2. CASE k \in 2..(Len(wire) - 1)
      BY <1>2, <3>2 DEF OneResponse
    <3> QED
      BY <1>2, <3>1, <3>2
  <2> QED
    BY <2>1, <2>2 DEF OneResponse
<1> QED
  BY <1>2, <1>3, <1>5, <1>6

\* A response that has begun begins with its status line.
LEMMA StatusLine ==
    ASSUME OneResponse, Len(wire) = 1
    PROVE  wire[1].type = "start"
<1>1. (wire[1].type = "start") = (1 = 1)
  BY DEF OneResponse
<1> QED
  BY <1>1

\* A step that sends nothing changes nothing about the response.
LEMMA SendsNothing ==
    ASSUME UNCHANGED wire
    PROVE  /\ (Started' <=> Started) /\ (Complete' <=> Complete) /\ (OneResponse' <=> OneResponse)
           /\ UNCHANGED <<request_id, log>> =>
                  (Header' <=> Header) /\ (ErrorResponse' <=> ErrorResponse)
  BY DEF Started, Complete, OneResponse, Header, ErrorResponse

\* A step that writes no record changes nothing about the log.
LEMMA LogsNothing ==
    ASSUME UNCHANGED <<request_id, log>>
    PROVE  (LogIds' <=> LogIds) /\ (NoSummary' <=> NoSummary) /\ (SummaryLast' <=> SummaryLast)
  BY DEF LogIds, NoSummary, SummaryLast

-----------------------------------------------------------------------------
(* The inductive invariant, conjunct by conjunct *)

\* The steps between the arrival and the summary that neither send nor write a record.
LEMMA QuietStep ==
    ASSUME IInv, TypeOK',
           \/ CheckDeclared \/ ReceiveDisconnect \/ AppReturn \/ ErrorFails \/ LeaveLimit \/ Cancel
           \/ ClientLeaves
    PROVE  IInv'
<1> USE DEF inputs, ids, counted
<1>i. /\ ExcInv /\ FlagInv /\ ResponseInv /\ CountInv /\ RefusalInv /\ LogInv
      /\ OversizedIsRefused /\ SummaryIsTrue /\ IdsAgree /\ TypeOK
  BY DEF IInv
<1>u. /\ UNCHANGED <<content_length, inbound, body, received, delivered, request_id, bound, error,
                     response_started, status_code, wire, log>>
      /\ (Started' <=> Started) /\ (Complete' <=> Complete) /\ (OneResponse' <=> OneResponse)
      /\ (Header' <=> Header) /\ (ErrorResponse' <=> ErrorResponse)
      /\ (LogIds' <=> LogIds) /\ (NoSummary' <=> NoSummary) /\ (SummaryLast' <=> SummaryLast)
      /\ Oversized' <=> Oversized
  BY SendsNothing, LogsNothing
  DEF CheckDeclared, ReceiveDisconnect, AppReturn, ErrorFails, LeaveLimit, Cancel,
     ClientLeaves, Oversized, DeclaredBodySize
<1>e. pc \in {"server", "ended"} \/ pc' \in {"server", "ended"} => pc' = pc /\ exc' = exc
  BY DEF CheckDeclared, ReceiveDisconnect, AppReturn, ErrorFails, LeaveLimit, Cancel, ClientLeaves
<1>1. ExcInv'
  BY <1>i, <1>u DEF ExcInv, FlagInv, CheckDeclared, ReceiveDisconnect, AppReturn, ErrorFails,
     LeaveLimit, Cancel, ClientLeaves, TypeOK
<1>2. FlagInv'
  BY <1>i, <1>u DEF FlagInv, CheckDeclared, ReceiveDisconnect, AppReturn, ErrorFails, LeaveLimit,
     Cancel, ClientLeaves
<1>p. /\ pc' = "app" => pc \in {"app", "limit"}
      /\ pc' \in {"reject_body", "error_start", "error_body", "accepted"} => pc = pc'
      /\ pc = "accepted" => pc' = "accepted"
      /\ pc' \in {"accepted", "limit", "app"} => pc \in {"accepted", "limit", "app"}
  BY DEF CheckDeclared, ReceiveDisconnect, AppReturn, ErrorFails, LeaveLimit, Cancel, ClientLeaves
<1>3. ResponseInv'
  <2>1. pc = "limit" => ~Started
    BY <1>i DEF FlagInv
  <2>2. pc' = "app" /\ Started' => wire'[1].status \in OwnStatus
    BY <1>i, <1>u, <1>p, <2>1 DEF ResponseInv
  <2>3. pc' = "reject_body" => wire'[1].status = 413
    <3>1. (pc' = "reject_body" => pc = "reject_body") /\ wire' = wire
      BY <1>u, <1>p
    <3> QED
      BY <1>i, <3>1 DEF ResponseInv
  <2>4. pc' \in {"error_start", "error_body"} => error' # 0
    BY <1>i, <1>u, <1>p DEF ResponseInv
  <2>5. pc' # "ended" /\ Started' => Header'
    BY <1>i, <1>u, <1>e DEF ResponseInv
  <2>6. pc' \notin {"server", "ended"} => status_code' = IF Started' THEN wire'[1].status ELSE 0
    BY <1>i, <1>u, <1>e DEF ResponseInv
  <2> QED
    BY <1>i, <1>u, <2>2, <2>3, <2>4, <2>5, <2>6 DEF ResponseInv
<1>4. CountInv'
  BY <1>i, <1>u DEF CountInv, CheckDeclared, ReceiveDisconnect, AppReturn, ErrorFails, LeaveLimit,
     Cancel, ClientLeaves
<1>5. RefusalInv'
  <2>1. CASE CheckDeclared
    <3>1. Oversized => \E n \in DeclaredBodySize : n > MaxBytes
      <4>1. received = 0
        BY <1>i, <2>1 DEF CountInv, CheckDeclared
      <4>2. ~(received > MaxBytes)
        BY <4>1, LimitAssumption
      <4> QED
        BY <4>2 DEF Oversized
    <3> QED
      BY <1>u, <2>1, <3>1 DEF RefusalInv, CheckDeclared
  <2>2. CASE AppReturn \/ ErrorFails
    BY <1>i, <1>u, <2>2 DEF RefusalInv, AppReturn, ErrorFails
  <2>3. CASE LeaveLimit
    <3> SUFFICES ASSUME Oversized
                 PROVE  \/ pc' = "reject_start"
                        \/ pc' = "leave_logging" /\ ~Complete' /\ response_started'
      BY <1>u DEF RefusalInv
    <3>1. exc = "_BodyTooLarge" /\ ~Complete
      BY <1>i, <2>3 DEF RefusalInv, LeaveLimit
    <3>2. CASE response_started
      <4>1. pc' = "leave_logging"
        BY <2>3, <3>2 DEF LeaveLimit
      <4>2. response_started' /\ ~Complete'
        BY <1>u, <3>1, <3>2
      <4> QED
        BY <4>1, <4>2
    <3>3. CASE ~response_started
      BY <2>3, <3>1, <3>3 DEF LeaveLimit
    <3> QED
      BY <3>2, <3>3
  <2>4. CASE Cancel
    <3>1. pc \in {"reject_start", "reject_body"} => ~Complete
      <4>1. Len(wire) = 1 => wire[1].type = "start"
        BY <1>i, StatusLine DEF ResponseInv
      <4> QED
        BY <1>i, <4>1 DEF FlagInv, Complete
    <3> QED
      BY <1>i, <1>u, <2>4, <3>1 DEF RefusalInv, Cancel
  <2>5. CASE ReceiveDisconnect \/ ClientLeaves
    <3>1. CASE ReceiveDisconnect
      <4>1. pc = "app" /\ pc' = "app" /\ exc' = exc
        BY <3>1 DEF ReceiveDisconnect
      <4> QED
        BY <1>i, <1>u, <4>1 DEF RefusalInv
    <3>2. CASE ClientLeaves
      <4>1. pc' = pc /\ exc' = exc
        BY <3>2 DEF ClientLeaves
      <4> QED
        BY <1>i, <1>u, <4>1 DEF RefusalInv
    <3> QED
      BY <2>5, <3>1, <3>2
  <2> QED
    BY <2>1, <2>2, <2>3, <2>4, <2>5
<1>6. LogInv'
  <2>1. pc' \in {"accepted", "limit", "app"} => log' = <<>>
    BY <1>i, <1>u, <1>p DEF LogInv
  <2>2. pc' \notin {"accepted", "server", "ended"} => bound' = request_id'
    BY <1>i, <1>u, <1>e, <1>p DEF LogInv
  <2>3. LogIds' /\ (pc' \notin {"server", "ended"} => NoSummary')
    BY <1>i, <1>u, <1>e DEF LogInv
  <2>4. pc' \in {"server", "ended"} => SummaryLast'
    BY <1>i, <1>u, <1>e DEF LogInv
  <2>5. pc' = "server" => log'[Len(log')].status = IF Started' THEN wire'[1].status
                                                   ELSE IF exc' = "Exception" THEN 500 ELSE 0
    BY <1>i, <1>u, <1>e DEF LogInv
  <2> QED
    BY <2>1, <2>2, <2>3, <2>4, <2>5 DEF LogInv
<1>7. OversizedIsRefused' /\ SummaryIsTrue' /\ IdsAgree'
  <2>1. OversizedIsRefused'
    BY <1>i, <1>u, <1>e DEF OversizedIsRefused
  <2>2. SummaryIsTrue'
    BY <1>i, <1>u, <1>e DEF SummaryIsTrue
  <2>3. IdsAgree'
    <3>1. CASE pc' = "ended"
      BY <1>i, <1>u, <1>e, <3>1 DEF IdsAgree
    <3>2. CASE pc' # "ended"
      BY <1>3, <1>6, <3>2 DEF IdsAgree, ResponseInv, Header, LogInv, LogIds
    <3> QED
      BY <3>1, <3>2
  <2> QED
    BY <2>1, <2>2, <2>3
<1> QED
  BY <1>1, <1>2, <1>3, <1>4, <1>5, <1>6, <1>7 DEF IInv

\* A step that sends the status line: the route's, an error's or the body limit's.
LEMMA StartStep ==
    ASSUME IInv, TypeOK', (\E code \in OwnStatus : AppStart(code)) \/ ErrorStart \/ RejectStart
    PROVE  IInv'
<1> USE DEF inputs, ids, counted
<1>i. /\ ExcInv /\ FlagInv /\ ResponseInv /\ CountInv /\ RefusalInv /\ LogInv /\ TypeOK
  BY DEF IInv
<1>u. /\ UNCHANGED <<content_length, inbound, body, received, delivered, request_id, bound, error,
                     exc, log>>
      /\ (LogIds' <=> LogIds) /\ (NoSummary' <=> NoSummary) /\ (SummaryLast' <=> SummaryLast)
      /\ Oversized' <=> Oversized
  BY LogsNothing DEF AppStart, ErrorStart, RejectStart, Oversized, DeclaredBodySize
<1>p. PICK c \in Status :
          /\ wire' = Append(wire, Start(c, request_id)) /\ status_code' = c /\ c # 0
          /\ \/ pc = "app" /\ pc' = "app" /\ c \in OwnStatus /\ response_started'
             \/ pc = "error_start" /\ pc' = "error_body" /\ response_started' /\ error # 0
             \/ /\ pc = "reject_start" /\ pc' = "reject_body" /\ c = 413
                /\ response_started' = response_started
  <2>1. 413 \in Status /\ 413 # 0
    BY DEF Status
  <2>2. ASSUME NEW code \in OwnStatus, AppStart(code)
        PROVE  /\ wire' = Append(wire, Start(code, request_id)) /\ status_code' = code
               /\ code \in Status /\ code # 0
               /\ pc = "app" /\ pc' = "app" /\ response_started'
    <3>1. code \in Status /\ code # 0
      BY DEF Status, OwnStatus
    <3> QED
      BY <2>2, <3>1 DEF AppStart, SendStart
  <2>3. CASE ErrorStart
    <3>1. /\ wire' = Append(wire, Start(error, request_id)) /\ status_code' = error
          /\ pc = "error_start" /\ pc' = "error_body" /\ response_started'
      BY <2>3 DEF ErrorStart, SendStart
    <3>2. error \in Status /\ error # 0
      BY <1>i, <3>1 DEF TypeOK, ResponseInv
    <3> QED
      BY <3>1, <3>2, Zenon
  <2>4. CASE RejectStart
    <3>1. /\ wire' = Append(wire, Start(413, request_id)) /\ status_code' = 413
          /\ pc = "reject_start" /\ pc' = "reject_body" /\ response_started' = response_started
      BY <2>4 DEF RejectStart, SendStart
    <3> QED
      BY <2>1, <3>1, Zenon
  <2> QED
    BY <2>2, <2>3, <2>4, Zenon
<1>s. ~Started
  BY <1>i DEF AppStart, ErrorStart, RejectStart, FlagInv
<1>w. /\ Len(wire') = 1 /\ Started' /\ ~Complete' /\ OneResponse'
      /\ wire'[1].status = c /\ wire'[1].id = request_id
  BY <1>i, <1>s, <1>p, SendsStart
<1>1. ExcInv' /\ CountInv'
  BY <1>i, <1>u, <1>p DEF ExcInv, CountInv
<1>2. FlagInv'
  BY <1>i, <1>p, <1>s, <1>w DEF FlagInv
<1>3. ResponseInv'
  <2>1. \A k \in 2..Len(wire') : FALSE
    <3>1. \A k \in 2..1 : FALSE
      OBVIOUS
    <3> QED
      BY <1>w, <3>1
  <2> QED
    BY <1>p, <1>u, <1>w, <2>1 DEF ResponseInv, Header
<1>4. RefusalInv'
  BY <1>i, <1>u, <1>p DEF RefusalInv
<1>5. LogInv'
  BY <1>i, <1>u, <1>p DEF LogInv
<1>6. OversizedIsRefused' /\ SummaryIsTrue'
  BY <1>p DEF OversizedIsRefused, SummaryIsTrue
<1>7. IdsAgree'
  BY <1>p, <1>3, <1>5 DEF IdsAgree, LogInv, LogIds, ResponseInv, Header
<1> QED
  BY <1>1, <1>2, <1>3, <1>4, <1>5, <1>6, <1>7 DEF IInv

\* A step that sends a part of the body: the route's, an error's or the body limit's.
LEMMA BodyStep ==
    ASSUME IInv, TypeOK', (\E more \in BOOLEAN : AppBody(more)) \/ ErrorBody \/ RejectBody
    PROVE  IInv'
<1> USE DEF inputs, ids, counted
<1>i. /\ ExcInv /\ FlagInv /\ ResponseInv /\ CountInv /\ RefusalInv /\ LogInv /\ TypeOK
  BY DEF IInv
<1>u. /\ UNCHANGED <<content_length, inbound, body, received, delivered, request_id, bound, error,
                     response_started, status_code, log>>
      /\ (LogIds' <=> LogIds) /\ (NoSummary' <=> NoSummary) /\ (SummaryLast' <=> SummaryLast)
      /\ Oversized' <=> Oversized
  BY LogsNothing DEF AppBody, ErrorBody, RejectBody, SendBody, Oversized, DeclaredBodySize
<1>1. PICK j \in Ids, more \in BOOLEAN :
          /\ wire' = Append(wire, Body(j, more))
          /\ \/ pc = "app" /\ pc' = "app" /\ exc' = exc
             \/ pc = "error_body" /\ pc' = "leave_limit" /\ j = request_id /\ ~more
             \/ pc = "reject_body" /\ pc' = "leave_logging" /\ j = request_id /\ ~more
  <2>1. "none" \in Ids /\ request_id \in Ids
    BY <1>i DEF Ids, TypeOK
  <2> QED
    BY <2>1 DEF AppBody, ErrorBody, RejectBody, SendBody
<1>2. Started /\ ~Complete /\ OneResponse
  <2>1. CASE pc = "app"
    BY <1>i, <1>1, <2>1 DEF AppBody, ErrorBody, RejectBody, FlagInv, ResponseInv
  <2>2. CASE pc \in {"error_body", "reject_body"}
    <3>1. Len(wire) = 1 /\ OneResponse
      BY <1>i, <2>2 DEF FlagInv, ResponseInv
    <3>2. wire # <<>>
      BY <3>1
    <3> QED
      BY <3>1, <3>2, StatusLine DEF Started, Complete
  <2> QED
    BY <1>1, <2>1, <2>2
<1>w. /\ Len(wire') = Len(wire) + 1 /\ Started' /\ OneResponse' /\ (Complete' <=> ~more)
      /\ wire'[Len(wire) + 1].id = j
      /\ \A k \in 1..Len(wire) : wire'[k] = wire[k]
  BY <1>i, <1>1, <1>2, SendsBody
<1>l. Len(wire) \in Nat /\ Len(wire) > 0 /\ wire'[1] = wire[1]
  <2>1. Len(wire) \in Nat /\ Len(wire) > 0
    BY <1>i, <1>2, Built, EmptySeq DEF Started
  <2> QED
    BY <1>w, <2>1
<1>r. /\ wire[1].id = request_id /\ wire[1].status # 0
      /\ ErrorResponse => \A k \in 2..Len(wire) : wire[k].id = request_id
      /\ ErrorResponse' <=> ErrorResponse
  BY <1>i, <1>u, <1>l, <1>1, <1>2 DEF ResponseInv, Header, ErrorResponse
<1>3. ExcInv' /\ CountInv'
  BY <1>i, <1>u, <1>1, <1>w DEF ExcInv, CountInv
<1>4. FlagInv'
  BY <1>i, <1>u, <1>1, <1>2, <1>w DEF FlagInv
<1>5. ResponseInv'
  <2>1. ErrorResponse => j = request_id
    <3>1. CASE pc = "app"
      <4>1. wire[1].status \in OwnStatus /\ \A k \in 1..Len(log) : FALSE
        BY <1>i, <1>2, <3>1 DEF ResponseInv, LogInv
      <4> QED
        BY <4>1 DEF ErrorResponse
    <3> QED
      BY <1>1, <3>1
  <2>2. ErrorResponse => \A k \in 2..Len(wire') : wire'[k].id = request_id
    <3> SUFFICES ASSUME ErrorResponse, NEW k \in 2..Len(wire')
                 PROVE  wire'[k].id = request_id
      OBVIOUS
    <3>1. CASE k = Len(wire) + 1
      BY <1>w, <2>1, <3>1
    <3>2. CASE k \in 2..Len(wire)
      <4>1. wire[k].id = request_id
        BY <1>r, <3>2
      <4>2. wire'[k] = wire[k]
        BY <1>w, <1>l, <3>2
      <4> QED
        BY <4>1, <4>2
    <3> QED
      BY <1>w, <1>l, <3>1, <3>2
  <2>3. Header'
    BY <1>u, <1>r, <1>l, <2>2 DEF Header
  <2>4. pc' = "app" => wire'[1].status \in OwnStatus
    BY <1>i, <1>1, <1>2, <1>l DEF ResponseInv
  <2>5. status_code' = wire'[1].status
    BY <1>i, <1>u, <1>1, <1>2, <1>l DEF ResponseInv
  <2> QED
    BY <1>1, <1>w, <2>3, <2>4, <2>5 DEF ResponseInv
<1>6. RefusalInv'
  <2> SUFFICES ASSUME Oversized
               PROVE  pc' = "leave_logging" /\ Complete' /\ wire'[1].status = 413
    BY <1>u DEF RefusalInv
  <2>1. pc = "reject_body"
    BY <1>i, <1>1 DEF RefusalInv
  <2> QED
    BY <1>i, <1>1, <1>w, <1>l, <2>1 DEF ResponseInv
<1>7. LogInv'
  BY <1>i, <1>u, <1>1 DEF LogInv
<1>8. OversizedIsRefused' /\ SummaryIsTrue'
  BY <1>1 DEF OversizedIsRefused, SummaryIsTrue
<1>9. IdsAgree'
  BY <1>1, <1>5, <1>7 DEF IdsAgree, LogInv, LogIds, ResponseInv, Header
<1> QED
  BY <1>3, <1>4, <1>5, <1>6, <1>7, <1>8, <1>9 DEF IInv

\* A message of the body is read: the count goes on, or it ends the request.
LEMMA ReceiveStep ==
    ASSUME IInv, TypeOK', ReceiveBody
    PROVE  IInv'
<1> USE DEF inputs, ids, counted
<1>i. /\ ExcInv /\ FlagInv /\ ResponseInv /\ CountInv /\ RefusalInv /\ LogInv /\ TypeOK
      /\ OversizedIsRefused /\ SummaryIsTrue /\ IdsAgree
  BY DEF IInv
<1>u. /\ UNCHANGED <<content_length, inbound, client, request_id, bound, error, response_started,
                     status_code, wire, log>>
      /\ (Started' <=> Started) /\ (Complete' <=> Complete) /\ (OneResponse' <=> OneResponse)
      /\ (Header' <=> Header)
      /\ (LogIds' <=> LogIds) /\ (NoSummary' <=> NoSummary) /\ (SummaryLast' <=> SummaryLast)
  BY SendsNothing, LogsNothing DEF ReceiveBody
<1>n. /\ received \in Nat /\ delivered \in Nat /\ Head(body) \in Nat /\ MaxBytes \in Nat
      /\ delivered = received
  <2>1. body \in Seq(ChunkSizes) /\ body # <<>>
    BY <1>i DEF ReceiveBody, TypeOK
  <2>2. Head(body) \in ChunkSizes
    BY <2>1, HeadTailProperties
  <2> QED
    BY <1>i, <2>2, SizesAssumption, LimitAssumption DEF ReceiveBody, CountInv, TypeOK
<1>d. ~\E n \in DeclaredBodySize : n > MaxBytes
  BY <1>i DEF ReceiveBody, RefusalInv, Oversized
<1>p. /\ pc = "app" /\ ~Complete /\ exc = "none" /\ received' = received + Head(body)
      /\ \/ /\ received' > MaxBytes /\ pc' = "leave_limit" /\ exc' = "_BodyTooLarge"
            /\ delivered' = delivered
         \/ /\ ~(received' > MaxBytes) /\ pc' = "app" /\ exc' = "none"
            /\ delivered' = delivered + Head(body)
  BY <1>i DEF ReceiveBody, Count, ExcInv
<1>1. ExcInv' /\ FlagInv'
  BY <1>i, <1>u, <1>p DEF ExcInv, FlagInv
<1>2. ResponseInv'
  BY <1>i, <1>u, <1>p DEF ResponseInv
<1>3. CountInv'
  <2>1. delivered' <= MaxBytes /\ (pc' = "app" => delivered' = received')
    <3>1. delivered <= MaxBytes
      BY <1>i DEF CountInv
    <3>2. /\ received' = received + Head(body)
          /\ \/ delivered' = delivered /\ pc' # "app"
             \/ ~(received' > MaxBytes) /\ delivered' = delivered + Head(body)
      BY <1>p
    <3> QED
      BY <1>n, <3>1, <3>2
  <2> QED
    BY <1>p, <2>1 DEF CountInv
<1>4. RefusalInv'
  <2>1. Oversized' => received' > MaxBytes
    BY <1>u, <1>d DEF Oversized, DeclaredBodySize
  <2> QED
    BY <1>u, <1>p, <2>1 DEF RefusalInv
<1>5. LogInv'
  BY <1>i, <1>u, <1>p DEF LogInv
<1>6. OversizedIsRefused' /\ SummaryIsTrue'
  BY <1>p DEF OversizedIsRefused, SummaryIsTrue
<1>7. IdsAgree'
  BY <1>p, <1>2, <1>5 DEF IdsAgree, LogInv, LogIds, ResponseInv, Header
<1> QED
  BY <1>1, <1>2, <1>3, <1>4, <1>5, <1>6, <1>7 DEF IInv

\* The application fails: a record is written, and the failure answered if nothing
\* has been sent.
LEMMA RaiseStep ==
    ASSUME IInv, TypeOK', NEW e \in DOMAIN Presentation \cup Unmapped, AppRaises(e)
    PROVE  IInv'
<1> USE DEF inputs, ids, counted
<1>i. /\ ExcInv /\ FlagInv /\ ResponseInv /\ CountInv /\ RefusalInv /\ LogInv /\ TypeOK
  BY DEF IInv
<1>u. /\ UNCHANGED <<content_length, inbound, body, received, delivered, client, request_id, bound,
                     response_started, status_code, wire>>
      /\ (Started' <=> Started) /\ (Complete' <=> Complete) /\ (OneResponse' <=> OneResponse)
      /\ Oversized' <=> Oversized
  BY SendsNothing DEF AppRaises, Oversized, DeclaredBodySize
<1>p. /\ pc = "app" /\ exc = "none"
      /\ \/ response_started /\ exc' = "Exception" /\ pc' = "leave_limit"
         \/ ~response_started /\ pc' = "error_start" /\ exc' = "none"
  BY <1>i DEF AppRaises, ExcInv
<1>c. PICK code \in Status : /\ error' = code /\ log' = Failed(code) /\ code # 0
                             /\ response_started => code = 500
  <2> DEFINE code == IF e \in DOMAIN Presentation /\ ~response_started
                     THEN Presentation[e] ELSE 500
  <2>1. code \in Status /\ code # 0 /\ (response_started => code = 500)
    BY Presented DEF Status, OwnStatus
  <2>2. error' = code /\ log' = Failed(code)
    BY DEF AppRaises
  <2> HIDE DEF code
  <2> QED
    BY <2>1, <2>2
<1>x. error' = code /\ log' = Append(log, Record("request_failed", code, request_id)) /\ code # 0
  BY <1>c DEF Failed
<1>s. (Started <=> response_started)
  BY <1>i, <1>p DEF FlagInv
<1>1. ExcInv' /\ FlagInv'
  BY <1>u, <1>p, <1>s, <1>i DEF ExcInv, FlagInv
<1>h. Started' => Header'
  <2> SUFFICES ASSUME Started PROVE Header'
    BY <1>u
  <2>1. wire[1].status \in OwnStatus /\ log = <<>> /\ Header /\ code = 500
    <3>1. code = 500
      BY <1>c, <1>s, Zenon
    <3> QED
      BY <1>i, <1>p, <3>1 DEF ResponseInv, LogInv
  <2>2. log' = <<Record("request_failed", 500, request_id)>>
    <3>1. log' = Append(<<>>, Record("request_failed", 500, request_id))
      BY <1>x, <2>1
    <3> QED
      BY <3>1
  <2>3. \A k \in 1..Len(log') : log'[k].status = 500
    BY <2>2 DEF Record
  <2>4. 500 \notin OwnStatus
    BY DEF OwnStatus
  <2>5. ~ErrorResponse'
    BY <1>u, <2>1, <2>3, <2>4 DEF ErrorResponse
  <2> QED
    BY <1>u, <2>1, <2>5 DEF Header
<1>2. ResponseInv'
  BY <1>i, <1>u, <1>h, <1>p, <1>x DEF ResponseInv
<1>3. CountInv' /\ RefusalInv'
  BY <1>i, <1>u, <1>p DEF CountInv, RefusalInv
<1>4. LogInv'
  <2>1. log \in Seq(LogRecord) /\ Record("request_failed", code, request_id) \in LogRecord
    BY <1>i, Built DEF TypeOK
  <2>2. /\ Len(log) \in Nat /\ Len(log') = Len(log) + 1
        /\ log'[Len(log) + 1] = Record("request_failed", code, request_id)
        /\ \A k \in 1..Len(log) : log'[k] = log[k]
    BY <1>x, <2>1, AppendProperties
  <2>3. /\ Record("request_failed", code, request_id).id = request_id
        /\ Record("request_failed", code, request_id).event # "http_request"
    BY DEF Record
  <2>4. /\ \A k \in 1..Len(log) : log[k].id = request_id /\ log[k].event # "http_request"
        /\ bound = request_id
    BY <1>i, <1>p DEF LogInv, LogIds, NoSummary
  <2>5. \A k \in 1..Len(log') : log'[k].id = request_id /\ log'[k].event # "http_request"
    <3> TAKE k \in 1..Len(log')
    <3>1. CASE k = Len(log) + 1
      BY <2>2, <2>3, <3>1
    <3>2. CASE k \in 1..Len(log)
      BY <2>2, <2>4, <3>2
    <3> QED
      BY <2>2, <3>1, <3>2
  <2>6. LogIds' /\ NoSummary'
    BY <1>u, <2>5 DEF LogIds, NoSummary
  <2> QED
    BY <1>u, <1>p, <2>4, <2>6 DEF LogInv
<1>5. OversizedIsRefused' /\ SummaryIsTrue'
  BY <1>p DEF OversizedIsRefused, SummaryIsTrue
<1>6. IdsAgree'
  BY <1>p, <1>2, <1>4 DEF IdsAgree, LogInv, LogIds, ResponseInv, Header
<1> QED
  BY <1>1, <1>2, <1>3, <1>4, <1>5, <1>6 DEF IInv

\* The request is given its id before anything is logged or sent under it.
LEMMA CorrelateStep ==
    ASSUME IInv, TypeOK', Correlate
    PROVE  IInv'
<1> USE DEF inputs, ids, counted
<1>i. /\ ExcInv /\ FlagInv /\ ResponseInv /\ CountInv /\ RefusalInv /\ LogInv /\ TypeOK
  BY DEF IInv
<1>u. /\ UNCHANGED <<content_length, inbound, body, received, delivered, client, error, exc,
                     response_started, status_code, wire, log>>
      /\ (Started' <=> Started) /\ (Complete' <=> Complete) /\ (OneResponse' <=> OneResponse)
      /\ Oversized' <=> Oversized
      /\ pc = "accepted" /\ pc' = "limit" /\ bound' = request_id'
  BY SendsNothing DEF Correlate, Oversized, DeclaredBodySize
<1>l. ~Started /\ Len(log') = 0
  BY <1>i, <1>u DEF FlagInv, LogInv
<1>1. ExcInv' /\ FlagInv' /\ CountInv' /\ RefusalInv'
  BY <1>i, <1>u DEF ExcInv, FlagInv, CountInv, RefusalInv
<1>2. ResponseInv'
  BY <1>i, <1>u, <1>l DEF ResponseInv
<1>3. LogInv'
  <2>1. \A k \in 1..Len(log') : FALSE
    BY <1>l
  <2> QED
    BY <1>u, <2>1 DEF LogInv, LogIds, NoSummary
<1>4. OversizedIsRefused' /\ SummaryIsTrue'
  BY <1>u DEF OversizedIsRefused, SummaryIsTrue
<1>5. IdsAgree'
  BY <1>u, <1>2, <1>3 DEF IdsAgree, LogInv, LogIds, ResponseInv, Header
<1> QED
  BY <1>1, <1>2, <1>3, <1>4, <1>5 DEF IInv

\* The summary is written: one last record, under the request's id, with the status
\* that went out.
LEMMA LoggingStep ==
    ASSUME IInv, TypeOK', LeaveLogging
    PROVE  IInv'
<1> USE DEF inputs, ids, counted
<1>i. /\ ExcInv /\ FlagInv /\ ResponseInv /\ CountInv /\ RefusalInv /\ LogInv /\ TypeOK
  BY DEF IInv
<1>u. /\ UNCHANGED <<content_length, inbound, body, received, delivered, client, request_id, error,
                     exc, response_started, wire>>
      /\ (Started' <=> Started) /\ (Complete' <=> Complete) /\ (OneResponse' <=> OneResponse)
      /\ Oversized' <=> Oversized
      /\ pc = "leave_logging" /\ pc' = "server"
  BY SendsNothing DEF LeaveLogging, Oversized, DeclaredBodySize
<1> DEFINE fail == IF exc = "Exception" THEN <<Record("http_request_failed", 0, bound)>> ELSE <<>>
           last == Summary
<1>1. bound = request_id /\ status_code = IF Started THEN wire[1].status ELSE 0
  BY <1>i, <1>u DEF LogInv, ResponseInv
<1>2. /\ last.event = "http_request" /\ last.id = request_id /\ last.status = LoggedStatus
  BY <1>1 DEF Summary, Record
<1>3. /\ log \in Seq(LogRecord) /\ fail \in Seq(LogRecord) /\ last \in LogRecord
      /\ \A k \in 1..Len(fail) : /\ fail[k].id = request_id
                                /\ fail[k].event \notin {"http_request", "request_failed"}
  <2>1. LoggedStatus \in Status /\ 0 \in Status
    <3>1. 0 \in Status /\ 500 \in Status
      BY DEF Status
    <3> QED
      BY <1>i, <3>1 DEF LoggedStatus, TypeOK
  <2>2. /\ log \in Seq(LogRecord) /\ last \in LogRecord
        /\ Record("http_request_failed", 0, bound) \in LogRecord
    BY <1>i, <2>1, Built DEF Summary, TypeOK
  <2>3. /\ Record("http_request_failed", 0, bound).id = request_id
        /\ Record("http_request_failed", 0, bound).event \notin {"http_request", "request_failed"}
    BY <1>1 DEF Record
  <2>4. \A l \in LogRecord : <<l>> \in Seq(LogRecord) /\ Len(<<l>>) = 1 /\ <<l>>[1] = l
    OBVIOUS
  <2>5. <<>> \in Seq(LogRecord) /\ Len(<<>>) = 0
    OBVIOUS
  <2> QED
    BY <2>2, <2>3, <2>4, <2>5
<1>4. log' = Append(log \o fail, last)
  <2>1. log' = (log \o fail) \o <<last>>
    BY DEF LeaveLogging
  <2>2. log \o fail \in Seq(LogRecord)
    BY <1>3, ConcatProperties
  <2> HIDE DEF fail, last
  <2> QED
    BY <1>3, <2>1, <2>2, AppendIsConcat
<1> HIDE DEF fail, last
<1>5. /\ Len(log) \in Nat /\ Len(fail) \in Nat /\ Len(log') = Len(log) + Len(fail) + 1
      /\ log'[Len(log')] = last
      /\ \A k \in 1..Len(log) : log'[k] = log[k]
      /\ \A k \in (Len(log) + 1)..(Len(log) + Len(fail)) : log'[k] = fail[k - Len(log)]
  <2>1. /\ log \o fail \in Seq(LogRecord) /\ Len(log \o fail) = Len(log) + Len(fail)
        /\ \A k \in 1..Len(log) + Len(fail) :
              (log \o fail)[k] = IF k <= Len(log) THEN log[k] ELSE fail[k - Len(log)]
    BY <1>3, ConcatProperties
  <2>2. /\ Len(log') = Len(log \o fail) + 1
        /\ \A k \in 1..Len(log \o fail) : log'[k] = (log \o fail)[k]
        /\ log'[Len(log \o fail) + 1] = last
    BY <1>3, <1>4, <2>1, AppendProperties
  <2>3. Len(log) \in Nat /\ Len(fail) \in Nat
    BY <1>3
  <2> QED
    BY <2>1, <2>2, <2>3
<1>6. ASSUME NEW k \in 1..Len(log')
      PROVE  log'[k].id = request_id /\ (log'[k].event = "http_request") = (k = Len(log'))
  <2>1. CASE k = Len(log')
    BY <1>2, <1>5, <2>1
  <2>2. CASE k \in 1..Len(log)
    <3>1. log[k].id = request_id /\ log[k].event # "http_request"
      BY <1>i, <1>u, <2>2 DEF LogInv, LogIds, NoSummary
    <3> QED
      BY <1>5, <2>2, <3>1
  <2>3. CASE k \in (Len(log) + 1)..(Len(log) + Len(fail))
    <3>1. k - Len(log) \in 1..Len(fail) /\ k # Len(log')
      BY <1>5, <2>3
    <3> QED
      BY <1>3, <1>5, <2>3, <3>1
  <2> QED
    BY <1>5, <2>1, <2>2, <2>3
<1>e. ErrorResponse' => ErrorResponse
  <2>1. ASSUME NEW k \in 1..Len(log'), log'[k].event = "request_failed"
        PROVE  k \in 1..Len(log) /\ log'[k] = log[k]
    <3>1. k # Len(log')
      BY <1>2, <1>5, <2>1
    <3>2. CASE k \in (Len(log) + 1)..(Len(log) + Len(fail))
      <4>1. k - Len(log) \in 1..Len(fail)
        BY <1>5, <3>2
      <4> QED
        BY <1>3, <1>5, <2>1, <3>2, <4>1
    <3>3. CASE k \in 1..Len(log)
      BY <1>5, <3>3
    <3> QED
      BY <1>5, <3>1, <3>2, <3>3
  <2> QED
    BY <1>u, <2>1 DEF ErrorResponse
<1>7. ExcInv' /\ FlagInv' /\ CountInv' /\ RefusalInv'
  <2>1. ExcInv'
    BY <1>i, <1>u DEF ExcInv
  <2>2. FlagInv'
    BY <1>i, <1>u DEF FlagInv
  <2>3. CountInv'
    BY <1>i, <1>u DEF CountInv
  <2>4. RefusalInv'
    BY <1>i, <1>u DEF RefusalInv
  <2> QED
    BY <2>1, <2>2, <2>3, <2>4
<1>8. ResponseInv'
  <2>1. Started' => Header'
    BY <1>i, <1>u, <1>e DEF ResponseInv, Header
  <2> QED
    BY <1>i, <1>u, <2>1 DEF ResponseInv
<1>9. LogInv'
  <2>1. last.status = IF Started THEN wire[1].status ELSE IF exc = "Exception" THEN 500 ELSE 0
    BY <1>i, <1>u, <1>1, <1>2 DEF LoggedStatus, ResponseInv, Header
  <2>2. LogIds' /\ SummaryLast'
    BY <1>u, <1>6 DEF LogIds, SummaryLast
  <2> QED
    BY <1>u, <1>5, <2>1, <2>2 DEF LogInv
<1>10. SummaryIsTrue'
  <2>1. /\ Started => wire'[1].status # 0
        /\ ~Started => exc \in {"Exception", "CancelledError"}
    BY <1>i, <1>u DEF ResponseInv, Header, ExcInv
  <2>2. log'[Len(log')].status =
            IF Started THEN wire'[1].status ELSE IF exc' = "Exception" THEN 500 ELSE 0
    BY <1>u, <1>9 DEF LogInv
  <2>3. \A k \in 1..Len(log') : (log'[k].event = "http_request") = (k = Len(log'))
    BY <1>6
  <2>4. log'[Len(log')].status = 0 => exc' = "CancelledError" /\ ~Started'
    <3>1. CASE Started
      BY <2>1, <2>2, <3>1
    <3>2. CASE ~Started
      <4>1. exc' = exc /\ ~Started'
        BY <1>u, <3>2
      <4>2. log'[Len(log')].status = IF exc = "Exception" THEN 500 ELSE 0
        BY <2>2, <3>2, <4>1
      <4> QED
        BY <2>1, <3>2, <4>1, <4>2
    <3> QED
      BY <3>1, <3>2
  <2>5. log'[Len(log')].status # 0 /\ Started' => wire'[1].status = log'[Len(log')].status
    BY <1>u, <2>2
  <2> QED
    BY <2>3, <2>4, <2>5 DEF SummaryIsTrue
<1>11. OversizedIsRefused'
  BY <1>u DEF OversizedIsRefused
<1>12. IdsAgree'
  BY <1>u, <1>8, <1>9 DEF IdsAgree, LogInv, LogIds, ResponseInv, Header
<1> QED
  BY <1>7, <1>8, <1>9, <1>10, <1>11, <1>12 DEF IInv

\* The server has the last word on a request that was never answered.
LEMMA ServerStep ==
    ASSUME IInv, TypeOK', ServerEnds
    PROVE  IInv'
<1> USE DEF inputs, ids, counted
<1>i. /\ ExcInv /\ FlagInv /\ ResponseInv /\ CountInv /\ RefusalInv /\ LogInv /\ TypeOK
      /\ SummaryIsTrue /\ IdsAgree
  BY DEF IInv
<1>u. /\ UNCHANGED <<content_length, inbound, body, received, delivered, client, request_id, bound,
                     error, exc, response_started, status_code, log>>
      /\ Oversized' <=> Oversized
      /\ (LogIds' <=> LogIds) /\ (NoSummary' <=> NoSummary) /\ (SummaryLast' <=> SummaryLast)
      /\ pc = "server" /\ pc' = "ended"
  BY LogsNothing DEF ServerEnds, Oversized, DeclaredBodySize
<1>1. CASE ~Started /\ client = "connected"
  <2>1. wire' = <<Start(500, "none"), Body("none", FALSE)>>
    BY <1>1 DEF ServerEnds
  <2>2. /\ Len(wire') = 2 /\ wire' # <<>>
        /\ wire'[1] = Start(500, "none") /\ wire'[2] = Body("none", FALSE)
    BY <2>1
  <2>3. /\ wire'[1].type = "start" /\ wire'[1].status = 500 /\ wire'[1].id = "none"
        /\ wire'[2].type = "body" /\ ~wire'[2].more
    BY <2>2 DEF Start, Body
  <2>4. Started' /\ Complete' /\ OneResponse'
    <3>1. \A k \in 1..2 : (wire'[k].type = "start") = (k = 1)
      BY <2>3
    <3>2. \A k \in 2..(2 - 1) : wire'[k].more
      OBVIOUS
    <3>3. OneResponse'
      BY <2>2, <3>1, <3>2 DEF OneResponse
    <3>4. Started'
      BY <2>2 DEF Started
    <3>5. Complete'
      <4>1. wire'[Len(wire')] = wire'[2]
        BY <2>2
      <4> QED
        BY <2>3, <3>4, <4>1 DEF Complete
    <3> QED
      BY <3>3, <3>4, <3>5
  <2>5. ~response_started /\ exc \in {"Exception", "CancelledError"} /\ ~Complete
    BY <1>i, <1>u, <1>1 DEF FlagInv, ExcInv, Complete
  <2>6. ExcInv' /\ FlagInv' /\ CountInv' /\ RefusalInv'
    BY <1>i, <1>u, <2>4 DEF ExcInv, FlagInv, CountInv, RefusalInv
  <2>7. ResponseInv' /\ LogInv'
    BY <1>i, <1>u, <2>4 DEF ResponseInv, LogInv
  <2>8. OversizedIsRefused'
    BY <1>i, <1>u, <2>3, <2>5 DEF OversizedIsRefused, RefusalInv
  <2>9. SummaryIsTrue'
    <3>1. log[Len(log)].status = IF exc = "Exception" THEN 500 ELSE 0
      BY <1>i, <1>u, <1>1 DEF LogInv
    <3> QED
      BY <1>i, <1>u, <2>3, <2>5, <3>1 DEF SummaryIsTrue
  <2>10. IdsAgree'
    BY <1>i, <1>u, <2>3, <2>5 DEF IdsAgree
  <2> QED
    BY <2>6, <2>7, <2>8, <2>9, <2>10 DEF IInv
<1>2. CASE ~(~Started /\ client = "connected")
  <2>1. UNCHANGED wire
    BY <1>2 DEF ServerEnds
  <2>2. /\ (Started' <=> Started) /\ (Complete' <=> Complete) /\ (OneResponse' <=> OneResponse)
        /\ (ErrorResponse' <=> ErrorResponse)
    BY <1>u, <2>1, SendsNothing
  <2>3. ExcInv' /\ FlagInv' /\ CountInv' /\ RefusalInv'
    BY <1>i, <1>u, <2>2 DEF ExcInv, FlagInv, CountInv, RefusalInv
  <2>4. ResponseInv' /\ LogInv'
    BY <1>i, <1>u, <2>2 DEF ResponseInv, LogInv
  <2>5. OversizedIsRefused'
    BY <1>i, <1>u, <2>1, <2>2 DEF OversizedIsRefused, RefusalInv
  <2>6. SummaryIsTrue'
    BY <1>i, <1>u, <2>1, <2>2 DEF SummaryIsTrue
  <2>7. IdsAgree'
    BY <1>i, <1>u, <2>1, <2>2 DEF IdsAgree
  <2> QED
    BY <2>3, <2>4, <2>5, <2>6, <2>7 DEF IInv
<1> QED
  BY <1>1, <1>2

-----------------------------------------------------------------------------
(* The theorems *)

\* An accepted request has sent and logged nothing.
LEMMA InitIInv == Init => IInv
<1> SUFFICES ASSUME Init PROVE IInv
  OBVIOUS
<1>1. TypeOK
  <2>1. body \in Seq(ChunkSizes)
    BY SizesAssumption DEF Init
  <2>2. "none" \in Ids /\ 0 \in Status
    BY DEF Ids, Status
  <2>3. \A S : <<>> \in Seq(S)
    OBVIOUS
  <2> QED
    BY <2>1, <2>2, <2>3 DEF Init, TypeOK
<1>2. ~Started /\ Len(wire) = 0 /\ Len(log) = 0
  BY DEF Init, Started
<1>3. OneResponse
  BY <1>2 DEF OneResponse
<1>4. CountInv
  BY LimitAssumption DEF Init, CountInv
<1>5. \A k \in 1..Len(log) : FALSE
  BY <1>2
<1> QED
  BY <1>1, <1>2, <1>3, <1>4, <1>5 DEF Init, IInv, ExcInv, FlagInv, ResponseInv, RefusalInv, LogInv,
     LogIds, NoSummary, OversizedIsRefused, SummaryIsTrue, IdsAgree

\* IInv is inductive.
LEMMA StepIInv == IInv /\ [Next]_vars => IInv'
<1> SUFFICES ASSUME IInv, [Next]_vars PROVE IInv'
  OBVIOUS
<1>t. TypeOK'
  BY TypeStep
<1>1. CASE UNCHANGED vars
  <2>1. (Oversized' <=> Oversized) /\ UNCHANGED wire
    BY <1>1 DEF vars, Oversized, DeclaredBodySize
  <2>2. /\ (Started' <=> Started) /\ (Complete' <=> Complete) /\ (OneResponse' <=> OneResponse)
        /\ (Header' <=> Header) /\ (ErrorResponse' <=> ErrorResponse)
        /\ (LogIds' <=> LogIds) /\ (NoSummary' <=> NoSummary)
        /\ (SummaryLast' <=> SummaryLast)
    BY <1>1, <2>1, SendsNothing, LogsNothing DEF vars
  <2>3. /\ ExcInv /\ FlagInv /\ ResponseInv /\ CountInv /\ RefusalInv /\ LogInv
        /\ OversizedIsRefused /\ SummaryIsTrue /\ IdsAgree
    BY DEF IInv
  <2>4. ExcInv' /\ FlagInv'
    BY <1>1, <2>2, <2>3 DEF vars, ExcInv, FlagInv
  <2>5. CountInv' /\ RefusalInv'
    <3>1. CountInv'
      BY <1>1, <2>3 DEF vars, CountInv
    <3>2. RefusalInv'
      BY <1>1, <2>1, <2>2, <2>3 DEF vars, RefusalInv
    <3> QED
      BY <3>1, <3>2
  <2>6. ResponseInv'
    BY <1>1, <2>2, <2>3 DEF vars, ResponseInv
  <2>7. LogInv'
    BY <1>1, <2>2, <2>3 DEF vars, LogInv
  <2>8. OversizedIsRefused' /\ SummaryIsTrue' /\ IdsAgree'
    BY <1>1, <2>1, <2>2, <2>3 DEF vars, OversizedIsRefused, SummaryIsTrue, IdsAgree
  <2> QED
    BY <1>t, <2>4, <2>5, <2>6, <2>7, <2>8 DEF IInv
<1> QED
  BY <1>t, <1>1, QuietStep, StartStep, BodyStep, ReceiveStep, RaiseStep, CorrelateStep, LoggingStep,
     ServerStep DEF Next, App, Middleware

\* The state keeps its types; no unsafe id of a client reaches a header or a record.
THEOREM Typing == Spec => []TypeOK
<1>1. IInv => TypeOK
  BY DEF IInv
<1> QED
  BY <1>1, InitIInv, StepIInv, PTL DEF Spec

\* Whatever the limit and however the body is cut, at most max_bytes are handed on.
THEOREM BoundedBody == Spec => []BodyBounded
<1>1. IInv => BodyBounded
  BY DEF IInv, CountInv, BodyBounded
<1> QED
  BY <1>1, InitIInv, StepIInv, PTL DEF Spec

\* Three senders make one response, however their messages interleave with reads,
\* failures and cancellation.
THEOREM OneResponseEver == Spec => []OneResponse
<1>1. IInv => OneResponse
  BY DEF IInv, ResponseInv
<1> QED
  BY <1>1, InitIInv, StepIInv, PTL DEF Spec

\* No oversized body ends in a success.
THEOREM OversizedRefused == Spec => []OversizedIsRefused
<1>1. IInv => OversizedIsRefused
  BY DEF IInv
<1> QED
  BY <1>1, InitIInv, StepIInv, PTL DEF Spec

\* The summary record tells the status that was sent.
THEOREM TrueSummary == Spec => []SummaryIsTrue
<1>1. IInv => SummaryIsTrue
  BY DEF IInv
<1> QED
  BY <1>1, InitIInv, StepIInv, PTL DEF Spec

\* Records, header and the body of every ErrorResponse carry one id, whichever of the
\* route, FastAPI, the handlers and the body limit answers.
THEOREM OneId == Spec => []IdsAgree
<1>1. IInv => IdsAgree
  BY DEF IInv
<1> QED
  BY <1>1, InitIInv, StepIInv, PTL DEF Spec

=============================================================================
