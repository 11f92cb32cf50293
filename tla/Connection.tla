----------------------------- MODULE Connection -----------------------------
(***************************************************************************)
(* One accepted connection: the byte stream of its client, the socket with *)
(* its requeue buffer (cflare-posix/socket.c), and the loop of             *)
(* cflare_request_process_socket that reads, parses and answers requests   *)
(* on it (request.c), with the "Request" hook as the handler.              *)
(*                                                                         *)
(* Bytes are positions 1, 2, ... in the stream.  Request i is HeadLen[i]   *)
(* bytes of head, the last one the newline of the blank line, and          *)
(* BodyLen[i] bytes of content.  What the server has read but not yet      *)
(* parsed is always a stretch that ends at the last byte received, so its  *)
(* length says it all.  Whether a head parses, and whether it asks to keep *)
(* the connection, is left open.                                           *)
(*                                                                         *)
(* Bounds: the requests the client has to send (HeadLen, BodyLen), BufMax  *)
(* for CFLARE_REQUEST_MAX_LENGTH (4096), SizeT for the range of size_t     *)
(* (2^64), ChunkLens the lengths a handler asks content_chunk for.  ResMax *)
(* is CFLARE_RESPONSE_MAX_LENGTH (4096); HeaderLens, LengthLen, ServerLen  *)
(* and DateLen are the bytes that the handler's header lines and those     *)
(* named take in the response's buffer, KeepLen and CloseLen those of the  *)
(* two forms of Connection.                                                *)
(***************************************************************************)
EXTENDS Integers, Sequences

CONSTANTS HeadLen, BodyLen,   \* lengths of each request's head and content
          BufMax, SizeT, ChunkLens,
          ResMax, HeaderLens, LengthLen, ServerLen, DateLen, KeepLen, CloseLen

N == Len(HeadLen)

ASSUME ConnectionAssumption ==
    /\ HeadLen \in Seq(Nat \ {0}) /\ BodyLen \in [1..N -> 0..(SizeT - 1)]
    /\ BufMax \in Nat \ {0} /\ SizeT \in Nat /\ SizeT > BufMax
    /\ ChunkLens \subseteq 0..BufMax
    /\ ResMax \in 1..(SizeT - 1) /\ HeaderLens \subseteq Nat \ {0}
    /\ {LengthLen, ServerLen, DateLen, KeepLen, CloseLen} \subseteq Nat \ {0}

\* End[i]: where request i ends in the stream.
End[i \in 0..N] == IF i = 0 THEN 0 ELSE End[i - 1] + HeadLen[i] + BodyLen[i]
HeadEnd(i) == End[i - 1] + HeadLen[i]
Total == End[N]

VARIABLES
    sent,         \* bytes the client has sent
    open,         \* the client has not closed its side
    taken,        \* bytes recv has returned
    requeue,      \* socket->requeue_length: that many bytes before taken
    connected,    \* socket->connected
    closed,       \* socket->fd is -1
    pc,           \* where process_socket is
    nbytes,       \* bytes of this request in req->buffer
    frag,         \* bytes cflare_socket_read got from the requeue buffer
    cur,          \* the request whose head was parsed last
    unread,       \* req->content_length_unread
    buffered,     \* req->buffer_unread
    keepalive,    \* req->keepalive
    resKeep,      \* req->response.keepalive
    resSent,      \* req->response.sent
    resPos,       \* req->response.buffer_pos
    served,       \* requests given to the handler so far
    answered,     \* responses written so far
    delivered,    \* bytes of content given to the handler for this request
    astray,       \* a handler returned an error, returned without answering, or
                  \* said to keep a connection that its answer could not keep
    dismissed,    \* the server ended the connection, or could not write to it
    overrun,      \* a copy of content went past the end of a buffer
    late          \* a header was added after the response was sent

client == <<sent, open>>
socket == <<taken, requeue, connected, closed>>
request == <<nbytes, frag, cur, unread, buffered, keepalive>>
response == <<resKeep, resSent, resPos>>
history == <<served, answered, delivered, astray, dismissed, overrun, late>>
vars == <<client, socket, pc, request, response, history>>

Init ==
    /\ sent = 0 /\ open = TRUE
    /\ taken = 0 /\ requeue = 0 /\ connected = TRUE /\ closed = FALSE
    /\ pc = "start"
    /\ nbytes = 0 /\ frag = 0 /\ cur = 0 /\ unread = 0 /\ buffered = 0 /\ keepalive = TRUE
    /\ resKeep = TRUE /\ resSent = FALSE /\ resPos = 0
    /\ served = 0 /\ answered = 0 /\ delivered = 0
    /\ astray = FALSE /\ dismissed = FALSE /\ overrun = FALSE /\ late = FALSE

Lesser(a, b) == IF a < b THEN a ELSE b
Greater(a, b) == IF a > b THEN a ELSE b
Minus(a, b) == (a - b) % SizeT       \* subtraction of size_t

-----------------------------------------------------------------------------
(* The client.                                                             *)

ClientSends ==
    /\ open /\ \E n \in (sent + 1)..Total : sent' = n
    /\ UNCHANGED <<open, socket, pc, request, response, history>>

ClientCloses ==
    /\ open /\ open' = FALSE
    /\ UNCHANGED <<sent, socket, pc, request, response, history>>

-----------------------------------------------------------------------------
(* Reading and parsing a request head.                                     *)

\* cflare_request_process_socket begins: the request and response are reset.
Begin ==
    /\ pc = "start"
    /\ nbytes' = 0 /\ keepalive' = TRUE
    /\ resKeep' = TRUE /\ resSent' = FALSE /\ resPos' = 0
    /\ delivered' = 0 /\ late' = FALSE
    /\ pc' = "read"
    /\ UNCHANGED <<client, socket, frag, cur, unread, buffered, served, answered,
                   astray, dismissed, overrun>>

\* cflare_socket_read on a socket that is not connected fails at once; otherwise
\* it first empties the requeue buffer, then goes on to lthread_recv.
ReadNotConnected ==
    /\ pc = "read" /\ ~connected
    /\ pc' = "refuse"
    /\ UNCHANGED <<client, socket, request, response, history>>

ReadRequeue ==
    /\ pc = "read" /\ connected
    /\ frag' = Lesser(requeue, BufMax - nbytes)
    /\ requeue' = requeue - frag'
    /\ pc' = "recv"
    /\ UNCHANGED <<client, taken, connected, closed, nbytes, cur, unread, buffered,
                   keepalive, response, history>>

\* Where the bytes of this request start, once "more" bytes were received, and
\* the requests whose head ends among the first n of them.
HeadsWithin(first, n) == {i \in 1..N : HeadEnd(i) > first /\ HeadEnd(i) <= first + n}

\* What the header lines and the version say: how much content follows, and
\* whether the connection is to be kept.
HeadersSay(i) == unread' = BodyLen[i] /\ keepalive' \in BOOLEAN

\* The head that was parsed, what it says, and the bytes left in the buffer.
Parsed(first, n) ==
    LET i == CHOOSE i \in HeadsWithin(first, n) : \A j \in HeadsWithin(first, n) : i <= j
    IN  /\ cur' = i
        /\ buffered' = first + n - HeadEnd(i)
        /\ HeadersSay(i)

\* cflare_socket_read returned n new bytes, t received in all: a full buffer is
\* "request too long", a head that has ended is parsed and may be refused,
\* otherwise read on.
GotBytes(n, t) ==
    LET all   == nbytes + n
        first == t - requeue - all
        heads == HeadsWithin(first, all)
    IN  /\ nbytes' = all
        /\ \/ /\ all = BufMax
              /\ pc' = "refuse" /\ dismissed' = TRUE
              /\ UNCHANGED <<cur, unread, buffered, keepalive, served>>
           \/ /\ all # BufMax /\ heads = {}
              /\ pc' = "read"
              /\ UNCHANGED <<cur, unread, buffered, keepalive, served, dismissed>>
           \/ /\ all # BufMax /\ heads # {}
              /\ Parsed(first, all)
              /\ \/ pc' = "handler" /\ served' = served + 1 /\ UNCHANGED dismissed
                 \/ pc' = "refuse" /\ dismissed' = TRUE /\ UNCHANGED served

RecvData ==
    /\ pc = "recv"
    /\ \E n \in 1..Lesser(sent - taken, BufMax - nbytes - frag) :
          /\ taken' = taken + n
          /\ GotBytes(frag + n, taken')
    /\ UNCHANGED <<client, requeue, connected, closed, frag, response,
                   answered, delivered, astray, overrun, late>>

\* A slip: with bytes from the requeue buffer at hand, recv waits for more of them.
RecvWaitsForMore ==
    /\ pc = "recv"
    /\ sent = taken /\ frag = 0
    /\ pc' = "refuse"
    /\ connected' = open
    /\ UNCHANGED <<client, taken, requeue, closed, request, response, history>>

\* lthread_recv returned nothing: no room was left, the client is gone, or the
\* 600 s are over.  Bytes from the requeue buffer are still a successful read;
\* with none, end of file (unlike a reset) marks the socket as not connected.
RecvNothing ==
    /\ pc = "recv"
    /\ sent = taken \/ BufMax = nbytes + frag
    /\ \/ /\ frag > 0
          /\ GotBytes(frag, taken)
          /\ UNCHANGED connected
       \/ /\ frag = 0
          /\ pc' = "refuse"
          /\ connected' \in {open, TRUE}
          /\ UNCHANGED <<nbytes, cur, unread, buffered, keepalive, served, dismissed>>
    /\ UNCHANGED <<client, taken, requeue, closed, frag, response,
                   answered, delivered, astray, overrun, late>>

\* quick_response_socket(..., false): answer if it can be written, and close.
Refuse ==
    /\ pc = "refuse"
    /\ closed' = TRUE /\ connected' = FALSE
    /\ pc' = "close"
    /\ UNCHANGED <<client, taken, requeue, request, response, history>>

\* process_socket returned false: worker_thread closes and deletes the socket.
\* Closing it again does nothing.
CloseSocket ==
    /\ pc = "close"
    /\ closed' = TRUE /\ connected' = FALSE
    /\ pc' = "over"
    /\ UNCHANGED <<client, taken, requeue, request, response, history>>

-----------------------------------------------------------------------------
(* The handler and the response.                                           *)

\* cflare_socket_write.  It fails, and closes the socket, when the client is
\* gone or does not take the bytes within the socket's timeout.
Writes ==
    \/ /\ connected /\ answered' = answered + 1
       /\ UNCHANGED <<connected, closed>>
    \/ /\ connected' = FALSE /\ closed' = (connected \/ closed)
       /\ UNCHANGED answered

WriteFails == connected /\ ~connected'

\* A slip: no room is kept for the newline behind the headers.
AddedTight(pos, len) == IF len > Minus(ResMax, pos) THEN pos ELSE pos + len

\* cflare_response_header: buffer_pos behind a header line of len bytes, which
\* is left out when it does not fit; sizes are size_t.
Added(pos, len) == IF len > Minus(Minus(ResMax, pos), 1) THEN pos ELSE pos + len

\* send_headers of a response that was not sent: the server's own headers are
\* added, it is settled whether the connection is kept, and the status line, the
\* headers with a newline behind them, and the data are written; the newline
\* comes after the status line.
SendHeaders(pos) ==
    LET end == Added(Added(Added(pos, ServerLen), DateLen), IF resKeep' THEN KeepLen ELSE CloseLen) IN
    /\ resKeep' = (keepalive /\ resKeep /\ unread = 0)
    /\ resSent' = TRUE
    /\ Writes
    /\ resPos' \in (IF connected' THEN {end + 1} ELSE {end, end + 1})

\* cflare_response_data: Content-Length, then send_headers, which refuses a
\* second response.
ResponseData ==
    LET pos == Added(resPos, LengthLen) IN
    \/ /\ ~resSent /\ SendHeaders(pos)
       /\ UNCHANGED late
    \/ /\ resSent /\ resPos' = pos /\ late' = TRUE
       /\ UNCHANGED <<connected, closed, resKeep, resSent, answered>>

\* Bytes written past the end of response.buffer: anything may follow.
Continues(l) == pc' = IF resPos' > ResMax THEN "undefined" ELSE l

\* cflare_response_keepalive.  A handler may call it before it answers, when
\* send_headers still settles what can be kept, or after: then this is what
\* process_socket returns, although the rest of this request was not read or the
\* client was told that the connection ends.
ResponseKeepalive ==
    /\ pc = "handler"
    /\ \E keep \in BOOLEAN :
          /\ resKeep' = keep
          /\ astray' = (astray \/ (resSent /\ keep /\ ~(keepalive /\ unread = 0)))
    /\ UNCHANGED <<client, socket, pc, request, resSent, resPos,
                   served, answered, delivered, dismissed, overrun, late>>

\* cflare_response_header, called by the handler.
ResponseHeader ==
    /\ pc = "handler"
    /\ \E len \in HeaderLens : resPos' = Added(resPos, len)
    /\ late' = (late \/ resSent)
    /\ Continues(pc)
    /\ UNCHANGED <<client, socket, request, resKeep, resSent, served, answered, delivered,
                   astray, dismissed, overrun>>

\* A slip: send_headers does not look at res->sent.
RespondAgain ==
    /\ pc = "handler"
    /\ SendHeaders(Added(resPos, LengthLen))
    /\ Continues(pc)
    /\ dismissed' = (dismissed \/ WriteFails)
    /\ UNCHANGED <<client, taken, requeue, request, served, delivered, astray, overrun, late>>

\* cflare_response_data, called by the handler.
Respond ==
    /\ pc = "handler"
    /\ ResponseData
    /\ Continues(pc)
    /\ dismissed' = (dismissed \/ WriteFails)
    /\ UNCHANGED <<client, taken, requeue, request, served, delivered, astray, overrun>>

\* cflare_request_content_chunk with bytes in the buffer, whether or not content
\* is unread.  The copy is as long as the greater of what is wanted and what is
\* buffered; when they differ it runs past the end of one of the two buffers.
ChunkFromBuffer ==
    /\ pc = "handler" /\ buffered > 0
    /\ \E len \in ChunkLens :
          LET want     == Lesser(unread, len)
              readable == Greater(want, buffered)
          IN  /\ buffered' = Minus(buffered, readable)
              /\ unread' = Minus(unread, readable)
              /\ delivered' = delivered + readable
              /\ overrun' = (readable > want \/ readable > buffered)
    /\ pc' = IF overrun' THEN "undefined" ELSE pc
    /\ UNCHANGED <<client, socket, nbytes, frag, cur, keepalive, response,
                   served, answered, astray, dismissed, late>>

\* The same call with nothing in the buffer: read from the socket...
ChunkFromSocket ==
    /\ pc = "handler" /\ buffered = 0 /\ connected
    /\ \E len \in ChunkLens : \E n \in 1..Lesser(sent - taken, Lesser(unread, len)) :
          /\ taken' = taken + n
          /\ unread' = unread - n
          /\ delivered' = delivered + n
    /\ UNCHANGED <<client, requeue, connected, closed, pc, nbytes, frag, cur, buffered, keepalive,
                   response, served, answered, astray, dismissed, overrun, late>>

\* ... which may find the client gone...
ChunkFails ==
    /\ pc = "handler" /\ buffered = 0 /\ connected
    /\ \E len \in ChunkLens : Lesser(unread, len) > 0
    /\ sent = taken /\ ~open
    /\ connected' = FALSE
    /\ UNCHANGED <<client, taken, requeue, closed, pc, request, response, history>>

\* ... and asserts that there is something to read for, which fails when the
\* content was read to its end or the handler's buffer has no room.
ChunkAborts ==
    /\ pc = "handler" /\ buffered = 0 /\ connected
    /\ \E len \in ChunkLens : Lesser(unread, len) = 0
    /\ pc' = "abort"
    /\ UNCHANGED <<client, socket, request, response, history>>

\* A slip: the bytes after this request are not given back to the socket.
RequeueNothing(stays) == UNCHANGED requeue

\* cflare_socket_requeue of what is left in the buffer, if the connection stays.
Requeue(stays) == requeue' = IF stays THEN requeue + buffered ELSE requeue

\* The hook is done; result is "none" when no integer was returned.  The rest of
\* the buffer goes back to the socket, on "none" a 500 is sent (or refused, if the
\* handler has answered), and response.keepalive says whether the loop in worker_thread
\* goes on or closes the socket.
HandlerReturns ==
    /\ pc = "handler"
    /\ \E result \in {"none", "zero", "error"} :
          /\ Requeue(keepalive /\ unread = 0 /\ result # "error")
          /\ \/ result = "none" /\ ResponseData
             \/ result # "none" /\ UNCHANGED <<connected, closed, response, answered, late>>
          /\ astray' = (astray \/ result = "error" \/ (result = "zero" /\ ~resSent))
    /\ Continues(IF resKeep' THEN "start" ELSE "close")
    /\ dismissed' = (dismissed \/ WriteFails \/ ~resKeep')
    /\ UNCHANGED <<client, taken, request, served, delivered, overrun>>

-----------------------------------------------------------------------------
Serve ==
    \/ Begin \/ ReadNotConnected \/ ReadRequeue \/ RecvData \/ RecvNothing \/ Refuse
    \/ CloseSocket \/ ResponseKeepalive \/ ResponseHeader \/ Respond
    \/ ChunkFromBuffer \/ ChunkFromSocket \/ ChunkFails \/ ChunkAborts \/ HandlerReturns

Next == ClientSends \/ ClientCloses \/ Serve

Spec == Init /\ [][Next]_vars

\* The coroutine keeps running: recv comes back at the latest when the 600 s of
\* worker_thread are over, and a handler returns.
FairSpec == Spec /\ WF_vars(Serve) /\ WF_vars(HandlerReturns)

-----------------------------------------------------------------------------
\* Every variable has its type.
TypeOK ==
    /\ sent \in 0..Total /\ taken \in 0..sent /\ requeue \in 0..taken
    /\ {open, connected, closed, keepalive, resKeep, resSent, astray, dismissed, overrun, late} \subseteq BOOLEAN
    /\ pc \in {"start", "read", "recv", "refuse", "handler", "close", "over",
              "undefined", "abort"}
    /\ nbytes \in 0..BufMax /\ frag \in 0..BufMax /\ cur \in 0..N
    /\ unread \in 0..(SizeT - 1) /\ buffered \in 0..(SizeT - 1) /\ resPos \in Nat
    /\ served \in Nat /\ answered \in Nat /\ delivered \in Nat

\* The stream stays framed: however it was cut into pieces, and with whatever
\* was read ahead, process_socket starts each request at the byte after the
\* previous one, skips none, and the handler's content is that request's - as
\* long as no handler returned an error, went without answering, or had the
\* connection kept behind an answer that could not keep it.
Framed ==
    ~astray =>
        /\ pc = "start" => taken - requeue = End[served]
        /\ pc = "handler" =>
              /\ cur = served
              /\ taken - requeue - buffered + unread = End[cur]
              /\ delivered + unread = BodyLen[cur]

\* On a connection that is kept every request got one answer before the next is
\* read, so answers and pipelined requests correspond.
InStep ==
    ~astray =>
        /\ answered <= served
        /\ pc \in {"start", "read", "recv"} => answered = served \/ ~connected

\* A request that was sent whole while the connection goes on is answered, unless
\* the server says so: it refuses a head, returns from a handler without keeping
\* the connection, or cannot write.  Running out of bytes to receive is no such
\* reason: a request that waits in the requeue buffer is served, not forgotten
\* and not dropped while recv waits for more.
EveryRequestAnswered ==
    \A i \in 1..N :
        sent >= End[i] /\ pc \notin {"refuse", "close", "over", "undefined", "abort"}
            ~> answered >= i \/ astray \/ dismissed \/ pc \in {"undefined", "abort"}

\* The response's header lines, however many the handler adds, with those of the
\* server and the newline that send_headers puts behind them, stay within
\* response.buffer - as long as nothing is added once the response was sent.
ResponseFits == ~late => resPos <= ResMax

\* request.c, cflare_request_content_chunk: "find the smallest" - a chunk is no
\* longer than the room the caller gave and no longer than what is buffered.
ChunkInBounds == ~overrun
=============================================================================
