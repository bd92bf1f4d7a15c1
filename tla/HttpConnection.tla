--------------------------- MODULE HttpConnection ---------------------------
(***************************************************************************)
(* One client connection through core/http.c, handle_connection and        *)
(* handle_one of core/http_server.c and the dispatch of http_router.c: the *)
(* bytes a client sends, how they are read as headers, body and next       *)
(* request, and what becomes of the connection.  A byte stands for a run   *)
(* of bytes of one request: the two halves of its header and its body.     *)
(***************************************************************************)
EXTENDS RequestMemory, FiniteSets

CONSTANTS
    MaxRequests,   \* bound: requests a client sends on a connection
    MaxBody,       \* bound: bytes of a body
    MaxServed,     \* stands for the 64 requests of handle_connection
    DrainGuard,    \* stands for the 4096 reads of drain_body
    HeaderMax,     \* HTTP_MAX_HEADER - 1
    JsonMax,       \* REQUEST_JSON_MAX
    BlockSizes     \* sizes handlers allocate

ASSUME HttpAssumption ==
    /\ {MaxRequests, MaxBody, MaxServed, DrainGuard, HeaderMax, JsonMax} \subseteq Nat
    /\ BlockSizes \subseteq Nat

VARIABLES
    client,    \* external: what the peer has sent and received
    wire,      \* bytes sent and not yet received
    pc,        \* where the server's thread is
    req,       \* g_request
    served,    \* requests handled on this connection
    read       \* history: ids of the requests parsed, and how

connVars == <<client, wire, pc, req, served, read>>
vars == <<client, wire, pc, req, served, read, mem_used, blocks, mark>>

Byte(id, part, head) == [id |-> id, part |-> part, head |-> head]
Head1(h) == Byte(h.id, "head", h)
Head2(h) == Byte(h.id, "end", h)
NoHead == [id |-> 0]
BodyByte(id) == Byte(id, "body", NoHead)

NoRequest == [buf |-> <<>>]
Fresh == [open |-> TRUE, sent |-> 0, pending |-> 0, answers |-> 0, piped |-> FALSE]

Init ==
    /\ client = Fresh
    /\ wire = <<>>
    /\ pc = "header"
    /\ req = NoRequest
    /\ served = 0
    /\ read = <<>>
    /\ MemInit

(* ---- the client ---- *)

(* A header.  Without pipelining it waits for the last answer; a client    *)
(* that does not wait is told apart by piped.                              *)
SendHeader(length, expect) ==
    /\ expect => length > 0
    /\ client.open /\ client.pending = 0 /\ client.sent < MaxRequests
    /\ LET id == client.sent + 1
           h == [id |-> id, has_length |-> length >= 0, expect |-> expect,
                 length |-> IF length >= 0 THEN length ELSE 0]
       IN  /\ wire' = wire \o <<Head1(h), Head2(h)>>
           /\ client' = [client EXCEPT !.sent = id, !.pending = h.length,
                                       !.piped = @ \/ client.answers < client.sent]
    /\ UNCHANGED <<pc, req, served, read, memVars>>

(* The body, as slowly as the client likes (it may wait for 100 Continue). *)
SendBody ==
    /\ client.open /\ client.pending > 0
    /\ wire' = Append(wire, BodyByte(client.sent))
    /\ client' = [client EXCEPT !.pending = @ - 1]
    /\ UNCHANGED <<pc, req, served, read, memVars>>

HangUp ==
    /\ client.open
    /\ client' = [client EXCEPT !.open = FALSE]
    /\ UNCHANGED <<wire, pc, req, served, read, memVars>>

(* ---- reading a request ---- *)

Close == pc' = "closed" /\ req' = NoRequest

(* recv hands over any part of what has arrived, up to the space left.     *)
Received(space) == {SubSeq(wire, 1, n) : n \in {k \in DOMAIN wire : k <= space}}

io_recv(got) == wire' = SubSeq(wire, Len(got) + 1, Len(wire))

HeaderEnd(buf) == CHOOSE i \in DOMAIN buf :
                     buf[i].part = "end" /\ \A j \in 1..(i - 1) : buf[j].part # "end"

(* http_read_request and the first lines of handle_one.  What follows the  *)
(* end of the headers is kept as body_leftover, and only for this request. *)
Parsed(buf) ==
    LET e == HeaderEnd(buf)
        h == buf[e].head
    IN  /\ req' = [id |-> h.id, has_length |-> h.has_length, length |-> h.length,
                   expect |-> h.expect, sent_100 |-> FALSE, keep |-> TRUE,
                   leftover |-> SubSeq(buf, e + 1, Len(buf)), consumed |-> 0,
                   handler |-> "none", guard |-> 0, own |-> TRUE]
        /\ pc' = "dispatch"
        /\ read' = Append(read, [id |-> h.id, clean |-> buf[1] = Head1(h)])

http_read_request ==
    /\ pc = "header"
    /\ \E got \in Received(HeaderMax - Len(req.buf)) :
         LET buf == req.buf \o got IN
         /\ io_recv(got)
         /\ IF \E i \in DOMAIN buf : buf[i].part = "end" THEN Parsed(buf)
            ELSE /\ UNCHANGED read
                 /\ IF Len(buf) = HeaderMax THEN Close
                    ELSE req' = [buf |-> buf] /\ UNCHANGED pc
    /\ UNCHANGED <<client, served, memVars>>

(* The peer closed, or sent nothing for HTTP_IO_TIMEOUT_MS.                *)
HeaderTimeout ==
    /\ pc = "header" /\ wire = <<>>
    /\ Close
    /\ UNCHANGED <<client, wire, served, read, memVars>>

(* ---- dispatch and handlers ---- *)

(* 401 and the errors and handlers that leave the body alone; OPTIONS, GET *)
(* /mcp and clients that ask for it (Connection: close, HTTP/1.0), which   *)
(* end the connection; a streamed upload; a JSON body.                     *)
http_server_dispatch ==
    /\ pc = "dispatch"
    /\ \E handler \in {"ignore", "close", "stream", "json"} :
          /\ handler = "stream" => req.has_length                    \* 411
          /\ handler = "json" /\ req.has_length => req.length <= JsonMax  \* 413
          /\ req' = [req EXCEPT !.handler = handler,
                                !.keep = @ /\ handler # "close"]
          /\ pc' = IF handler \in {"stream", "json"} THEN "body" ELSE "memory"
    /\ UNCHANGED <<client, wire, served, read, memVars>>

(* Handlers take request memory in any order request.h allows (bound: in   *)
(* the first request, when it has no body, and before anything follows).   *)
UseMemory ==
    /\ pc = "memory" /\ Len(read) = 1 /\ wire = <<>> /\ client.open
    /\ req.length = 0 /\ req.handler = "ignore" /\ client.sent = 1
    /\ \/ \E size \in BlockSizes : request_alloc(size)
       \/ request_alloc_rest
       \/ \E used \in BlockSizes : request_trim(used)
       \/ request_mark
       \/ request_rewind
    /\ UNCHANGED connVars

(* The response, and the release at the end of http_server_dispatch.       *)
Respond ==
    /\ pc = "memory"
    /\ client' = [client EXCEPT !.answers = IF client.open THEN @ + 1 ELSE @]
    /\ request_release
    /\ IF req.keep THEN pc' = "drain" /\ UNCHANGED req ELSE Close
    /\ UNCHANGED <<wire, served, read>>

(* ---- http_read_body, called by a handler and by drain_body ---- *)

Reading == pc \in {"body", "drain"}
Remaining == req.length - req.consumed
AtEnd ==
    \/ req.has_length /\ Remaining = 0
    \/ pc = "body" /\ req.handler = "json" /\ req.consumed >= JsonMax
    \/ pc = "drain" /\ ~req.has_length
MayRead == Reading /\ ~AtEnd /\ ~(pc = "drain" /\ req.guard >= DrainGuard)

(* Bug: the length asked for is not cut to what remains of the body.       *)
Wanted_uncut == MaxBody + 2
Wanted == IF req.has_length THEN Remaining ELSE JsonMax - req.consumed

(* What http_read_body copies, with own as the history of whose bytes.     *)
Taking(got, left) ==
    req' = [req EXCEPT !.leftover = left,
                       !.consumed = @ + Len(got),
                       !.guard = IF pc = "drain" THEN @ + 1 ELSE @,
                       !.own = @ /\ \A i \in DOMAIN got : got[i] = BodyByte(req.id)]

(* Bytes that came with the headers first.                                 *)
ReadLeftover ==
    /\ MayRead /\ req.leftover # <<>>
    /\ LET n == IF Len(req.leftover) < Wanted THEN Len(req.leftover) ELSE Wanted IN
       Taking(SubSeq(req.leftover, 1, n), SubSeq(req.leftover, n + 1, Len(req.leftover)))
    /\ UNCHANGED <<client, wire, pc, served, read, memVars>>

(* 100 Continue before the first read from the socket, and only then; a    *)
(* drain may send it after the answer.                                     *)
SendContinue ==
    /\ MayRead /\ req.leftover = <<>>
    /\ req.expect /\ ~req.sent_100
    /\ req' = [req EXCEPT !.sent_100 = TRUE]
    /\ UNCHANGED <<client, wire, pc, served, read, memVars>>

ReadSocket ==
    /\ MayRead /\ req.leftover = <<>>
    /\ req.expect => req.sent_100
    /\ \E got \in Received(Wanted) : io_recv(got) /\ Taking(got, <<>>)
    /\ UNCHANGED <<client, pc, served, read, memVars>>

(* Bug: io_recv waits for as long as the peer likes.                       *)
ReadTimeout_never ==
    /\ MayRead /\ req.leftover = <<>> /\ ~client.open
    /\ wire = <<>>
    /\ req.expect => req.sent_100
    /\ IF pc = "drain" THEN Close ELSE pc' = "memory" /\ UNCHANGED req
    /\ UNCHANGED <<client, wire, served, read, memVars>>

(* io_recv: the peer closed (0), or was silent for ten seconds (-1).  A    *)
(* handler answers with what it has; drain_body gives the connection up.   *)
ReadTimeout ==
    /\ MayRead /\ req.leftover = <<>>
    /\ wire = <<>>
    /\ req.expect => req.sent_100
    /\ IF pc = "drain" THEN Close ELSE pc' = "memory" /\ UNCHANGED req
    /\ UNCHANGED <<client, wire, served, read, memVars>>

(* The body has been read: the handler goes on and answers.                *)
BodyDone ==
    /\ pc = "body" /\ AtEnd
    /\ pc' = "memory"
    /\ UNCHANGED <<client, wire, req, served, read, memVars>>

(* ---- after the answer ---- *)

(* Bug: what the handler left of the body is not drained.                  *)
drain_body_skipped ==
    /\ pc = "drain"
    /\ pc' = "keep" /\ UNCHANGED req
    /\ UNCHANGED <<client, wire, served, read, memVars>>

drain_body ==
    /\ pc = "drain"
    /\ \/ AtEnd /\ pc' = "keep" /\ UNCHANGED req
       \/ ~AtEnd /\ req.guard >= DrainGuard /\ Close
    /\ UNCHANGED <<client, wire, served, read, memVars>>

(* handle_connection stays when the next request, or the peer's FIN, is    *)
(* there within 50 ms, and for MaxServed requests at most.  The next       *)
(* http_read_request begins by clearing g_request.                         *)
KeepConnection ==
    /\ pc = "keep"
    /\ served' = served + 1
    /\ \/ served' < MaxServed /\ (wire # <<>> \/ ~client.open)
          /\ pc' = "header" /\ req' = NoRequest
       \/ Close
    /\ UNCHANGED <<client, wire, read, memVars>>

(* close_client, and the next connection accepted.                         *)
NextConnection ==
    /\ pc = "closed"
    /\ client' = Fresh /\ wire' = <<>> /\ pc' = "header"
    /\ req' = NoRequest /\ served' = 0 /\ read' = <<>>
    /\ UNCHANGED memVars

Server ==
    \/ http_read_request \/ HeaderTimeout \/ http_server_dispatch \/ UseMemory \/ Respond
    \/ ReadLeftover \/ SendContinue \/ ReadSocket \/ ReadTimeout \/ BodyDone
    \/ drain_body \/ KeepConnection \/ NextConnection

(* The server's thread without the open choice of how long a handler goes  *)
(* on allocating.                                                          *)
Progress ==
    \/ http_read_request \/ HeaderTimeout \/ http_server_dispatch \/ Respond
    \/ ReadLeftover \/ SendContinue \/ ReadSocket \/ ReadTimeout \/ BodyDone
    \/ drain_body \/ KeepConnection

Next ==
    \/ \E length \in -1..MaxBody, expect \in BOOLEAN : SendHeader(length, expect)
    \/ SendBody \/ HangUp
    \/ Server

Spec == Init /\ [][Next]_vars /\ WF_vars(Progress)

(* ---- what the properties rest on ---- *)

Header == {h \in [id : Nat, has_length : BOOLEAN, expect : BOOLEAN, length : Nat] :
              h.has_length \/ h.length = 0}
Cell == [id : Nat, part : {"head", "end", "body"}, head : Header \cup {NoHead}]
Request ==
    [id : Nat, has_length : BOOLEAN, length : Nat, expect : BOOLEAN, sent_100 : BOOLEAN,
     keep : BOOLEAN, leftover : Seq(Cell), consumed : Nat,
     handler : {"none", "ignore", "close", "stream", "json"}, guard : Nat, own : BOOLEAN]
Serving == pc \in {"dispatch", "body", "memory", "drain", "keep"}

TypeOK ==
    /\ client \in [open : BOOLEAN, sent : Nat, pending : Nat, answers : Nat, piped : BOOLEAN]
    /\ wire \in Seq(Cell)
    /\ pc \in {"header", "dispatch", "body", "memory", "drain", "keep", "closed"}
    /\ req \in IF Serving THEN Request ELSE [buf : Seq(Cell)]
    /\ served \in Nat
    /\ read \in Seq([id : Nat, clean : BOOLEAN])

(* Only a handler that reads the body is at it, and a stream has a length. *)
Handling ==
    pc = "body" => \/ req.handler = "json"
                   \/ req.handler = "stream" /\ req.has_length

(* What the server has still to look at: what it received beyond the place *)
(* it has read to, and what is on the wire.                                *)
Ahead == IF Serving THEN req.leftover ELSE req.buf
Incoming == Ahead \o wire

(* The n cells of S after the first i are the body of id, as far as the    *)
(* client c has sent it.                                                   *)
BodyAt(c, S, i, id, n) ==
    /\ \A j \in 1..n : i + j <= Len(S) => S[i + j] = BodyByte(id)
    /\ i + n > Len(S) => c.sent = id /\ c.pending = i + n - Len(S)

(* Every header is followed by its body, also when its beginning is lost.  *)
Framed(c, S) ==
    \A i \in 1..Len(S) : S[i].part = "end" =>
        S[i].head \in Header /\ BodyAt(c, S, i, S[i].head.id, S[i].head.length)

(* The rest of the body being read is what comes next.                     *)
BodyNext ==
    Serving /\ req.has_length =>
        /\ req.own
        /\ req.consumed <= req.length
        /\ BodyAt(client, Incoming, 0, req.id, Remaining)

(* Nothing is left of the body of a request that is over.                  *)
Drained ==
    Serving => /\ ~req.has_length => req.length = 0
               /\ pc = "keep" /\ req.has_length => Remaining = 0

(* For a client that waits for its answers: the rest of this body and, at  *)
(* most, one more request are on their way.                                *)
Rest == IF Serving THEN Remaining ELSE 0
Follower(c, S, r) ==
    /\ Len(S) >= r + 2
    /\ LET h == S[r + 1].head IN
       /\ h \in Header /\ h.id = c.sent
       /\ S[r + 1] = Head1(h) /\ S[r + 2] = Head2(h)
       /\ Len(S) + c.pending = r + 2 + h.length
InStep ==
    ~client.piped =>
        /\ \A i \in DOMAIN read : read[i].id = i /\ read[i].clean
        /\ Serving => Rest >= 0 /\ Len(Ahead) <= Rest
        /\ pc # "closed" =>
              /\ client.answers <= Len(read)
              /\ pc \in {"dispatch", "body", "memory"} =>
                    client.answers < Len(read) /\ client.sent = Len(read)
              /\ \/ client.sent = Len(read) /\ Len(Incoming) + client.pending = Rest
                 \/ client.sent = Len(read) + 1 /\ Follower(client, Incoming, Rest)

IInv ==
    /\ TypeOK /\ MemInv /\ Handling
    /\ Framed(client, Incoming) /\ BodyNext /\ Drained /\ InStep

(* http_server.c:65 "so the next request on a kept-alive connection starts *)
(* on a clean boundary": for a client that waits for its answers, the      *)
(* requests parsed are the ones sent, in order, each from its first byte.  *)
CleanBoundary ==
    client.piped \/ \A i \in DOMAIN read : read[i].id = i /\ read[i].clean

(* Neither a handler nor the drain takes bytes of another request for the  *)
(* body of this one, even when the client pipelines, as long as the client *)
(* gave a length (http_read_body cuts every read to what remains of it).   *)
BodyIsOwn == pc \in {"body", "memory", "drain", "keep"} /\ req.has_length => req.own

(* http_server.c:154-155 "a stalled client can't wedge the server": whatever   *)
(* the peer sends or leaves out, the thread leaves the connection.         *)
ConnectionEnds == (pc # "closed") ~> (pc = "closed")
=============================================================================
