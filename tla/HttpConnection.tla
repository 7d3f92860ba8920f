------------------------------ MODULE HttpConnection ------------------------------
(***************************************************************************)
(* httplib::Server on one connection: process_server_socket, the requests  *)
(* it reads, routes and answers, and the client at the other end.          *)
(*                                                                         *)
(* The stream of the client is a sequence of pieces: a request line, a     *)
(* block of headers, data, and the lines of the chunked encoding.  A piece *)
(* is <<kind, r>>, r being the request it belongs to, so that it can be    *)
(* seen whether the server reads it as what it is.                         *)
(***************************************************************************)
EXTENDS Integers, Sequences, SequencesExt

CONSTANTS
  Requests,               \* the requests clients send: a set of records
  MaxRequests,            \* bound: requests of a connection
  keep_alive_max_count_,
  payload_max_length_,    \* in pieces of data
  read_buff_size_,        \* in pieces
  BodySize                \* pieces of data of a response with a body

ASSUME HttpConnectionAssumption ==
  /\ MaxRequests \in Nat /\ keep_alive_max_count_ \in Nat \ {0}
  /\ payload_max_length_ \in Nat
  /\ read_buff_size_ \in Nat \ {0} /\ BodySize \in Nat \ {0}

(***************************************************************************)
(* A request: its method; the value of Connection; an HTTP/1.0 version; a  *)
(* line or headers that do not parse, or a line too long; Range;           *)
(* Expect: 100-continue; Content-Encoding: gzip; how its content is        *)
(* delimited, its pieces, and what is in it; the value of Connection among *)
(* the fields that come after chunks.                                      *)
(***************************************************************************)
RequestType ==
  [method: {"GET", "HEAD", "POST", "DELETE", "PRI"}, connection: {"", "close", "Keep-Alive"},
   old: BOOLEAN, defect: {"none", "line", "long", "headers"},
   range: {"none", "bad", "inside", "open", "beyond"},
   expect: BOOLEAN, gzip: BOOLEAN, delimited: {"none", "length", "chunked", "bad_chunks"},
   size: Nat, form: {"none", "multipart", "no_boundary", "broken", "too_long"},
   trailer: {"", "close"}]

ASSUME RequestsAssumption == Requests \subseteq RequestType

VARIABLES
  pc,          \* where the worker is
  count,       \* requests it may still serve
  running,     \* svr_sock_ is valid
  wire,        \* what has arrived and is not read from the socket
  buffer,      \* read_buff_ of the SocketStream, from read_buff_off_ on
  req,         \* the request as it was read
  header,      \* the value of Connection in req.headers
  left,        \* pieces of content still to be read
  status, body, ranged,   \* of res, and need_apply_ranges
  connection_closed,
  last,        \* the response being written or written last
  request,     \* the client: the request it sent last,
  unsent,      \*             and what it has not sent of it
  asked, answered,        \* requests begun, final responses written
  tidy         \* history: nothing has happened that takes the two ends out of step

resVars    == <<status, body, ranged>>
clientVars == <<request, unsent, asked>>
vars == <<pc, count, running, wire, buffer, req, header, left, resVars, connection_closed,
          last, clientVars, answered, tidy>>

Content(r) ==
  CASE r.delimited \in {"none", "length"} -> [i \in 1 .. r.size |-> "data"]
    [] r.delimited = "bad_chunks" -> <<"size", "data", "data", "last", "crlf">>
    [] OTHER -> [i \in 1 .. 3 * r.size |-> <<"size", "data", "crlf">>[((i - 1) % 3) + 1]]
                \o <<"last", "crlf">>

Pieces(r) == [i \in 1 .. Len(Content(r)) + 2 |->
                IF i = 1 THEN <<"line", r>> ELSE
                IF i = 2 THEN <<"headers", r>> ELSE <<Content(r)[i - 2], r>>]

NoResponse == [status |-> 0, framing |-> "length", pieces |-> 0, body |-> "none",
               written |-> 0, whole |-> TRUE, close |-> FALSE, late |-> FALSE]

NoContent(r) == r.delimited = "none" /\ r.size = 0

expect_content(r) == r.method \in {"POST", "DELETE", "PRI"}

\* The request before its line is parsed
NoRequest == [method |-> "", connection |-> "", old |-> FALSE, defect |-> "none",
              range |-> "none", expect |-> FALSE, gzip |-> FALSE, delimited |-> "none",
              size |-> 0, form |-> "none", trailer |-> ""]

\* Requests that leave nothing unread, whatever is answered. The others are served, but what
\* the server reads as the next request is the rest of this one: a header block after a bad
\* line, content of a GET or HEAD, of an encoding not compiled in, of a form that is
\* refused before its end, chunks of a DELETE, what follows a bad Range or bad chunks.
Delimited(r) ==
  /\ r.defect = "none" \/ (r.defect = "long" /\ NoContent(r))
  /\ \/ NoContent(r)
     \/ /\ expect_content(r) /\ ~r.gzip /\ r.range # "bad" /\ r.delimited # "bad_chunks"
        /\ r.form \notin {"no_boundary", "broken"}
        /\ r.method = "DELETE" => r.delimited = "length"

Init ==
  /\ pc = "keep_alive" /\ count = keep_alive_max_count_ /\ running = TRUE
  /\ wire = <<>> /\ buffer = <<>>
  /\ request = NoRequest /\ req = NoRequest /\ unsent = <<>>
  /\ header = "" /\ left = 0
  /\ status = -1 /\ body = "none" /\ ranged = FALSE /\ connection_closed = FALSE
  /\ last = NoResponse
  /\ asked = 0 /\ answered = 0 /\ tidy = TRUE

-----------------------------------------------------------------------------
(***************************************************************************)
(* Reading                                                                 *)
(***************************************************************************)

readVars  == <<wire, buffer>>
serveVars == <<count, running, clientVars, last, answered>>

ReadingAt == {"line", "headers", "content", "skip", "until_close", "chunk", "chunk_end", "trailer"}

\* keep_alive, then a SocketStream for the next request
KeepAlive ==
  /\ pc = "keep_alive"
  /\ \/ ~running \/ count = 0
     \/ wire = <<>>                 \* the timeout, or the client has left
  /\ pc' = "closed"
  /\ UNCHANGED <<readVars, serveVars, req, header, left, resVars, connection_closed, tidy>>

BeginRequest ==
  /\ pc = "keep_alive" /\ running /\ wire # <<>>
  /\ pc' = "line" /\ buffer' = <<>>
  /\ UNCHANGED <<wire, serveVars, req, header, left, resVars, connection_closed, tidy>>

CountNotTested == BeginRequest   \* mutant
NextRequest    == BeginRequest /\ count > 0

\* SocketStream::read with an empty buffer
Fill ==
  /\ pc \in ReadingAt /\ buffer = <<>> /\ wire # <<>>
  /\ LET n == IF Len(wire) < read_buff_size_ THEN Len(wire) ELSE read_buff_size_ IN
     buffer' = SubSeq(wire, 1, n) /\ wire' = SubSeq(wire, n + 1, Len(wire))
  /\ UNCHANGED <<pc, serveVars, req, header, left, resVars, connection_closed, tidy>>

\* Reads one piece.
Get(at) ==
  /\ pc = at /\ buffer # <<>> /\ buffer' = Tail(buffer)
  /\ UNCHANGED <<wire, count, running, clientVars, answered>>
Kind    == Head(buffer)[1]

\* Answers status s with body b; ranges are applied if apply.
Answer(s, b, apply) == pc' = "head" /\ status' = s /\ body' = b /\ ranged' = apply

\* write_response
Refuse(s) == Answer(s, "none", FALSE)

parse_request_line(piece) == piece[1] = "line" /\ piece[2].defect # "line"

ReadRequestLine ==
  /\ Get("line") /\ last' = NoResponse
  /\ IF parse_request_line(Head(buffer))
     THEN pc' = "headers" /\ req' = Head(buffer)[2] /\ UNCHANGED resVars
     ELSE Refuse(400) /\ req' = NoRequest
  /\ UNCHANGED <<header, left, connection_closed, tidy>>

\* Lines that do not end with CR LF or do not parse are skipped; one that is too long ends
\* the headers, and those before it are taken.
read_headers ==
  header' \in {req.connection} \cup IF req.defect = "headers" THEN {""} ELSE {}

\* Headers, and what is decided by them up to the routing; a line that was too long is
\* answered after them, unparsed.
ReadHeaders ==
  /\ Get("headers") /\ UNCHANGED last
  /\ IF req.defect = "long"
     THEN Refuse(414) /\ req' = NoRequest /\ UNCHANGED <<header, connection_closed>>
     ELSE /\ UNCHANGED req
          /\ read_headers
          /\ IF req.defect = "headers" THEN Refuse(400) /\ UNCHANGED connection_closed
             ELSE /\ connection_closed' = (req.connection = "close"
                                           \/ (req.old /\ req.connection # "Keep-Alive"))
                  /\ IF req.range = "bad" THEN Refuse(416)
                     ELSE UNCHANGED resVars /\ pc' = IF req.expect THEN "expect" ELSE "route"
  /\ UNCHANGED <<left, tidy>>

Bodies == {"none", "content", "sized", "chunked", "endless"}

\* 100, or what the Expect handler says: after 417, too, the request is routed and answered
\* once more; any other status (here 403) is the answer, with the body the handler has set
\* and, as ranges are not applied, no length of it.
Expect ==
  /\ pc = "expect"
  /\ \/ \E s \in {100, 417} :
          /\ pc' = "route" /\ last' = [NoResponse EXCEPT !.status = s]
          /\ tidy' = (tidy /\ s = 100) /\ UNCHANGED resVars
     \/ (\E b \in Bodies : Answer(403, b, FALSE)) /\ UNCHANGED <<last, tidy>>
  /\ UNCHANGED <<readVars, count, running, clientVars, answered, req, header, left,
                 connection_closed>>

\* The content is not as it should be: answered by the server, or by the handler that reads
\* it with its content reader.
ContentFails(s) == Refuse(s) \/ \E b \in Bodies : Answer(s, b, TRUE)

\* All of it has been read. A form is found complete or not: HttpMultipart says when. One
\* that is urlencoded must not be too long.
ContentRead ==
  \/ req.form = "multipart" /\ ContentFails(400)
  \/ req.form = "too_long" /\ ContentFails(413)
  \/ req.form # "too_long" /\ pc' = "dispatch" /\ UNCHANGED resVars

\* A read that gets nothing: the client left, or sends nothing for the read timeout.
NothingAt(at) ==
  /\ pc \in at /\ buffer = <<>> /\ wire = <<>>
  /\ CASE pc = "line"        -> pc' = "closed" /\ UNCHANGED resVars
       [] pc = "headers"     -> Refuse(IF req.defect = "long" THEN 414 ELSE 400)
       [] pc = "until_close" -> ContentRead
       [] OTHER              -> ContentFails(IF pc = "skip" THEN 413 ELSE 400)
  /\ tidy' = (tidy /\ pc = "until_close" /\ unsent = <<>>)
  /\ UNCHANGED <<readVars, serveVars, req, header, left, connection_closed>>

TimeoutOfLinesOnly == NothingAt({"line", "headers", "until_close"})   \* mutant
ReadNothing        == NothingAt(ReadingAt)

-----------------------------------------------------------------------------
(***************************************************************************)
(* Routing, and reading the content                                        *)
(***************************************************************************)

\* prepare_content_receiver: zlib and brotli are not compiled in.
Unsupported(r) == r.gzip

GoTo(at) == pc' = at /\ UNCHANGED <<left, resVars>>

\* read_content_core, up to the first read
ReadContent ==
  IF req.form = "no_boundary" THEN ContentFails(400) /\ UNCHANGED left ELSE
  IF req.method = "DELETE" /\ req.delimited # "length" THEN GoTo("dispatch") ELSE
  IF Unsupported(req) THEN ContentFails(415) /\ UNCHANGED left ELSE
  IF req.delimited \in {"chunked", "bad_chunks"} THEN GoTo("chunk") ELSE
  IF req.delimited = "none" THEN GoTo("until_close") ELSE
  IF req.size = 0 THEN ContentRead /\ UNCHANGED left
  ELSE /\ pc' = IF req.size > payload_max_length_ THEN "skip" ELSE "content"
       /\ left' = req.size /\ UNCHANGED resVars

\* A handler sets a body, and a status or leaves that to the server. If it throws, its body
\* stays; an exception handler answers with ranges, the server without.
Handle(throws) ==
  \E b \in Bodies :
    IF throws THEN \E apply \in BOOLEAN : Answer(500, b, apply)
    ELSE \E s \in {-1, 404} : Answer(s, b, TRUE)

\* The pre-routing handler, or a handler with a content reader that does not use it
AnswerUnread ==
  /\ \E throws \in BOOLEAN : Handle(throws)
  /\ tidy' = (tidy /\ NoContent(req))

\* A file below a mount point
handle_file_request == req.method \in {"GET", "HEAD"} /\ Answer(-1, "sized", TRUE)

Route ==
  /\ pc = "route"
  /\ \/ AnswerUnread /\ UNCHANGED left
     \/ handle_file_request /\ UNCHANGED <<left, tidy>>
     \/ expect_content(req) /\ ReadContent /\ UNCHANGED tidy
     \/ ~expect_content(req) /\ pc' = "dispatch" /\ UNCHANGED <<left, resVars, tidy>>
  /\ UNCHANGED <<readVars, serveVars, req, header, connection_closed>>

Dispatch ==
  /\ pc = "dispatch"
  /\ IF req.method = "PRI" THEN Refuse(400)
     ELSE Refuse(404) \/ \E throws \in BOOLEAN : Handle(throws)
  /\ UNCHANGED <<readVars, serveVars, req, header, left, connection_closed, tidy>>

\* A piece of content goes to the receiver, which may refuse it, as the parser of a broken
\* form does.
ReadData ==
  /\ Get("content") /\ UNCHANGED last
  /\ left' = left - 1
  /\ \/ ContentFails(400) /\ tidy' = FALSE
     \/ /\ req.form # "broken" /\ UNCHANGED tidy
        /\ IF left > 1 THEN UNCHANGED <<pc, resVars>> ELSE
           IF req.delimited = "length" THEN ContentRead
           ELSE pc' = "chunk_end" /\ UNCHANGED resVars
  /\ UNCHANGED <<req, header, connection_closed>>

LeaveContent ==   \* mutant: content that is too long is left in the stream
  /\ pc = "skip" /\ ContentFails(413)
  /\ UNCHANGED <<readVars, serveVars, req, header, left, connection_closed, tidy>>

\* skip_content_with_length
SkipData ==
  /\ Get("skip") /\ UNCHANGED last
  /\ left' = left - 1
  /\ IF left > 1 THEN UNCHANGED <<pc, resVars>> ELSE ContentFails(413)
  /\ UNCHANGED <<req, header, connection_closed, tidy>>

\* read_content_without_length, to a receiver that may refuse
SwallowData ==
  /\ Get("until_close") /\ UNCHANGED last
  /\ \/ ContentFails(400) /\ tidy' = FALSE
     \/ req.form # "broken" /\ UNCHANGED <<pc, resVars, tidy>>
  /\ UNCHANGED <<req, header, left, connection_closed>>

\* The fields of a trailer go to req.headers, behind those that are there. (They come with
\* the empty line that ends them.)
read_trailer == header' = IF header = "" THEN Head(buffer)[2].trailer ELSE header

\* read_content_chunked: the line with the size, the line after the data, the trailer
ReadChunkLine ==
  /\ \/ /\ Get("chunk") /\ UNCHANGED header
        /\ CASE Kind = "size" -> pc' = "content" /\ left' = 1 /\ UNCHANGED resVars
             [] Kind = "last" -> pc' = "trailer" /\ UNCHANGED <<left, resVars>>
             [] OTHER -> ContentFails(400) /\ UNCHANGED left
     \/ /\ Get("chunk_end") /\ UNCHANGED <<left, header>>
        /\ IF Kind = "crlf" THEN pc' = "chunk" /\ UNCHANGED resVars ELSE ContentFails(400)
     \/ /\ Get("trailer") /\ UNCHANGED left
        /\ IF Kind = "crlf" THEN read_trailer /\ ContentRead
           ELSE UNCHANGED <<pc, header, resVars>>
  /\ UNCHANGED <<req, connection_closed, last, tidy>>

-----------------------------------------------------------------------------
(***************************************************************************)
(* The response                                                            *)
(***************************************************************************)

HasLength(b) == b \in {"content", "sized"}

\* range_error, for a response that is routed; it makes open ranges explicit, but only
\* those of a successful response
CheckRange ==
  /\ pc = "head" /\ status = -1
  /\ IF req.range = "beyond" \/ (req.range # "none" /\ ~HasLength(body)) THEN Refuse(416)
     ELSE /\ status' = IF req.range = "none" THEN 200 ELSE 206
          /\ pc' = "write" /\ UNCHANGED <<body, ranged>>
  /\ UNCHANGED <<readVars, serveVars, req, header, left, connection_closed, tidy>>

\* The error handler may set a body, which then gets its length. The ranges of a response
\* that is routed and not successful are used as they came, and it is asserted that they
\* lie within the content.
HandleError ==
  /\ pc = "head" /\ status >= 400
  /\ \/ UNCHANGED <<body, ranged>>
     \/ body' \in {body, "content"} /\ ranged' = TRUE
  /\ pc' = IF ranged /\ HasLength(body') /\ req.range \in {"open", "beyond"}
           THEN "aborted" ELSE "write"
  /\ UNCHANGED <<readVars, serveVars, req, header, left, status, connection_closed, tidy>>

AnnounceClose == count = 1 \/ header = "close"

\* connection_closed has been set by the headers; a trailer does not set it any more.
FromTrailer == count # 1 /\ header = "close" /\ req.connection = ""

\* write_response_core: the headers, with what apply_ranges adds to them
framing ==
  CASE body = "none" -> "length"
    [] ranged /\ HasLength(body) -> "length"
    [] ranged /\ body = "chunked" -> "chunked"
    [] OTHER -> "none"

\* What there is to be written; chunks end with an empty one.
BodyPieces ==
  IF body = "none" \/ req.method = "HEAD" THEN 0 ELSE
  IF body = "chunked" THEN BodySize + 1 ELSE BodySize

\* It is not looked at whether all of the head is written.
WriteHead ==
  /\ pc = "write"
  /\ \E whole \in BOOLEAN :
       last' = [status |-> status, framing |-> framing, pieces |-> BodyPieces, body |-> body,
                written |-> 0, whole |-> whole, close |-> AnnounceClose, late |-> FromTrailer]
  /\ pc' = IF BodyPieces = 0 THEN "sent" ELSE "body"
  /\ UNCHANGED <<readVars, count, running, clientVars, answered, req, header, left, resVars,
                 connection_closed, tidy>>

\* One more piece; it is the last if all have been written. Between the ranges of a provider
\* lines are written, of which it is not looked at whether they are.
WritePiece(lost) ==
  /\ last' = [last EXCEPT !.written = @ + 1, !.whole = @ /\ ~lost]
  /\ pc' = IF last.written + 1 = last.pieces THEN "sent" ELSE "body"

\* A body is written whole. The loop of a provider also ends, and successfully, when the
\* server is stopped: at its length, when the provider is done, or after the empty chunk.
\* (A provider is taken to call done(), not to write an empty piece.)
WriteUnlessStopped(lost) ==
  IF running THEN WritePiece(lost) ELSE pc' = "sent" /\ UNCHANGED last

write_data                   == body = "content" /\ WritePiece(FALSE)
write_content                == body = "sized"   /\ WriteUnlessStopped(FALSE)
write_content_without_length == body = "endless" /\ WriteUnlessStopped(FALSE)
write_content_chunked        == body = "chunked" /\ WriteUnlessStopped(FALSE)
write_multipart_ranges_data  ==
  body = "sized" /\ ranged /\ req.range # "none" /\ WriteUnlessStopped(TRUE)

WriteBody ==
  /\ pc = "body"
  /\ \/ write_data \/ write_content \/ write_content_without_length \/ write_content_chunked
     \/ write_multipart_ranges_data
  /\ UNCHANGED <<readVars, count, running, clientVars, answered, req, header, left, resVars,
                 connection_closed, tidy>>

\* The provider fails, or the client does not read any more.
FailureIgnored ==   \* mutant: as for the head
  /\ pc = "body" /\ pc' = "sent"
  /\ UNCHANGED <<readVars, serveVars, req, header, left, resVars, connection_closed, tidy>>

WriteFails ==
  /\ pc = "body" /\ pc' = "closed"
  /\ UNCHANGED <<readVars, serveVars, req, header, left, resVars, connection_closed, tidy>>

\* process_server_socket_core after process_request, whose variables end with it
EndRequestWith(closing) ==
  /\ pc = "sent"
  /\ IF closing THEN pc' = "closed" /\ UNCHANGED count
     ELSE pc' = "keep_alive" /\ count' = count - 1
  /\ answered' = answered + 1
  /\ req' = NoRequest /\ header' = "" /\ left' = 0 /\ connection_closed' = FALSE
  /\ status' = -1 /\ body' = "none" /\ ranged' = FALSE
  /\ UNCHANGED <<readVars, running, clientVars, last, tidy>>

StayOpen   == EndRequestWith(FALSE)   \* mutant: connection_closed is not looked at
EndRequest == EndRequestWith(connection_closed)

-----------------------------------------------------------------------------
(***************************************************************************)
(* The client (external), and stop()                                       *)
(***************************************************************************)

workerVars == <<pc, count, running, buffer, req, header, left, resVars, connection_closed,
                last, answered>>

\* A client asks after it has the answer to its request before, if it can tell where that
\* ends. (Of two requests sent at once, what is in the buffer when the first is answered
\* would be thrown away with it.) It sends a request in pieces.
Open == pc \notin {"closed", "aborted"}

Ask ==
  /\ Open /\ unsent = <<>> /\ asked < MaxRequests
  /\ answered >= asked /\ last.framing # "none" /\ last.whole
  /\ \E r \in Requests :
       /\ request' = r /\ unsent' = Pieces(r)
       /\ tidy' = (tidy /\ Delimited(r))
  /\ asked' = asked + 1
  /\ UNCHANGED <<workerVars, wire>>

\* The content of a request with Expect waits for 100, or takes the chance to be left unread.
WaitsFor100 ==
  request.expect /\ unsent = SubSeq(Pieces(request), 3, Len(Pieces(request))) /\ last.status # 100

Send ==
  /\ Open /\ unsent # <<>>
  /\ wire' = Append(wire, Head(unsent)) /\ unsent' = Tail(unsent)
  /\ tidy' = (tidy /\ ~WaitsFor100)
  /\ UNCHANGED <<workerVars, request, asked>>

\* It is not sent after another response.
KeepContent ==
  /\ unsent # <<>> /\ WaitsFor100 /\ answered = asked
  /\ unsent' = <<>>
  /\ UNCHANGED <<workerVars, wire, request, asked, tidy>>

\* Where svr_sock_ is looked at
Stop ==
  /\ running /\ running' = FALSE
  /\ pc \in {"keep_alive", "body"}
  /\ UNCHANGED <<pc, count, readVars, req, header, left, resVars, connection_closed, last,
                 clientVars, answered, tidy>>

Worker ==
  \/ KeepAlive \/ NextRequest \/ Fill \/ ReadRequestLine \/ ReadHeaders \/ ReadNothing
  \/ Expect \/ Route \/ ReadData \/ SkipData \/ SwallowData \/ ReadChunkLine \/ Dispatch
  \/ CheckRange \/ HandleError \/ WriteHead \/ WriteBody \/ WriteFails \/ EndRequest

Client == Ask \/ Send \/ KeepContent

Next == Worker \/ Client \/ Stop

Spec == Init /\ [][Next]_vars

\* The worker runs; its waits end by their timeouts.
FairSpec == Spec /\ WF_vars(Worker)

-----------------------------------------------------------------------------
(***************************************************************************)
(* Properties                                                              *)
(***************************************************************************)

Kinds == {"line", "headers", "data", "size", "crlf", "last"}

\* Every variable holds a value of its type; what is left of the content is what the loops
\* that read it still expect.
TypeOK ==
  /\ pc \in {"keep_alive", "line", "headers", "expect", "route", "content", "skip",
             "until_close", "chunk", "chunk_end", "trailer", "dispatch", "head", "write",
             "body", "sent", "closed", "aborted"}
  /\ count \in 0 .. keep_alive_max_count_ /\ running \in BOOLEAN
  /\ \A s \in {wire, buffer, unsent} : \A i \in DOMAIN s : s[i][1] \in Kinds /\ s[i][2] \in Requests
  /\ {req, request} \subseteq Requests \cup {NoRequest}
  /\ header \in {"", "close", "Keep-Alive"} /\ left \in Nat
  /\ pc \in {"content", "skip"} => left > 0
  /\ status \in {-1, 200, 206, 400, 403, 404, 413, 414, 415, 416, 500} /\ body \in Bodies
  /\ ranged \in BOOLEAN /\ connection_closed \in BOOLEAN
  /\ tidy \in BOOLEAN
  /\ asked \in 0 .. MaxRequests /\ answered \in Nat

\* As long as nothing has happened that the code does not provide for (see Delimited and
\* where tidy becomes FALSE), server and client agree where a request ends: the server
\* reads its next line at the beginning of a request, has answered every request before it
\* once, and nothing of them is left to be read, however the content came in and whatever
\* was answered.
InStep ==
  tidy =>
    /\ pc = "line" /\ buffer # <<>> => Kind = "line"
    /\ pc = "keep_alive" =>
         IF answered = asked THEN wire = <<>> /\ (unsent = <<>> \/ WaitsFor100)
         ELSE answered = asked - 1 /\ wire \o unsent = Pieces(request)

\* A connection stays open only after a response all of whose body has been written; its
\* head and the lines between ranges are excepted (~last.whole): if they could not be
\* written, and what followed them could, the client is left on an open connection with a
\* response it cannot tell the end of. Nor can it when the headers do not say how long the
\* body is, which is so only for a provider without length, after an exception, and when
\* the Expect handler has answered with a body.
Framed ==
  pc = "keep_alive" =>
    /\ running => last.written = last.pieces
    /\ last.framing = "none" => last.body = "endless" \/ last.status \in {403, 500}

\* No request is served on a connection after a response that announced its end, except if
\* the headers with Connection: close could not be parsed to their end, or the field came
\* in the trailer, for which the end is announced (last.late) and the connection kept.
ClosedAsAnnounced == pc = "line" => ~last.close \/ last.status = 400 \/ last.late

\* Every request begun is answered or its connection is closed, at the latest by a
\* timeout, whatever the client leaves out.
Answered ==
  \A k \in 1 .. MaxRequests :
    asked >= k ~> answered >= k \/ pc \in {"closed", "aborted"}

\* The ranges applied to a response lie within its content: the assertions of
\* get_range_offset_and_length.
RangeIsInContent == pc # "aborted"

=============================================================================
