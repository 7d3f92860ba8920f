--------------------------- MODULE HttpConnectionProofs ---------------------------
(***************************************************************************)
(* Proofs about HttpConnection, for requests of every kind and number, any *)
(* sizes and any order of pieces, reads, timeouts and failures: a          *)
(* connection ends when a response has said so, and stays open only behind *)
(* a response that is complete; its variables keep their types; and server *)
(* and client agree where a request ends.                                  *)
(***************************************************************************)
EXTENDS HttpConnection, SequenceTheorems, TLAPS

\* From the routing to the end of the content
Middle == {"expect", "route", "content", "skip", "until_close", "chunk", "chunk_end",
           "trailer", "dispatch"}

\* The value of a header that is not there. (SMT is not given the empty string.)
Absent == ""

\* Connection: close in the request is remembered until the response has repeated it, unless
\* the headers it is in are answered 400, or it is in the trailer, behind headers without
\* Connection; a connection that has announced its end is closed next, or has no request left.
Closing ==
  /\ count \in Nat /\ (pc \in {"keep_alive", "closed", "aborted"} \/ count > 0)
  /\ pc \in {"keep_alive", "line", "headers"} => header # "close"
  /\ pc \in Middle /\ header = "close" => connection_closed \/ req.connection = Absent
  /\ pc \in Middle /\ header = Absent => req.connection = Absent
  /\ pc \in {"head", "write"} /\ header = "close" =>
       connection_closed \/ req.connection = Absent \/ status = 400
  /\ pc \in {"body", "sent"} /\ last.close =>
       connection_closed \/ count = 1 \/ last.status = 400 \/ last.late
  /\ pc = "keep_alive" /\ last.close => count = 0 \/ last.status = 400 \/ last.late
  /\ pc = "line" /\ last.close => last.status = 400 \/ last.late

\* Headers that say how long a body is come with it, except after an exception and in an
\* answer of the Expect handler; a body is written to its end before the next round, unless
\* the server is stopping.
Measured ==
  /\ body \in Bodies
  /\ pc \in {"head", "write"} => body = "none" \/ ranged \/ status \in {403, 500}
  /\ pc \in {"body", "sent", "keep_alive"} /\ last.framing = "none" =>
       last.body = "endless" \/ last.status \in {403, 500}
  /\ pc \in {"sent", "keep_alive"} /\ running => last.written = last.pieces

IInv == Closing /\ Measured

\* An answer: what is decided when pc goes to "head"
Answering == body' \in Bodies /\ (body' = "none" \/ ranged' \/ status' \in {403, 500})

answerVars == <<count, running, req, connection_closed>>

\* A field of the trailer does not replace one of the headers.
HeaderStays == header' = header \/ header = Absent

-----------------------------------------------------------------------------

\* A request that is refused is answered before the next one is read.
LEMMA Refused == ASSUME NEW s, Refuse(s) PROVE pc' = "head" /\ Answering
BY DEF Refuse, Answer, Answering, Bodies

\* So is one whose content cannot be read.
LEMMA Failed == ASSUME NEW s, ContentFails(s) PROVE pc' = "head" /\ Answering
BY Refused DEF ContentFails, Answer, Answering

\* And one that a handler has taken.
LEMMA Handled == ASSUME NEW t \in BOOLEAN, Handle(t) PROVE pc' = "head" /\ Answering
BY DEF Handle, Answer, Answering

\* What has read the content answers or goes on with it.
LEMMA Read ==
  ASSUME ContentRead
  PROVE  \/ pc' = "head" /\ Answering
         \/ pc' = "dispatch" /\ body' = body
BY Failed DEF ContentRead, resVars

\* A step from the routing to the end of the content stays there, or answers.
LEMMA MiddleStep ==
  ASSUME IInv, pc \in Middle, UNCHANGED answerVars, HeaderStays,
         \/ pc' = "head" /\ Answering
         \/ pc' \in Middle /\ body' = body
  PROVE  IInv'
BY DEF IInv, Closing, Measured, Middle, Answering, answerVars, HeaderStays

\* IInv holds at first.
LEMMA InitIInv == Init => IInv
<1> SUFFICES ASSUME Init PROVE IInv
  OBVIOUS
<1>1. /\ pc = "keep_alive" /\ count \in Nat /\ header = "" /\ body = "none"
      /\ last.framing = "length" /\ ~last.close /\ last.written = last.pieces
  BY HttpConnectionAssumption DEF Init, NoResponse
<1> QED
  BY <1>1 DEF IInv, Closing, Measured, Middle, Bodies

-----------------------------------------------------------------------------

\* IInv is kept while the head of a request is read.
LEMMA ReadingStep ==
  ASSUME IInv,
         KeepAlive \/ NextRequest \/ Fill \/ ReadRequestLine \/ ReadHeaders \/ ReadNothing
  PROVE  IInv'
<1>1. CASE KeepAlive
  BY <1>1 DEF IInv, Closing, Measured, Middle, KeepAlive, serveVars, resVars
<1>2. CASE NextRequest
  BY <1>2 DEF IInv, Closing, Measured, Middle, NextRequest, BeginRequest, serveVars, resVars
<1>3. CASE Fill
  BY <1>3 DEF IInv, Closing, Measured, Middle, Fill, serveVars, resVars
<1>4. CASE ReadRequestLine
  <2>1. CASE parse_request_line(Head(buffer))
    BY <1>4, <2>1 DEF IInv, Closing, Measured, Middle, ReadRequestLine, Get, NoResponse, resVars
  <2>2. CASE ~parse_request_line(Head(buffer))
    BY <1>4, <2>2, Refused DEF IInv, Closing, Measured, Middle, Answering, ReadRequestLine, Get
  <2> QED
    BY <2>1, <2>2
<1>5. CASE ReadHeaders
  <2> USE DEF IInv, Closing, Measured, Middle
  <2>1. pc = "headers" /\ UNCHANGED <<count, running, last>>
    BY <1>5 DEF ReadHeaders, Get
  <2>2. CASE Refuse(414) /\ UNCHANGED <<header, connection_closed>>
    BY <2>1, <2>2, Refused DEF Answering
  <2>3. CASE Refuse(400)
    <3>1. status' = 400
      BY <2>3 DEF Refuse, Answer
    <3> QED
      BY <2>1, <2>3, <3>1, Refused DEF Answering
  <2>4. ASSUME header' = "close" => connection_closed', Refuse(416) PROVE IInv'
    BY <2>1, <2>4, Refused DEF Answering
  <2>5. ASSUME header' = "close" => connection_closed', pc' \in {"expect", "route"}, UNCHANGED resVars,
               header' = Absent => req'.connection = Absent
        PROVE  IInv'
    BY <2>1, <2>5 DEF resVars
  <2>6. ASSUME connection_closed' = (req.connection = "close"
                                     \/ (req.old /\ req.connection # "Keep-Alive")),
               header' \in {req.connection, ""}
        PROVE  header' = "close" => connection_closed'
    BY <2>6
  <2>8. req.defect \notin {"long", "headers"} => header' = req.connection
    BY <1>5 DEF ReadHeaders, read_headers
  <2>7. req.defect # "long" => header' \in {req.connection, ""}
    BY <1>5 DEF ReadHeaders, read_headers
  <2>9. CASE req.defect \in {"long", "headers"}
    BY <1>5, <2>2, <2>3, <2>9 DEF ReadHeaders
  <2>10. CASE req.defect \notin {"long", "headers"}
    <3>1. header' = req.connection /\ UNCHANGED req
      BY <1>5, <2>8, <2>10 DEF ReadHeaders
    <3>2. header' = "close" => connection_closed'
      BY <1>5, <2>6, <2>7, <2>10 DEF ReadHeaders
    <3>3. header' = Absent => req'.connection = Absent
      BY <3>1
    <3>4. Refuse(416) \/ (UNCHANGED resVars /\ pc' \in {"expect", "route"})
      BY <1>5, <2>10 DEF ReadHeaders
    <3> QED
      BY <2>4, <2>5, <3>2, <3>3, <3>4
  <2> QED
    BY <2>9, <2>10
<1>6. CASE ReadNothing
  <2>1. UNCHANGED answerVars /\ UNCHANGED <<last, header>> /\ HeaderStays
    BY <1>6 DEF ReadNothing, NothingAt, serveVars, answerVars, HeaderStays
  <2>2. CASE pc = "line"
    BY <1>6, <2>1, <2>2 DEF ReadNothing, NothingAt, IInv, Closing, Measured, Middle, resVars, answerVars
  <2>3. CASE pc = "headers"
    <3>1. pc' = "head" /\ Answering
      BY <1>6, <2>3, Refused DEF ReadNothing, NothingAt
    <3> QED
      BY <2>1, <2>3, <3>1 DEF Answering, IInv, Closing, Measured, Middle, answerVars
  <2>4. CASE pc = "until_close"
    <3>1. ContentRead
      BY <1>6, <2>4 DEF ReadNothing, NothingAt
    <3> QED
      BY <2>1, <2>4, <3>1, Read, MiddleStep DEF Middle
  <2>5. CASE pc \notin {"line", "headers", "until_close"}
    <3>1. pc \in Middle /\ \E s \in {413, 400} : ContentFails(s)
      BY <1>6, <2>5 DEF ReadNothing, NothingAt, ReadingAt, Middle
    <3> QED
      BY <2>1, <3>1, Failed, MiddleStep
  <2> QED
    BY <2>2, <2>3, <2>4, <2>5
<1> QED
  BY <1>1, <1>2, <1>3, <1>4, <1>5, <1>6

\* IInv is kept while its content is read.
LEMMA ContentStep ==
  ASSUME IInv,
         Expect \/ Route \/ ReadData \/ SkipData \/ SwallowData \/ ReadChunkLine \/ Dispatch
  PROVE  IInv'
<1>0. ASSUME NEW at \in Middle, Get(at) PROVE pc = at /\ UNCHANGED <<count, running>>
  BY <1>0 DEF Get
<1>1. CASE Expect
  <2>1. pc \in Middle /\ UNCHANGED answerVars /\ HeaderStays
    BY <1>1 DEF Expect, Middle, answerVars, HeaderStays
  <2>2. (pc' = "head" /\ Answering) \/ (pc' \in Middle /\ body' = body)
    BY <1>1 DEF Expect, Middle, resVars, Answer, Answering
  <2> QED
    BY <2>1, <2>2, MiddleStep
<1>2. CASE Route
  <2>1. pc \in Middle /\ UNCHANGED answerVars /\ HeaderStays
    BY <1>2 DEF Route, Middle, answerVars, serveVars, HeaderStays
  <2>2. (pc' = "head" /\ Answering) \/ (pc' \in Middle /\ body' = body)
    <3>1. CASE AnswerUnread
      BY <3>1, Handled DEF AnswerUnread
    <3>2. CASE handle_file_request
      BY <3>2 DEF handle_file_request, Answer, Answering, Bodies
    <3>3. CASE ReadContent
      BY <3>3, Failed, Read DEF ReadContent, GoTo, Middle, resVars
    <3>4. CASE pc' = "dispatch" /\ UNCHANGED resVars
      BY <3>4 DEF Middle, resVars
    <3> QED
      BY <1>2, <3>1, <3>2, <3>3, <3>4 DEF Route
  <2> QED
    BY <2>1, <2>2, MiddleStep
<1>3. CASE ReadData
  <2>1. pc \in Middle /\ UNCHANGED answerVars /\ HeaderStays
    BY <1>3, <1>0 DEF ReadData, Middle, answerVars, HeaderStays
  <2>2. (pc' = "head" /\ Answering) \/ (pc' \in Middle /\ body' = body)
    BY <1>3, <2>1, Failed, Read DEF ReadData, Middle, resVars
  <2> QED
    BY <2>1, <2>2, MiddleStep
<1>4. CASE SkipData
  <2>1. pc \in Middle /\ UNCHANGED answerVars /\ HeaderStays
    BY <1>4, <1>0 DEF SkipData, Middle, answerVars, HeaderStays
  <2>2. (pc' = "head" /\ Answering) \/ (pc' \in Middle /\ body' = body)
    BY <1>4, <2>1, Failed DEF SkipData, resVars
  <2> QED
    BY <2>1, <2>2, MiddleStep
<1>5. CASE SwallowData
  <2>1. pc \in Middle /\ UNCHANGED answerVars /\ HeaderStays
    BY <1>5, <1>0 DEF SwallowData, Middle, answerVars, HeaderStays
  <2>2. (pc' = "head" /\ Answering) \/ (pc' \in Middle /\ body' = body)
    BY <1>5, <2>1, Failed DEF SwallowData, resVars
  <2> QED
    BY <2>1, <2>2, MiddleStep
<1>6. CASE ReadChunkLine
  <2>1. pc \in Middle /\ UNCHANGED answerVars
    BY <1>6, <1>0 DEF ReadChunkLine, Middle, answerVars
  <2>3. HeaderStays
    <3>1. read_trailer => HeaderStays
      BY Zenon DEF read_trailer, HeaderStays, Absent
    <3>2. UNCHANGED header \/ read_trailer
      BY <1>6, Zenon DEF ReadChunkLine
    <3> QED
      BY <3>1, <3>2 DEF HeaderStays
  <2>2. (pc' = "head" /\ Answering) \/ (pc' \in Middle /\ body' = body)
    BY <1>6, <2>1, Failed, Read DEF ReadChunkLine, Middle, resVars
  <2> QED
    BY <2>1, <2>2, <2>3, MiddleStep
<1>7. CASE Dispatch
  <2>1. pc \in Middle /\ UNCHANGED answerVars /\ HeaderStays
    BY <1>7 DEF Dispatch, Middle, answerVars, serveVars, HeaderStays
  <2>2. pc' = "head" /\ Answering
    BY <1>7, Refused, Handled DEF Dispatch
  <2> QED
    BY <2>1, <2>2, MiddleStep
<1> QED
  BY <1>1, <1>2, <1>3, <1>4, <1>5, <1>6, <1>7

\* A piece of a body does not change what was announced of the response.
LEMMA PieceWritten ==
  ASSUME NEW lost, WritePiece(lost)
  PROVE  /\ last'.close = last.close /\ last'.status = last.status /\ last'.body = last.body
         /\ last'.framing = last.framing /\ last'.late = last.late /\ last'.pieces = last.pieces
         /\ pc' = "sent" => last'.written = last.pieces
         /\ pc' \in {"sent", "body"}
BY DEF WritePiece

\* IInv is kept while the response is written.
LEMMA ResponseStep ==
  ASSUME IInv, CheckRange \/ HandleError \/ WriteHead \/ WriteBody \/ WriteFails \/ EndRequest
  PROVE  IInv'
<1> USE DEF IInv, Closing, Measured, Middle
<1>1. CASE CheckRange
  <2>1. pc = "head" /\ status = -1 /\ UNCHANGED <<count, running, last, req, header, connection_closed>>
    BY <1>1 DEF CheckRange, serveVars
  <2>2. CASE Refuse(416)
    BY <2>1, <2>2, Refused DEF Answering
  <2>3. CASE pc' = "write" /\ UNCHANGED <<body, ranged>>
    BY <2>1, <2>3
  <2> QED
    BY <1>1, <2>2, <2>3 DEF CheckRange
<1>2. CASE HandleError
  BY <1>2 DEF HandleError, serveVars, Bodies
<1>3. CASE WriteHead
  <2>1. /\ pc = "write" /\ UNCHANGED <<count, running, header, connection_closed, body>>
        /\ last'.status = status /\ last'.body = body /\ last'.written = 0
        /\ last'.framing = framing /\ last'.close = AnnounceClose /\ last'.pieces = BodyPieces
        /\ last'.late = FromTrailer
        /\ pc' = IF BodyPieces = 0 THEN "sent" ELSE "body"
    BY <1>3 DEF WriteHead, resVars
  <2>2. framing = "none" => body = "endless" \/ status \in {403, 500}
    BY <2>1 DEF framing, HasLength, Bodies
  <2>3. AnnounceClose => connection_closed \/ count = 1 \/ status = 400 \/ FromTrailer
    <3>1. FromTrailer <=> count # 1 /\ header = "close" /\ req.connection = Absent
      BY Zenon DEF FromTrailer, Absent
    <3> QED
      BY <2>1, <3>1 DEF AnnounceClose
  <2> QED
    BY <2>1, <2>2, <2>3
<1>4. CASE WriteBody
  <2>1. /\ pc = "body" /\ UNCHANGED <<count, running, header, connection_closed, body>>
        /\ WritePiece(FALSE) \/ WritePiece(TRUE) \/ (~running /\ pc' = "sent" /\ UNCHANGED last)
    BY <1>4 DEF WriteBody, write_data, write_content, write_content_without_length,
       write_content_chunked, write_multipart_ranges_data, WriteUnlessStopped, resVars
  <2>2. CASE WritePiece(FALSE) \/ WritePiece(TRUE)
    <3>1. /\ last'.close = last.close /\ last'.status = last.status /\ last'.body = last.body
          /\ last'.framing = last.framing /\ last'.late = last.late /\ last'.pieces = last.pieces
          /\ pc' = "sent" => last'.written = last.pieces
          /\ pc' \in {"sent", "body"}
      BY <2>2, PieceWritten
    <3> HIDE <2>2
    <3> QED
      BY <2>1, <3>1
  <2>3. CASE ~running /\ pc' = "sent" /\ UNCHANGED last
    BY <2>1, <2>3
  <2> QED
    BY <2>1, <2>2, <2>3, Zenon
<1>5. CASE WriteFails
  BY <1>5 DEF WriteFails, serveVars, resVars
<1>6. CASE EndRequest
  <2>1. /\ pc = "sent" /\ UNCHANGED <<running, last>> /\ header' = "" /\ body' = "none"
        /\ \/ connection_closed /\ pc' = "closed" /\ UNCHANGED count
           \/ ~connection_closed /\ pc' = "keep_alive" /\ count' = count - 1
    BY <1>6 DEF EndRequest, EndRequestWith
  <2>2. Measured'
    BY <2>1 DEF Bodies
  <2>3. CASE connection_closed
    BY <2>1, <2>2, <2>3
  <2>4. CASE ~connection_closed
    <3>1. last.close => count = 1 \/ last.status = 400 \/ last.late
      BY <2>1, <2>4
    <3>2. count' = count - 1 /\ count > 0 /\ pc' = "keep_alive"
      BY <2>1, <2>4
    <3>3. last'.close => count' = 0 \/ last'.status = 400 \/ last'.late
      <4>1. last' = last
        BY <2>1
      <4>2. count = 1 => count' = 0
        BY <3>2
      <4> QED
        BY <3>1, <4>1, <4>2, Zenon
    <3>4. count' \in Nat
      BY <3>2
    <3>5. Closing'
      BY <2>1, <3>2, <3>3, <3>4
    <3> QED
      BY <2>2, <3>5
  <2> QED
    BY <2>3, <2>4
<1> QED
  BY <1>1, <1>2, <1>3, <1>4, <1>5, <1>6

\* IInv is kept by what the client does and by a stop of the server.
LEMMA ClientStep == ASSUME IInv, Client \/ Stop \/ UNCHANGED vars PROVE IInv'
<1> USE DEF IInv, Closing, Measured, Middle
<1>1. CASE Client
  BY <1>1 DEF Client, Ask, Send, KeepContent, workerVars, resVars
<1>2. CASE Stop
  BY <1>2 DEF Stop, resVars
<1>3. CASE UNCHANGED vars
  BY <1>3 DEF vars, resVars
<1> QED
  BY <1>1, <1>2, <1>3

\* IInv holds in every state.
THEOREM Invariance == Spec => []IInv
<1>1. IInv /\ [Next]_vars => IInv'
  BY ReadingStep, ContentStep, ResponseStep, ClientStep DEF Next, Worker
<1> QED
  BY InitIInv, <1>1, PTL DEF Spec

\* Whatever clients send and handlers do, no request is served after a response that said
\* Connection: close, unless that answered headers that could not be parsed, or repeated a
\* Connection: close that the headers did not have and the trailer of the chunks had.
THEOREM ClosesAsAnnounced == Spec => []ClosedAsAnnounced
<1>1. IInv => ClosedAsAnnounced
  BY DEF IInv, Closing, ClosedAsAnnounced
<1> QED
  BY <1>1, Invariance, PTL

\* A connection is used again only behind a response whose body has been written to its end
\* (the head and the lines between ranges may be lost, which is not looked at), and whose
\* headers say how long it is unless a provider does not know, a handler has thrown or the
\* Expect handler has answered.
THEOREM ResponsesAreFramed == Spec => []Framed
<1>1. IInv => Framed
  BY DEF IInv, Measured, Framed
<1> QED
  BY <1>1, Invariance, PTL

-----------------------------------------------------------------------------
(***************************************************************************)
(* What requests consist of                                                *)
(***************************************************************************)

ContentKinds == {"data", "size", "crlf", "last"}

\* A function from 1 .. n is a sequence.
LEMMA Listed == ASSUME NEW S, NEW n \in Nat, NEW f \in [1 .. n -> S] PROVE f \in Seq(S) /\ Len(f) = n
OBVIOUS

\* What a concatenation consists of
LEMMA Joined ==
  ASSUME NEW S, NEW s \in Seq(S), NEW t \in Seq(S)
  PROVE  /\ s \o t \in Seq(S) /\ Len(s \o t) = Len(s) + Len(t)
         /\ \A i \in 1 .. Len(s) : (s \o t)[i] = s[i]
         /\ \A i \in 1 .. Len(t) : (s \o t)[Len(s) + i] = t[i]
OBVIOUS

\* The content of a request: data as long as it says, or chunks, each with the line of its size
\* before it and an empty one behind it, and an empty chunk and line at the end
LEMMA ContentIs ==
  ASSUME NEW r \in Requests
  PROVE  /\ Content(r) \in Seq(ContentKinds)
         /\ r.delimited \in {"none", "length"} =>
              Len(Content(r)) = r.size /\ \A i \in 1 .. r.size : Content(r)[i] = "data"
         /\ r.delimited = "chunked" =>
              /\ Len(Content(r)) = 3 * r.size + 2
              /\ \A j \in 0 .. r.size - 1 :
                   /\ Content(r)[3 * j + 1] = "size" /\ Content(r)[3 * j + 2] = "data"
                   /\ Content(r)[3 * j + 3] = "crlf"
              /\ Content(r)[3 * r.size + 1] = "last" /\ Content(r)[3 * r.size + 2] = "crlf"
<1>1. r.size \in Nat /\ r.delimited \in {"none", "length", "chunked", "bad_chunks"}
  BY RequestsAssumption DEF RequestType
<1> DEFINE data == [i \in 1 .. r.size |-> "data"]
           chunks == [i \in 1 .. 3 * r.size |-> <<"size", "data", "crlf">>[((i - 1) % 3) + 1]]
<1>2. CASE r.delimited \in {"none", "length"}
  <2>1. data \in [1 .. r.size -> ContentKinds]
    BY DEF ContentKinds
  <2>2. data \in Seq(ContentKinds) /\ Len(data) = r.size
    BY <1>1, <2>1, Listed
  <2>3. Content(r) = data
    BY <1>2 DEF Content
  <2> QED
    BY <1>2, <2>2, <2>3
<1>3. CASE r.delimited = "bad_chunks"
  <2>1. Content(r) = <<"size", "data", "data", "last", "crlf">>
    BY <1>3 DEF Content
  <2> QED
    BY <1>3, <2>1 DEF ContentKinds
<1>4. CASE r.delimited = "chunked"
  <2>1. \A i \in 1 .. 3 * r.size : (i - 1) % 3 \in 0 .. 2
    BY <1>1
  <2>2. \A k \in 0 .. 2 : <<"size", "data", "crlf">>[k + 1] \in ContentKinds
    BY DEF ContentKinds
  <2>3. chunks \in [1 .. 3 * r.size -> ContentKinds]
    BY <2>1, <2>2
  <2>4. chunks \in Seq(ContentKinds) /\ Len(chunks) = 3 * r.size
    <3>1. 3 * r.size \in Nat
      BY <1>1
    <3> QED
      BY <2>3, <3>1, Listed
  <2>5. ASSUME NEW j \in 0 .. r.size - 1
        PROVE  chunks[3 * j + 1] = "size" /\ chunks[3 * j + 2] = "data" /\ chunks[3 * j + 3] = "crlf"
    <3>1. /\ 3 * j + 1 \in 1 .. 3 * r.size /\ 3 * j + 2 \in 1 .. 3 * r.size /\ 3 * j + 3 \in 1 .. 3 * r.size
          /\ (3 * j + 1 - 1) % 3 = 0 /\ (3 * j + 2 - 1) % 3 = 1 /\ (3 * j + 3 - 1) % 3 = 2
      BY <1>1
    <3>2. \A i \in 1 .. 3 * r.size : chunks[i] = <<"size", "data", "crlf">>[((i - 1) % 3) + 1]
      OBVIOUS
    <3> HIDE DEF chunks
    <3>3. /\ chunks[3 * j + 1] = <<"size", "data", "crlf">>[0 + 1]
          /\ chunks[3 * j + 2] = <<"size", "data", "crlf">>[1 + 1]
          /\ chunks[3 * j + 3] = <<"size", "data", "crlf">>[2 + 1]
      BY <3>1, <3>2
    <3> QED
      BY <3>3
  <2>6. Content(r) = chunks \o <<"last", "crlf">>
    BY <1>4 DEF Content
  <2> HIDE DEF chunks
  <2>7. /\ Content(r) \in Seq(ContentKinds) /\ Len(Content(r)) = 3 * r.size + 2
        /\ \A i \in 1 .. 3 * r.size : Content(r)[i] = chunks[i]
        /\ Content(r)[3 * r.size + 1] = "last" /\ Content(r)[3 * r.size + 2] = "crlf"
    <3>1. PICK end : end = <<"last", "crlf">>
      OBVIOUS
    <3>2. end \in Seq(ContentKinds) /\ Len(end) = 2 /\ end[1] = "last" /\ end[2] = "crlf"
      BY <3>1 DEF ContentKinds
    <3>3. /\ Content(r) \in Seq(ContentKinds) /\ Len(Content(r)) = Len(chunks) + Len(end)
          /\ \A i \in 1 .. Len(chunks) : Content(r)[i] = chunks[i]
          /\ \A i \in 1 .. Len(end) : Content(r)[Len(chunks) + i] = end[i]
      BY <2>4, <2>6, <3>1, <3>2, Joined, SMTT(30)
    <3>4. 1 \in 1 .. Len(end) /\ 2 \in 1 .. Len(end)
      BY <3>2
    <3> QED
      BY <2>4, <3>2, <3>3, <3>4
  <2>8. \A j \in 0 .. r.size - 1 :
          3 * j + 1 \in 1 .. 3 * r.size /\ 3 * j + 2 \in 1 .. 3 * r.size /\ 3 * j + 3 \in 1 .. 3 * r.size
    BY <1>1
  <2> QED
    BY <1>4, <2>5, <2>7, <2>8
<1> QED
  BY <1>1, <1>2, <1>3, <1>4
-----------------------------------------------------------------------------
(***************************************************************************)
(* Types                                                                   *)
(***************************************************************************)

Piece == Kinds \X Requests

Pcs == {"keep_alive", "line", "headers", "expect", "route", "content", "skip", "until_close", "chunk",
        "chunk_end", "trailer", "dispatch", "head", "write", "body", "sent", "closed", "aborted"}

Statuses == {-1, 200, 206, 400, 403, 404, 413, 414, 415, 416, 500}

Headers == {"", "close", "Keep-Alive"}

Streams == wire \in Seq(Piece) /\ buffer \in Seq(Piece) /\ unsent \in Seq(Piece)

Control ==
  /\ pc \in Pcs /\ left \in Nat /\ (pc \in {"content", "skip"} => left > 0)
  /\ status \in Statuses /\ body \in Bodies /\ ranged \in BOOLEAN

Parsed ==
  /\ req \in Requests \cup {NoRequest} /\ header \in Headers /\ connection_closed \in BOOLEAN

Counters ==
  /\ count \in 0 .. keep_alive_max_count_ /\ asked \in 0 .. MaxRequests /\ answered \in Nat
  /\ request \in Requests \cup {NoRequest} /\ running \in BOOLEAN /\ tidy \in BOOLEAN

Types == Streams /\ Control /\ Parsed /\ Counters

\* What a client sends is a line, headers and content of its request.
LEMMA PiecesAre ==
  ASSUME NEW r \in Requests
  PROVE  /\ Pieces(r) \in Seq(Piece) /\ Len(Content(r)) \in Nat
         /\ Len(Pieces(r)) = Len(Content(r)) + 2
         /\ Pieces(r)[1] = <<"line", r>> /\ Pieces(r)[2] = <<"headers", r>>
         /\ \A i \in 1 .. Len(Content(r)) : Pieces(r)[i + 2] = <<Content(r)[i], r>>
<1> DEFINE n == Len(Content(r)) + 2
           piece(i) == IF i = 1 THEN <<"line", r>> ELSE
                       IF i = 2 THEN <<"headers", r>> ELSE <<Content(r)[i - 2], r>>
<1>1. Content(r) \in Seq(ContentKinds) /\ Len(Content(r)) \in Nat
  BY ContentIs
<1>2. \A i \in 1 .. Len(Content(r)) : Content(r)[i] \in Kinds
  BY <1>1 DEF ContentKinds, Kinds
<1>3. \A i \in 1 .. n : piece(i) \in Piece
  BY <1>1, <1>2 DEF Piece, Kinds
<1>4. Pieces(r) = [i \in 1 .. n |-> piece(i)]
  BY DEF Pieces
<1>5. n \in Nat /\ n = Len(Content(r)) + 2
  BY <1>1
<1>6. /\ piece(1) = <<"line", r>> /\ piece(2) = <<"headers", r>>
       /\ \A i \in 1 .. Len(Content(r)) : piece(i + 2) = <<Content(r)[i], r>>
  <2>1. ASSUME NEW i \in 1 .. Len(Content(r)) PROVE i + 2 # 1 /\ i + 2 # 2 /\ i + 2 - 2 = i
    BY <1>1
  <2> QED
    BY <2>1
<1> HIDE DEF piece, n
<1>7. Pieces(r) \in [1 .. n -> Piece] /\ n \in Nat
  BY <1>3, <1>4, <1>5
<1>8. Pieces(r) \in Seq(Piece) /\ Len(Pieces(r)) = n
  BY <1>7, Listed
<1>9. \A i \in 1 .. n : Pieces(r)[i] = piece(i)
  BY <1>4
<1>10. 1 \in 1 .. n /\ 2 \in 1 .. n /\ \A i \in 1 .. Len(Content(r)) : i + 2 \in 1 .. n
  BY <1>1, <1>5
<1> QED
  BY <1>1, <1>8, <1>9, <1>10, <1>5, <1>6

\* The fields of a request
LEMMA RequestFields ==
  ASSUME NEW r \in Requests \cup {NoRequest}
  PROVE  r.connection \in Headers /\ r.size \in Nat
<1>1. CASE r \in Requests
  BY <1>1, RequestsAssumption DEF RequestType, Headers
<1>2. CASE r = NoRequest
  BY <1>2 DEF NoRequest, Headers
<1> QED
  BY <1>1, <1>2

\* The value of Connection in a trailer
LEMMA TrailerField == ASSUME NEW r \in Requests PROVE r.trailer \in Headers
<1>1. r.trailer \in {"", "close"}
  BY RequestsAssumption DEF RequestType
<1> QED
  BY <1>1, Zenon DEF Headers

\* What the operations that answer, or read on, leave in the variables of the response
LEMMA RefusedTypes ==
  ASSUME NEW s \in Statuses, Refuse(s)
  PROVE  pc' = "head" /\ status' \in Statuses /\ body' \in Bodies /\ ranged' \in BOOLEAN
BY DEF Refuse, Answer, Bodies

\* so when the content fails,
LEMMA FailedTypes ==
  ASSUME NEW s \in Statuses, ContentFails(s)
  PROVE  pc' = "head" /\ status' \in Statuses /\ body' \in Bodies /\ ranged' \in BOOLEAN
BY RefusedTypes DEF ContentFails, Answer

\* so when a handler has answered,
LEMMA HandledTypes ==
  ASSUME NEW t \in BOOLEAN, Handle(t)
  PROVE  pc' = "head" /\ status' \in Statuses /\ body' \in Bodies /\ ranged' \in BOOLEAN
<1>1. {500, -1, 404} \subseteq Statuses
  BY DEF Statuses
<1>2. PICK b \in Bodies :
        IF t THEN \E apply \in BOOLEAN : Answer(500, b, apply)
        ELSE \E s \in {-1, 404} : Answer(s, b, TRUE)
  BY DEF Handle
<1>3. CASE t
  BY <1>1, <1>2, <1>3 DEF Answer
<1>4. CASE ~t
  <2>1. PICK s \in {-1, 404} : Answer(s, b, TRUE)
    BY <1>2, <1>4
  <2> QED
    BY <1>1, <2>1 DEF Answer
<1> QED
  BY <1>3, <1>4

\* and when all of the content has been read
LEMMA ReadTypes ==
  ASSUME Control, ContentRead
  PROVE  /\ pc' \in {"head", "dispatch"}
         /\ status' \in Statuses /\ body' \in Bodies /\ ranged' \in BOOLEAN
<1>1. {400, 413} \subseteq Statuses
  BY DEF Statuses
<1> QED
  BY <1>1, FailedTypes DEF ContentRead, Control, resVars

\* The streams are moved piece by piece.
LEMMA StreamsStep == ASSUME Types, [Next]_vars PROVE Streams'
<1> USE DEF Types, Streams
<1>1. CASE UNCHANGED <<wire, buffer, unsent>>
  BY <1>1
<1>2. ASSUME buffer # <<>>, buffer' = Tail(buffer), UNCHANGED <<wire, unsent>> PROVE Streams'
  BY <1>2
<1>3. ASSUME NEW at, Get(at) PROVE Streams'
  BY <1>3, <1>2 DEF Get, clientVars
<1>4. CASE NextRequest
  BY <1>4 DEF NextRequest, BeginRequest, serveVars, clientVars
<1>5. CASE Fill
  <2>1. PICK n \in 0 .. Len(wire) : buffer' = SubSeq(wire, 1, n) /\ wire' = SubSeq(wire, n + 1, Len(wire))
    <3>1. (IF Len(wire) < read_buff_size_ THEN Len(wire) ELSE read_buff_size_) \in 0 .. Len(wire)
      BY HttpConnectionAssumption
    <3> QED
      BY <1>5, <3>1 DEF Fill
  <2>2. UNCHANGED unsent
    BY <1>5 DEF Fill, serveVars, clientVars
  <2>3. buffer' \in Seq(Piece) /\ wire' \in Seq(Piece)
    BY <2>1
  <2> QED
    BY <2>2, <2>3
<1>6. CASE Ask
  BY <1>6, PiecesAre DEF Ask, workerVars
<1>7. CASE Send
  BY <1>7 DEF Send, workerVars
<1>8. CASE KeepContent
  BY <1>8 DEF KeepContent, workerVars
<1>9. CASE ReadRequestLine \/ ReadHeaders \/ ReadData \/ SkipData \/ SwallowData \/ ReadChunkLine
  BY <1>9, <1>3 DEF ReadRequestLine, ReadHeaders, ReadData, SkipData, SwallowData, ReadChunkLine
<1>10. CASE KeepAlive \/ ReadNothing \/ Expect \/ Route \/ Dispatch \/ CheckRange \/ HandleError
            \/ WriteHead \/ WriteBody \/ WriteFails \/ EndRequest \/ Stop \/ UNCHANGED vars
  BY <1>10 DEF KeepAlive, ReadNothing, NothingAt, Expect, Route, Dispatch, CheckRange, HandleError,
     WriteHead, WriteBody, WriteFails, EndRequest, EndRequestWith, Stop, vars, readVars, serveVars,
     clientVars
<1> QED
  BY <1>4, <1>5, <1>6, <1>7, <1>8, <1>9, <1>10 DEF Next, Worker, Client

\* The request that is served is one that was sent.
LEMMA ParsedStep == ASSUME Types, [Next]_vars PROVE Parsed'
<1> USE DEF Types, Parsed
<1>1. \A r \in Requests \cup {NoRequest} : r.connection \in Headers
  BY RequestFields
<1>2. CASE ReadRequestLine
  <2>1. buffer # <<>> => Head(buffer)[2] \in Requests
    BY DEF Streams, Piece
  <2> QED
    BY <1>2, <2>1 DEF ReadRequestLine, Get
<1>3. CASE ReadHeaders
  <2>1. req' \in {req, NoRequest} /\ header' \in {header, req.connection, ""}
    BY <1>3 DEF ReadHeaders, read_headers
  <2>2. connection_closed' \in BOOLEAN
    BY <1>3, Zenon DEF ReadHeaders
  <2> QED
    BY <1>1, <2>1, <2>2 DEF Headers
<1>4. CASE EndRequest
  BY <1>4 DEF EndRequest, EndRequestWith, Headers
<1>5. CASE UNCHANGED <<req, header, connection_closed>>
  BY <1>5
<1>6. CASE Client \/ Stop \/ UNCHANGED vars
  BY <1>5, <1>6 DEF Client, Ask, Send, KeepContent, Stop, vars, workerVars
<1>7. CASE KeepAlive \/ NextRequest \/ Fill \/ ReadNothing \/ Expect \/ Route \/ ReadData \/ SkipData
           \/ SwallowData \/ Dispatch
  BY <1>5, <1>7 DEF KeepAlive, NextRequest, BeginRequest, Fill, ReadNothing, NothingAt, Expect, Route,
     ReadData, SkipData, SwallowData, Dispatch
<1>9. CASE ReadChunkLine
  <2>1. buffer # <<>> /\ UNCHANGED <<req, connection_closed>> /\ (UNCHANGED header \/ read_trailer)
    BY <1>9, Zenon DEF ReadChunkLine, Get
  <2>2. Head(buffer)[2] \in Requests
    BY <2>1 DEF Streams, Piece
  <2>3. read_trailer => header' \in {header, Head(buffer)[2].trailer}
    BY Zenon DEF read_trailer
  <2>4. header' \in Headers
    BY <2>1, <2>2, <2>3, TrailerField
  <2> QED
    BY <2>1, <2>4
<1>8. CASE CheckRange \/ HandleError \/ WriteHead \/ WriteBody \/ WriteFails
  BY <1>5, <1>8 DEF CheckRange, HandleError, WriteHead, WriteBody, WriteFails
<1> QED
  BY <1>2, <1>3, <1>4, <1>6, <1>7, <1>8, <1>9 DEF Next, Worker

\* Requests are counted within their bounds: a response is written only while one may be
\* served.
LEMMA CountersStep == ASSUME Types, IInv, [Next]_vars PROVE Counters'
<1> USE DEF Types, Counters
<1>1. tidy' \in BOOLEAN /\ running' \in BOOLEAN
  <2>1. CASE Client \/ Stop \/ UNCHANGED vars
    <3>1. CASE Client
      <4>1. UNCHANGED running
        BY <3>1 DEF Client, Ask, Send, KeepContent, workerVars
      <4>2. tidy' \in BOOLEAN
        <5>1. CASE Ask
          BY <5>1, Zenon DEF Ask
        <5>2. CASE Send
          BY <5>2, Zenon DEF Send
        <5>3. CASE KeepContent
          BY <5>3, Zenon DEF KeepContent
        <5> QED
          BY <3>1, <5>1, <5>2, <5>3 DEF Client
      <4> QED
        BY <4>1, <4>2
    <3>2. CASE Stop
      BY <3>2, Zenon DEF Stop
    <3>3. CASE UNCHANGED vars
      BY <3>3 DEF vars
    <3> QED
      BY <2>1, <3>1, <3>2, <3>3
  <2>2. CASE KeepAlive \/ NextRequest \/ Fill \/ ReadNothing \/ Expect \/ Route
    <3>1. CASE KeepAlive \/ NextRequest \/ Fill
      BY <3>1, Zenon DEF KeepAlive, NextRequest, BeginRequest, Fill, serveVars
    <3>2. CASE ReadNothing
      BY <3>2, ZenonT(40) DEF ReadNothing, NothingAt, serveVars
    <3>3. CASE Expect
      BY <3>3, ZenonT(40) DEF Expect
    <3>4. CASE Route
      BY <3>4, Zenon DEF Route, AnswerUnread, serveVars
    <3> QED
      BY <2>2, <3>1, <3>2, <3>3, <3>4
  <2>3. CASE ReadRequestLine \/ ReadHeaders \/ ReadData \/ SkipData \/ SwallowData \/ ReadChunkLine
    BY <2>3, Zenon DEF ReadRequestLine, ReadHeaders, ReadData, SkipData, SwallowData, ReadChunkLine, Get
  <2>4. CASE Dispatch \/ CheckRange \/ HandleError \/ WriteHead \/ WriteBody \/ WriteFails \/ EndRequest
    BY <2>4, Zenon DEF Dispatch, CheckRange, HandleError, WriteHead, WriteBody, WriteFails, EndRequest,
       EndRequestWith, serveVars
  <2> QED
    BY <2>1, <2>2, <2>3, <2>4 DEF Next, Worker
<1>2. CASE UNCHANGED <<count, asked, answered, request>>
  BY <1>1, <1>2
<1>3. CASE Ask
  BY <1>1, <1>3, HttpConnectionAssumption DEF Ask, workerVars
<1>4. CASE EndRequest
  <2>1. count > 0
    BY <1>4 DEF EndRequest, EndRequestWith, IInv, Closing
  <2>2. count' \in {count, count - 1} /\ answered' = answered + 1 /\ UNCHANGED <<asked, request>>
    BY <1>4 DEF EndRequest, EndRequestWith, clientVars
  <2>3. count' \in 0 .. keep_alive_max_count_ /\ answered' \in Nat
    BY <2>1, <2>2, HttpConnectionAssumption
  <2> QED
    BY <1>1, <2>2, <2>3
<1>5. CASE Send \/ KeepContent \/ Stop \/ UNCHANGED vars
  BY <1>2, <1>5 DEF Send, KeepContent, Stop, vars, workerVars, clientVars
<1>6. CASE KeepAlive \/ NextRequest \/ Fill \/ ReadNothing \/ Expect \/ Route
  BY <1>2, <1>6 DEF KeepAlive, NextRequest, BeginRequest, Fill, ReadNothing, NothingAt, Expect, Route,
     serveVars, clientVars
<1>7. CASE ReadRequestLine \/ ReadHeaders \/ ReadData \/ SkipData \/ SwallowData \/ ReadChunkLine
  BY <1>2, <1>7 DEF ReadRequestLine, ReadHeaders, ReadData, SkipData, SwallowData, ReadChunkLine, Get,
     clientVars
<1>8. CASE Dispatch \/ CheckRange \/ HandleError \/ WriteHead \/ WriteBody \/ WriteFails
  BY <1>2, <1>8 DEF Dispatch, CheckRange, HandleError, WriteHead, WriteBody, WriteFails, serveVars,
     clientVars
<1> QED
  BY <1>3, <1>4, <1>5, <1>6, <1>7, <1>8 DEF Next, Worker, Client

\* A worker is where the protocol has it, and counts the content down to nothing.
LEMMA ControlStep == ASSUME Types, [Next]_vars PROVE Control'
<1> USE DEF Types, Control
<1>0. {400, 403, 413, 414, 415, 416} \subseteq Statuses /\ {"head", "dispatch"} \subseteq Pcs
  BY DEF Statuses, Pcs
<1> DEFINE Responds == /\ pc' \in {"head", "dispatch"}
                        /\ status' \in Statuses /\ body' \in Bodies /\ ranged' \in BOOLEAN
           Goes == pc' \in Pcs \ {"content", "skip"} /\ UNCHANGED resVars
<1>1. ASSUME Responds \/ Goes, left' \in Nat PROVE Control'
  BY <1>0, <1>1 DEF resVars
<1>2. CASE KeepAlive \/ NextRequest \/ Fill \/ Client \/ Stop \/ UNCHANGED vars
  BY <1>2 DEF KeepAlive, NextRequest, BeginRequest, Fill, Client, Ask, Send, KeepContent, Stop, vars,
     workerVars, resVars, Pcs
<1>3. CASE ReadRequestLine \/ ReadHeaders
  <2>1. UNCHANGED left /\ (Goes \/ \E s \in {400, 414, 416} : Refuse(s))
    BY <1>3 DEF ReadRequestLine, ReadHeaders, Pcs
  <2> QED
    BY <1>0, <1>1, <2>1, RefusedTypes
<1>4. CASE ReadNothing
  <2>1. UNCHANGED left /\ (Goes \/ ContentRead \/ \E s \in {400, 413, 414} : Refuse(s) \/ ContentFails(s))
    BY <1>4 DEF ReadNothing, NothingAt, Pcs
  <2> QED
    BY <1>0, <1>1, <2>1, RefusedTypes, FailedTypes, ReadTypes
<1>5. CASE Expect \/ Dispatch
  <2>1. UNCHANGED left
    BY <1>5 DEF Expect, Dispatch
  <2>2. \/ Goes \/ (\E s \in {400, 404} : Refuse(s)) \/ (\E t \in BOOLEAN : Handle(t))
        \/ \E b \in Bodies : Answer(403, b, FALSE)
    BY <1>5 DEF Expect, Dispatch, Pcs
  <2>3. ASSUME NEW s \in {400, 404}, Refuse(s) PROVE Responds
    <3>1. s \in Statuses
      BY DEF Statuses
    <3> QED
      BY <2>3, <3>1, RefusedTypes
  <2>4. ASSUME NEW t \in BOOLEAN, Handle(t) PROVE Responds
    BY <2>4, HandledTypes
  <2>5. ASSUME NEW b \in Bodies, Answer(403, b, FALSE) PROVE Responds
    <3>1. pc' = "head" /\ status' = 403 /\ body' = b /\ ranged' = FALSE
      BY <2>5, Zenon DEF Answer
    <3>2. 403 \in Statuses
      BY <1>0
    <3> QED
      BY <3>1, <3>2
  <2> QED
    BY <1>1, <2>1, <2>2, <2>3, <2>4, <2>5
<1>6. CASE Route
  <2>1. CASE ReadContent
    <3>1. req.size \in Nat
      BY RequestFields DEF Parsed
    <3>2. \/ left' = left /\ (Goes \/ ContentRead \/ \E s \in {400, 415} : ContentFails(s))
          \/ pc' \in {"skip", "content"} /\ left' = req.size /\ req.size > 0 /\ UNCHANGED resVars
      BY <2>1, <3>1, HttpConnectionAssumption DEF ReadContent, GoTo, Pcs
    <3> QED
      BY <1>0, <1>1, <3>1, <3>2, FailedTypes, ReadTypes DEF resVars, Pcs
  <2>2. CASE AnswerUnread /\ UNCHANGED left
    BY <1>1, <2>2, HandledTypes DEF AnswerUnread
  <2>3. CASE handle_file_request /\ UNCHANGED left
    BY <1>1, <2>3 DEF handle_file_request, Answer, Statuses, Bodies
  <2>4. CASE pc' = "dispatch" /\ UNCHANGED <<left, resVars>>
    BY <1>1, <2>4 DEF Pcs
  <2> QED
    BY <1>6, <2>1, <2>2, <2>3, <2>4 DEF Route
<1>7. CASE ReadData \/ SkipData
  <2>1. left > 0 /\ left' = left - 1
    BY <1>7 DEF ReadData, SkipData, Get
  <2>2. \/ Goes \/ ContentRead \/ \E s \in {400, 413} : ContentFails(s)
        \/ left > 1 /\ UNCHANGED <<pc, resVars>>
    BY <1>7 DEF ReadData, SkipData, Pcs
  <2> QED
    BY <1>0, <1>1, <2>1, <2>2, FailedTypes, ReadTypes DEF resVars
<1>8. CASE SwallowData
  <2>1. left' = left /\ (ContentFails(400) \/ (UNCHANGED <<pc, resVars>> /\ pc = "until_close"))
    BY <1>8 DEF SwallowData, Get
  <2> QED
    BY <1>0, <1>1, <2>1, FailedTypes DEF resVars, Pcs
<1>9. CASE ReadChunkLine
  <2>1. \/ left' = left /\ (Goes \/ ContentRead \/ ContentFails(400) \/ (UNCHANGED <<pc, resVars>> /\ pc = "trailer"))
        \/ left' = 1 /\ pc' = "content" /\ UNCHANGED resVars
    BY <1>9 DEF ReadChunkLine, Get, Pcs
  <2> QED
    BY <1>0, <1>1, <2>1, FailedTypes, ReadTypes DEF resVars, Pcs
<1>10. CASE CheckRange
  <2>1. UNCHANGED left /\ (Refuse(416) \/ (pc' = "write" /\ status' \in {200, 206} /\ UNCHANGED <<body, ranged>>))
    BY <1>10 DEF CheckRange
  <2> QED
    BY <1>0, <1>1, <2>1, RefusedTypes DEF Statuses, Pcs
<1>11. CASE HandleError
  <2>1. /\ UNCHANGED <<left, status>> /\ pc' \in {"aborted", "write"} /\ body' \in {body, "content"}
        /\ ranged' = ranged \/ ranged' = TRUE
    BY <1>11, Zenon DEF HandleError
  <2>2. body' \in Bodies /\ ranged' \in BOOLEAN
    BY <2>1 DEF Bodies
  <2> QED
    BY <2>1, <2>2 DEF Pcs
<1>12. CASE WriteHead \/ WriteBody \/ WriteFails \/ EndRequest
  <2>1. CASE EndRequest
    <3>1. /\ pc' \in {"closed", "keep_alive"} /\ left' = 0
          /\ status' = -1 /\ body' = "none" /\ ranged' = FALSE
      BY <2>1 DEF EndRequest, EndRequestWith
    <3>2. pc' \in Pcs /\ pc' \notin {"content", "skip"}
      BY <3>1 DEF Pcs
    <3>3. status' \in Statuses /\ body' \in Bodies
      BY <3>1, ZenonT(40) DEF Statuses, Bodies
    <3>4. left' \in Nat /\ ranged' \in BOOLEAN
      BY <3>1
    <3> QED
      BY <3>2, <3>3, <3>4
  <2>2. CASE WriteHead \/ WriteBody \/ WriteFails
    <3>1. pc' \in {"sent", "body", "closed"} /\ UNCHANGED left /\ UNCHANGED resVars
      BY <2>2 DEF WriteHead, WriteBody, WriteFails, write_data, write_content,
         write_content_without_length, write_content_chunked, write_multipart_ranges_data,
         WriteUnlessStopped, WritePiece
    <3> QED
      BY <1>1, <3>1 DEF Pcs
  <2> QED
    BY <1>12, <2>1, <2>2
<1> QED
  BY <1>2, <1>3, <1>4, <1>5, <1>6, <1>7, <1>8, <1>9, <1>10, <1>11, <1>12 DEF Next, Worker

\* Types holds at first.
LEMMA InitTypes == Init => Types
<1> SUFFICES ASSUME Init PROVE Types
  OBVIOUS
<1>1. Streams
  BY EmptySeq DEF Init, Streams
<1>2. Control
  BY DEF Init, Control, Pcs, Statuses, Bodies
<1>3. Parsed
  BY DEF Init, Parsed, Headers
<1>4. Counters
  <2>1. 0 \in 0 .. MaxRequests /\ keep_alive_max_count_ \in 0 .. keep_alive_max_count_
    BY HttpConnectionAssumption
  <2> QED
    BY <2>1 DEF Init, Counters
<1> QED
  BY <1>1, <1>2, <1>3, <1>4 DEF Types

\* For requests of every kind and number, every variable holds a value of its type, and
\* content is never counted below nothing.
THEOREM TypesAreKept == Spec => []TypeOK
<1>1. Types /\ IInv /\ [Next]_vars => Types'
  BY StreamsStep, ControlStep, ParsedStep, CountersStep DEF Types
<1>2. ASSUME Types PROVE TypeOK
  <2>1. \A s \in {wire, buffer, unsent} : \A i \in DOMAIN s : s[i][1] \in Kinds /\ s[i][2] \in Requests
    BY <1>2 DEF Types, Streams, Piece
  <2>2. /\ pc \in Pcs /\ left \in Nat /\ (pc \in {"content", "skip"} => left > 0)
        /\ status \in Statuses /\ body \in Bodies /\ ranged \in BOOLEAN
    BY <1>2 DEF Types, Control
  <2>3. {req, request} \subseteq Requests \cup {NoRequest}
    BY <1>2 DEF Types, Parsed, Counters
  <2>4. /\ header \in Headers /\ connection_closed \in BOOLEAN
        /\ count \in 0 .. keep_alive_max_count_ /\ asked \in 0 .. MaxRequests /\ answered \in Nat
        /\ running \in BOOLEAN /\ tidy \in BOOLEAN
    BY <1>2 DEF Types, Parsed, Counters
  <2> QED
    BY <2>1, <2>2, <2>3, <2>4, ZenonT(40) DEF TypeOK, Pcs, Statuses, Headers
<1> QED
  BY InitTypes, <1>1, <1>2, Invariance, PTL DEF Spec

-----------------------------------------------------------------------------
(***************************************************************************)
(* Server and client in step                                               *)
(***************************************************************************)

End == Len(Pieces(request))

\* What a request still has behind its first k pieces, and what the server has still to read
From(k) == SubSeq(Pieces(request), k + 1, End)
Rest    == buffer \o wire \o unsent

Asked == request \in Requests /\ Delimited(request) /\ answered = asked - 1

\* The content of a request with Expect has not left the client.
Held     == request.expect => Len(unsent) >= End - 2
Withheld == buffer = <<>> /\ wire = <<>> /\ WaitsFor100

Chunks    == request.delimited = "chunked"
Reading   == {"line", "headers"} \cup Middle
Responding == {"head", "write", "body", "sent"}

\* Where in the request the server is after k pieces of it
Place(k) ==
  /\ pc = "line" => k = 0
  /\ pc = "headers" => k = 1
  /\ pc \in {"expect", "route"} => k = 2
  /\ pc = "expect" => request.expect
  /\ pc = "skip" => request.delimited = "length" /\ k = End - left
  /\ pc = "content" /\ request.delimited = "length" => k = End - left
  /\ pc = "content" /\ request.delimited # "length" =>
       Chunks /\ left = 1 /\ \E j \in 0 .. request.size - 1 : k = 3 * j + 3
  /\ pc = "until_close" => request.delimited = "none" /\ k >= 2
  /\ pc = "chunk" => Chunks /\ \E j \in 0 .. request.size : k = 3 * j + 2
  /\ pc = "chunk_end" => Chunks /\ \E j \in 0 .. request.size - 1 : k = 3 * j + 4
  /\ pc = "trailer" => Chunks /\ k = End - 1
  /\ pc = "dispatch" => k = End

\* Before the next request
Between ==
  \/ answered = asked /\ wire = <<>> /\ (unsent = <<>> \/ WaitsFor100)
  \/ Asked /\ wire \o unsent = Pieces(request) /\ Held

Synchronised ==
  /\ pc = "keep_alive" => Between
  /\ pc \in Reading \cup Responding => Asked
  /\ pc \in {"line", "headers", "expect"} => Held
  /\ pc \in Reading \ {"line"} => req = request
  /\ pc \in Reading => \E k \in 0 .. End : Rest = From(k) /\ Place(k)
  /\ pc \in Responding => Rest = <<>> \/ Withheld

\* 100 is not a final response.
Final == pc \in {"keep_alive", "line", "headers", "expect", "body", "sent"} => last.status # 100

SInv == Types /\ Final /\ (tidy => Synchronised)

-----------------------------------------------------------------------------

\* Reading from a sequence reads from what it begins.
LEMMA TailOfConcat ==
  ASSUME NEW S, NEW s \in Seq(S), NEW t \in Seq(S), s # <<>>
  PROVE  s \o t # <<>> /\ Head(s \o t) = Head(s) /\ Tail(s \o t) = Tail(s) \o t
<1>1. /\ s \o t \in Seq(S) /\ Len(s \o t) = Len(s) + Len(t)
      /\ \A i \in 1 .. Len(s) + Len(t) : (s \o t)[i] = IF i <= Len(s) THEN s[i] ELSE t[i - Len(s)]
  BY ConcatProperties
<1>2. Len(s) \in Nat \ {0} /\ Len(t) \in Nat
  BY EmptySeq, LenProperties
<1>3. s \o t # <<>> /\ Len(s \o t) \in Nat
  BY <1>1, <1>2, EmptySeq
<1>4. /\ Tail(s) \in Seq(S) /\ Len(Tail(s)) = Len(s) - 1
      /\ \A i \in 1 .. Len(Tail(s)) : Tail(s)[i] = s[i + 1]
  BY HeadTailProperties
<1>5. /\ Tail(s \o t) \in Seq(S) /\ Len(Tail(s \o t)) = Len(s \o t) - 1
      /\ \A i \in 1 .. Len(Tail(s \o t)) : Tail(s \o t)[i] = (s \o t)[i + 1]
  BY <1>1, <1>3, HeadTailProperties
<1>6. /\ Tail(s) \o t \in Seq(S) /\ Len(Tail(s) \o t) = Len(Tail(s)) + Len(t)
      /\ \A i \in 1 .. Len(Tail(s)) + Len(t) :
           (Tail(s) \o t)[i] = IF i <= Len(Tail(s)) THEN Tail(s)[i] ELSE t[i - Len(Tail(s))]
  BY <1>4, ConcatProperties
<1>7. Head(s \o t) = Head(s)
  <2>1. Head(s \o t) = (s \o t)[1] /\ Head(s) = s[1]
    BY <1>1, <1>3
  <2> QED
    BY <1>1, <1>2, <2>1
<1>8. Len(Tail(s \o t)) = Len(Tail(s) \o t)
  BY <1>1, <1>2, <1>4, <1>5, <1>6
<1>9. ASSUME NEW i \in 1 .. Len(Tail(s \o t)) PROVE Tail(s \o t)[i] = (Tail(s) \o t)[i]
  <2>1. i \in Nat /\ i + 1 \in 1 .. Len(s) + Len(t) /\ i \in 1 .. Len(Tail(s)) + Len(t)
    BY <1>1, <1>2, <1>4, <1>5
  <2>2. Tail(s \o t)[i] = IF i + 1 <= Len(s) THEN s[i + 1] ELSE t[i + 1 - Len(s)]
    BY <1>1, <1>5, <2>1
  <2>3. CASE i + 1 <= Len(s)
    BY <1>2, <1>4, <1>6, <2>1, <2>2, <2>3
  <2>4. CASE ~(i + 1 <= Len(s))
    <3>1. i - Len(Tail(s)) = i + 1 - Len(s) /\ ~(i <= Len(Tail(s)))
      BY <1>2, <1>4, <2>1, <2>4
    <3> QED
      BY <1>6, <2>1, <2>2, <2>4, <3>1
  <2> QED
    BY <2>3, <2>4
<1>10. Tail(s \o t) = Tail(s) \o t
  BY <1>5, <1>6, <1>8, <1>9, SeqEqual
<1> QED
  BY <1>3, <1>7, <1>10

\* What is left of a request
LEMMA FromIs ==
  ASSUME request \in Requests
  PROVE  /\ End = Len(Content(request)) + 2 /\ Len(Content(request)) \in Nat
         /\ Pieces(request) \in Seq(Piece) /\ From(0) = Pieces(request) /\ From(End) = <<>>
         /\ \A k \in 0 .. End : From(k) \in Seq(Piece) /\ Len(From(k)) = End - k
         /\ \A k \in 0 .. End - 1 :
              /\ From(k) # <<>> /\ Head(From(k)) = Pieces(request)[k + 1]
              /\ Tail(From(k)) = From(k + 1)
<1> USE DEF From, End
<1>1. /\ End = Len(Content(request)) + 2 /\ Len(Content(request)) \in Nat
      /\ Pieces(request) \in Seq(Piece)
  BY PiecesAre
<1>2. From(0) = Pieces(request)
  BY <1>1, SubSeqFull
<1>3. From(End) = <<>>
  BY <1>1, SubSeqEmpty
<1>4. ASSUME NEW k \in 0 .. End PROVE From(k) \in Seq(Piece) /\ Len(From(k)) = End - k
  <2>1. \A i \in k + 1 .. End : Pieces(request)[i] \in Piece
    BY <1>1, ElementOfSeq
  <2>2. k + 1 \in Int /\ End \in Int
    BY <1>1
  <2>3. /\ From(k) \in Seq(Piece)
        /\ Len(From(k)) = IF k + 1 <= End THEN End - (k + 1) + 1 ELSE 0
    BY <2>1, <2>2, SubSeqProperties
  <2> QED
    BY <1>1, <2>3
<1>5. ASSUME NEW k \in 0 .. End - 1
      PROVE  /\ From(k) # <<>> /\ Head(From(k)) = Pieces(request)[k + 1]
             /\ Tail(From(k)) = From(k + 1)
  <2>1. k + 1 \in 1 .. End /\ End \in k + 1 .. End /\ k \in 0 .. End /\ End - k # 0
    BY <1>1
  <2>2. Head(From(k)) = Pieces(request)[k + 1] /\ Tail(From(k)) = From(k + 1)
    BY <1>1, <2>1, HeadTailOfSubSeq
  <2>3. From(k) # <<>>
    <3>1. Len(From(k)) # 0
      BY <1>4, <2>1
    <3> QED
      BY <3>1, EmptySeq
  <2> QED
    BY <2>2, <2>3
<1> QED
  BY <1>1, <1>2, <1>3, <1>4, <1>5

\* A piece that is read is the next one of what is left.
LEMMA GetRest ==
  ASSUME Types, NEW at, Get(at)
  PROVE  /\ pc = at /\ buffer # <<>> /\ Rest # <<>> /\ Head(Rest) = Head(buffer) /\ Rest' = Tail(Rest)
         /\ UNCHANGED <<wire, clientVars, answered>>
<1>1. /\ pc = at /\ buffer # <<>> /\ buffer' = Tail(buffer) /\ UNCHANGED <<wire, clientVars, answered>>
      /\ buffer \in Seq(Piece) /\ wire \in Seq(Piece) /\ unsent \in Seq(Piece)
  BY DEF Get, Types, Streams
<1>2. buffer \o wire # <<>> /\ Head(buffer \o wire) = Head(buffer) /\ Tail(buffer \o wire) = Tail(buffer) \o wire
  BY <1>1, TailOfConcat
<1>3. buffer \o wire \in Seq(Piece)
  BY <1>1, ConcatProperties
<1>4. /\ (buffer \o wire) \o unsent # <<>> /\ Head((buffer \o wire) \o unsent) = Head(buffer \o wire)
      /\ Tail((buffer \o wire) \o unsent) = Tail(buffer \o wire) \o unsent
  BY <1>1, <1>2, <1>3, TailOfConcat
<1> QED
  BY <1>1, <1>2, <1>4 DEF Rest, clientVars

\* What is sent is still to be read.
LEMMA SendRest ==
  ASSUME Types, Send
  PROVE  Rest' = Rest /\ wire' \o unsent' = wire \o unsent /\ UNCHANGED <<request, asked, workerVars>>
<1>1. /\ unsent # <<>> /\ wire' = Append(wire, Head(unsent)) /\ unsent' = Tail(unsent)
      /\ UNCHANGED <<request, asked, workerVars>>
      /\ buffer \in Seq(Piece) /\ wire \in Seq(Piece) /\ unsent \in Seq(Piece)
  BY DEF Send, Types, Streams
<1>2. Head(unsent) \in Piece /\ Tail(unsent) \in Seq(Piece)
  BY <1>1, HeadTailProperties
<1>3. <<Head(unsent)>> \in Seq(Piece)
  BY <1>2
<1>4. unsent = <<Head(unsent)>> \o Tail(unsent)
  <2>1. 1 \in 1 .. Len(unsent) /\ Len(unsent) \in 1 .. Len(unsent)
    BY <1>1, EmptySeq
  <2>2. SubSeq(unsent, 1, Len(unsent)) = <<unsent[1]>> \o SubSeq(unsent, 1 + 1, Len(unsent))
    BY <1>1, <2>1, SubSeqRecursiveFirst
  <2>3. Tail(unsent) = SubSeq(unsent, 2, Len(unsent)) /\ Head(unsent) = unsent[1]
    BY <1>1, TailIsSubSeq
  <2> QED
    BY <1>1, <2>2, <2>3, SubSeqFull
<1>5. wire' = wire \o <<Head(unsent)>>
  BY <1>1, <1>2, AppendIsConcat
<1>6. (wire \o <<Head(unsent)>>) \o Tail(unsent) = wire \o (<<Head(unsent)>> \o Tail(unsent))
  BY <1>1, <1>2, <1>3, ConcatAssociative, SMTT(30)
<1>7. wire' \o unsent' = wire \o unsent
  BY <1>1, <1>4, <1>5, <1>6
<1>8. wire' \in Seq(Piece) /\ unsent' \in Seq(Piece) /\ buffer' = buffer
  BY <1>1, <1>2, AppendProperties DEF workerVars
<1>9. ASSUME NEW w \in Seq(Piece), NEW u \in Seq(Piece)
      PROVE  (buffer \o w) \o u = buffer \o (w \o u)
  <2>1. buffer \in Seq(Piece)
    BY <1>1
  <2> QED
    BY <2>1, ConcatAssociative, SMTT(30)
<1>10. (buffer \o wire) \o unsent = buffer \o (wire \o unsent)
  BY <1>1, <1>9
<1>11. (buffer \o wire') \o unsent' = buffer \o (wire' \o unsent')
  BY <1>8, <1>9
<1>12. Rest' = Rest
  BY <1>7, <1>8, <1>10, <1>11 DEF Rest
<1> QED
  BY <1>1, <1>7, <1>12

\* So is what is moved to the buffer.
LEMMA FillRest == ASSUME Types, Fill PROVE Rest' = Rest
<1>1. wire \in Seq(Piece) /\ buffer = <<>> /\ unsent' = unsent
  BY DEF Fill, Types, Streams, serveVars, clientVars
<1>2. PICK n \in 0 .. Len(wire) : buffer' = SubSeq(wire, 1, n) /\ wire' = SubSeq(wire, n + 1, Len(wire))
  <2>1. (IF Len(wire) < read_buff_size_ THEN Len(wire) ELSE read_buff_size_) \in 0 .. Len(wire)
    BY <1>1, HttpConnectionAssumption
  <2> QED
    BY <2>1 DEF Fill
<1>3. SubSeq(wire, 1, n) \o SubSeq(wire, n + 1, Len(wire)) = SubSeq(wire, 1, Len(wire))
  <2>1. 1 \in 1 .. Len(wire) + 1 /\ n \in 1 - 1 .. Len(wire) /\ Len(wire) \in n .. Len(wire)
    BY <1>1
  <2> QED
    BY <1>1, <2>1, ConcatAdjacentSubSeq
<1>4. buffer' \o wire' = wire /\ buffer \o wire = wire
  BY <1>1, <1>2, <1>3, SubSeqFull, ConcatEmptySeq
<1> QED
  BY <1>1, <1>4 DEF Rest

-----------------------------------------------------------------------------

\* The parts of a step that keeps the two in step: of the request being read the server has
\* read k pieces,
LEMMA Advance ==
  ASSUME Synchronised, pc \in Reading, UNCHANGED <<request, asked, answered>>,
         NEW k \in 0 .. End, Rest' = From(k), pc' \in Reading, Place(k)',
         req' = request, pc' \in {"line", "headers", "expect"} => Held'
  PROVE  Synchronised'
<1>1. Asked' /\ End' = End /\ From(k)' = From(k)
  BY DEF Synchronised, Asked, End, From
<1>2. pc' \notin Responding /\ pc' # "keep_alive"
  BY DEF Reading, Responding, Middle
<1>3. \E i \in 0 .. End' : Rest' = From(i)' /\ Place(i)'
  BY <1>1
<1> QED
  BY <1>1, <1>2, <1>3 DEF Synchronised

\* or it answers, and nothing of it is left to be read, now or later.
LEMMA Respond ==
  ASSUME Synchronised, pc \in Reading \cup Responding, UNCHANGED <<request, asked, answered>>,
         pc' \in Responding, Rest' = <<>> \/ Withheld'
  PROVE  Synchronised'
<1>1. Asked'
  BY DEF Synchronised, Asked
<1>2. pc' \notin Reading /\ pc' # "keep_alive" /\ pc' \notin {"line", "headers", "expect"}
  BY DEF Reading, Responding, Middle
<1> QED
  BY <1>1, <1>2 DEF Synchronised

\* When all has been read, it is answered or dispatched.
LEMMA AllRead ==
  ASSUME Synchronised, pc \in Reading \ {"line"}, UNCHANGED <<request, asked, answered, req>>,
         Rest' = <<>>, pc' \in {"head", "dispatch"}
  PROVE  Synchronised'
<1>1. CASE pc' = "head"
  BY <1>1, Respond DEF Responding
<1>2. CASE pc' = "dispatch"
  <2>1. request \in Requests /\ req' = request
    BY DEF Synchronised, Asked
  <2>2. End \in 0 .. End /\ End' = End /\ From(End) = <<>>
    BY <2>1, FromIs DEF End
  <2>3. Place(End)'
    BY <1>2, <2>2 DEF Place
  <2>4. pc' \in Reading /\ pc' \notin {"line", "headers", "expect"} /\ pc \in Reading
    BY <1>2 DEF Reading, Middle
  <2> QED
    BY <2>1, <2>2, <2>3, <2>4, Advance
<1> QED
  BY <1>1, <1>2

\* A piece that is read is the next one of the request.
LEMMA Taken ==
  ASSUME Types, Synchronised, pc \in Reading, NEW at, Get(at), NEW k \in 0 .. End, Rest = From(k)
  PROVE  /\ pc = at /\ k \in 0 .. End - 1 /\ k + 1 \in 0 .. End /\ End \in Nat
         /\ Head(buffer) = Pieces(request)[k + 1] /\ Rest' = From(k + 1)
         /\ UNCHANGED <<request, asked, answered, unsent>>
<1>1. request \in Requests
  BY DEF Synchronised, Asked
<1>2. /\ pc = at /\ Rest # <<>> /\ Head(Rest) = Head(buffer) /\ Rest' = Tail(Rest)
      /\ UNCHANGED <<request, asked, answered, unsent>>
  BY GetRest DEF clientVars
<1>3. End \in Nat /\ From(End) = <<>>
  BY <1>1, FromIs
<1>4. k \in 0 .. End - 1 /\ k + 1 \in 0 .. End
  BY <1>2, <1>3
<1> QED
  BY <1>1, <1>2, <1>3, <1>4, FromIs

\* Without content there is nothing behind the headers.
LEMMA Unread ==
  ASSUME request \in Requests, NoContent(request)
  PROVE  End = 2 /\ From(2) = <<>>
<1>1. Len(Content(request)) = 0
  BY ContentIs DEF NoContent
<1> QED
  BY <1>1, FromIs

\* With it there is as much as its kind says.
LEMMA Sizes ==
  ASSUME request \in Requests
  PROVE  /\ request.size \in Nat
         /\ request.delimited \in {"none", "length"} => End = request.size + 2
         /\ request.delimited = "chunked" =>
              /\ End = 3 * request.size + 4
              /\ \A j \in 0 .. request.size - 1 :
                   /\ Pieces(request)[3 * j + 3] = <<"size", request>>
                   /\ Pieces(request)[3 * j + 5] = <<"crlf", request>>
              /\ Pieces(request)[3 * request.size + 3] = <<"last", request>>
              /\ Pieces(request)[3 * request.size + 4] = <<"crlf", request>>
<1>1. request.size \in Nat
  BY RequestsAssumption DEF RequestType
<1>2. /\ End = Len(Content(request)) + 2 /\ Len(Content(request)) \in Nat
      /\ \A i \in 1 .. Len(Content(request)) : Pieces(request)[i + 2] = <<Content(request)[i], request>>
  BY FromIs, PiecesAre
<1>3. request.delimited \in {"none", "length"} => End = request.size + 2
  BY <1>2, ContentIs
<1>4. ASSUME request.delimited = "chunked"
      PROVE  /\ End = 3 * request.size + 4
             /\ \A j \in 0 .. request.size - 1 :
                  /\ Pieces(request)[3 * j + 3] = <<"size", request>>
                  /\ Pieces(request)[3 * j + 5] = <<"crlf", request>>
             /\ Pieces(request)[3 * request.size + 3] = <<"last", request>>
             /\ Pieces(request)[3 * request.size + 4] = <<"crlf", request>>
  <2>1. /\ Len(Content(request)) = 3 * request.size + 2
        /\ \A j \in 0 .. request.size - 1 :
             Content(request)[3 * j + 1] = "size" /\ Content(request)[3 * j + 3] = "crlf"
        /\ Content(request)[3 * request.size + 1] = "last"
        /\ Content(request)[3 * request.size + 2] = "crlf"
    BY <1>4, ContentIs
  <2>2. ASSUME NEW j \in 0 .. request.size - 1
        PROVE  /\ Pieces(request)[3 * j + 3] = <<"size", request>>
               /\ Pieces(request)[3 * j + 5] = <<"crlf", request>>
    <3>1. /\ 3 * j + 1 \in 1 .. Len(Content(request)) /\ 3 * j + 3 \in 1 .. Len(Content(request))
          /\ (3 * j + 1) + 2 = 3 * j + 3 /\ (3 * j + 3) + 2 = 3 * j + 5
      BY <1>1, <2>1
    <3>2. /\ Pieces(request)[(3 * j + 1) + 2] = <<Content(request)[3 * j + 1], request>>
          /\ Pieces(request)[(3 * j + 3) + 2] = <<Content(request)[3 * j + 3], request>>
      BY <1>2, <3>1
    <3> QED
      BY <2>1, <3>1, <3>2
  <2>3. /\ Pieces(request)[3 * request.size + 3] = <<"last", request>>
        /\ Pieces(request)[3 * request.size + 4] = <<"crlf", request>>
    <3>1. /\ 3 * request.size + 1 \in 1 .. Len(Content(request))
          /\ 3 * request.size + 2 \in 1 .. Len(Content(request))
          /\ (3 * request.size + 1) + 2 = 3 * request.size + 3
          /\ (3 * request.size + 2) + 2 = 3 * request.size + 4
      <4>1. ASSUME NEW n \in Nat
            PROVE  /\ 3 * n + 1 \in 1 .. 3 * n + 2 /\ 3 * n + 2 \in 1 .. 3 * n + 2
                   /\ (3 * n + 1) + 2 = 3 * n + 3 /\ (3 * n + 2) + 2 = 3 * n + 4
        OBVIOUS
      <4> QED
        BY <1>1, <2>1, <4>1
    <3>2. /\ Pieces(request)[(3 * request.size + 1) + 2] = <<Content(request)[3 * request.size + 1], request>>
          /\ Pieces(request)[(3 * request.size + 2) + 2] = <<Content(request)[3 * request.size + 2], request>>
      BY <1>2, <3>1
    <3> QED
      BY <2>1, <3>1, <3>2
  <2>4. End = 3 * request.size + 4
    BY <1>1, <1>2, <2>1
  <2> QED
    BY <2>2, <2>3, <2>4
<1> QED
  BY <1>1, <1>3, <1>4

-----------------------------------------------------------------------------

\* The two stay in step while the line and the headers of a request are read,
LEMMA SyncHead ==
  ASSUME SInv, tidy', KeepAlive \/ NextRequest \/ Fill \/ ReadRequestLine \/ ReadHeaders
  PROVE  Synchronised'
<1>0. Types /\ Final /\ tidy /\ Synchronised
  BY DEF SInv, KeepAlive, NextRequest, BeginRequest, Fill, ReadRequestLine, ReadHeaders
<1>1. CASE KeepAlive
  BY <1>1 DEF KeepAlive, Synchronised, Reading, Responding, Middle
<1>2. CASE NextRequest
  <2>1. /\ pc = "keep_alive" /\ wire # <<>> /\ pc' = "line" /\ buffer' = <<>>
        /\ UNCHANGED <<wire, unsent, request, asked, answered>>
    BY <1>2 DEF NextRequest, BeginRequest, serveVars, clientVars
  <2>2. Asked /\ wire \o unsent = Pieces(request) /\ Held
    BY <1>0, <2>1 DEF Synchronised, Between
  <2>3. Rest' = From(0)
    <3>1. wire \in Seq(Piece) /\ <<>> \o wire = wire
      BY <1>0, ConcatEmptySeq DEF Types, Streams
    <3> QED
      BY <2>1, <2>2, <3>1, FromIs DEF Rest, Asked
  <2>4. Asked' /\ Held' /\ End' = End /\ From(0)' = From(0) /\ 0 \in 0 .. End
    BY <2>1, <2>2, FromIs DEF Asked, Held, End, From
  <2>5. Place(0)'
    BY <2>1 DEF Place
  <2>6. pc' \notin Responding
    BY <2>1 DEF Responding
  <2>7. \E k \in 0 .. End' : Rest' = From(k)' /\ Place(k)'
    BY <2>3, <2>4, <2>5
  <2> QED
    BY <2>1, <2>4, <2>6, <2>7 DEF Synchronised
<1>3. CASE Fill
  <2>1. /\ pc \in ReadingAt /\ Rest' = Rest
        /\ UNCHANGED <<pc, request, asked, answered, unsent, left, req>>
    BY <1>0, <1>3, FillRest DEF Fill, serveVars, clientVars
  <2>2. pc \in Reading /\ pc' \notin Responding /\ pc' # "keep_alive"
    BY <2>1 DEF ReadingAt, Reading, Middle, Responding
  <2>3. PICK k \in 0 .. End : Rest = From(k) /\ Place(k)
    BY <1>0, <2>2 DEF Synchronised
  <2>4. Asked' /\ (Held => Held') /\ End' = End /\ From(k)' = From(k) /\ Place(k)'
    BY <1>0, <2>1, <2>2, <2>3 DEF Synchronised, Asked, Held, End, From, Place, Chunks
  <2>5. \E i \in 0 .. End' : Rest' = From(i)' /\ Place(i)'
    BY <2>1, <2>3, <2>4
  <2> QED
    BY <1>0, <2>1, <2>2, <2>4, <2>5 DEF Synchronised
<1>4. CASE ReadRequestLine
  <2>1. Get("line") /\ pc = "line" /\ pc \in Reading
    BY <1>4 DEF ReadRequestLine, Get, Reading
  <2>2. Rest = From(0) /\ 0 \in 0 .. End /\ Asked /\ Held /\ request \in Requests
    BY <1>0, <2>1, FromIs DEF Synchronised, Place, Asked
  <2>3. /\ 1 \in 0 .. End /\ Head(buffer) = Pieces(request)[1] /\ Rest' = From(1)
        /\ UNCHANGED <<request, asked, answered, unsent>>
    BY <1>0, <2>1, <2>2, Taken
  <2>4. Head(buffer) = <<"line", request>> /\ request.defect # "line"
    BY <2>2, <2>3, PiecesAre DEF Asked, Delimited
  <2>5. pc' = "headers" /\ req' = request
    BY <1>4, <2>4 DEF ReadRequestLine, parse_request_line
  <2>6. Place(1)' /\ Held' /\ pc' \in Reading
    BY <2>2, <2>3, <2>5 DEF Place, Held, End, Reading
  <2> QED
    BY <1>0, <2>1, <2>3, <2>5, <2>6, Advance
<1>5. CASE ReadHeaders
  <2>1. Get("headers") /\ pc = "headers" /\ pc \in Reading
    BY <1>5 DEF ReadHeaders, Get, Reading
  <2>2. Rest = From(1) /\ 1 \in 0 .. End /\ Asked /\ Held /\ request \in Requests /\ req = request
    BY <1>0, <2>1, FromIs DEF Synchronised, Place, Asked, Reading, Middle
  <2>3. 2 \in 0 .. End /\ Rest' = From(2) /\ UNCHANGED <<request, asked, answered, unsent>>
    BY <1>0, <2>1, <2>2, Taken
  <2>4. CASE NoContent(request) /\ pc' = "head"
    <3>1. Rest' = <<>>
      BY <2>2, <2>3, <2>4, Unread
    <3> QED
      BY <1>0, <2>1, <2>3, <2>4, <3>1, Respond DEF Responding
  <2>5. CASE req' = req /\ pc' = IF req.expect THEN "expect" ELSE "route"
    <3>1. Place(2)' /\ Held' /\ pc' \in Reading
      BY <2>2, <2>3, <2>5 DEF Place, Held, End, Reading, Middle
    <3> QED
      BY <1>0, <2>1, <2>2, <2>3, <2>5, <3>1, Advance
  <2>6. request.defect \in {"none", "long"}
    BY <2>2 DEF Asked, Delimited
  <2>7. CASE request.defect = "long"
    <3>1. NoContent(request)
      BY <2>2, <2>7 DEF Asked, Delimited
    <3> QED
      BY <1>5, <2>2, <2>4, <2>7, <3>1 DEF ReadHeaders, Refuse, Answer
  <2>8. CASE request.defect = "none"
    <3>1. req' = req /\ IF req.range = "bad" THEN Refuse(416)
                        ELSE UNCHANGED resVars /\ pc' = IF req.expect THEN "expect" ELSE "route"
      BY <1>5, <2>2, <2>8 DEF ReadHeaders
    <3>2. request.range = "bad" => NoContent(request)
      BY <2>2 DEF Asked, Delimited
    <3> QED
      BY <2>2, <2>4, <2>5, <3>1, <3>2 DEF Refuse, Answer
  <2> QED
    BY <2>6, <2>7, <2>8
<1> QED
  BY <1>1, <1>2, <1>3, <1>4, <1>5

\* while it is expected, routed and dispatched,
LEMMA SyncRoute ==
  ASSUME SInv, tidy', Expect \/ Route \/ Dispatch \/ ReadNothing
  PROVE  Synchronised'
<1>0. Types /\ Final /\ tidy /\ Synchronised
  BY DEF SInv, Expect, Route, AnswerUnread, Dispatch, ReadNothing, NothingAt
<1> DEFINE Kept == UNCHANGED <<request, asked, answered, unsent, req>> /\ Rest' = Rest
<1>1. CASE Expect
  <2>1. /\ pc = "expect" /\ pc \in Reading \ {"line"} /\ Kept
        /\ UNCHANGED <<wire, buffer, unsent>>
        /\ pc' = "route" \/ ((\E b \in Bodies : Answer(403, b, FALSE)) /\ UNCHANGED last)
    BY <1>1 DEF Expect, Reading, Middle, Rest, readVars, clientVars
  <2>2. PICK k \in 0 .. End : Rest = From(k) /\ Place(k)
    BY <1>0, <2>1 DEF Synchronised
  <2>3. k = 2 /\ request.expect /\ Asked /\ Held /\ req = request /\ request \in Requests
    BY <1>0, <2>1, <2>2 DEF Place, Synchronised, Asked
  <2>4. CASE pc' = "route"
    <3>1. Place(k)' /\ pc' \in Reading /\ pc' \notin {"line", "headers", "expect"}
      BY <2>3, <2>4 DEF Place, Reading, Middle
    <3> QED
      BY <1>0, <2>1, <2>2, <2>3, <3>1, Advance
  <2>5. CASE (\E b \in Bodies : Answer(403, b, FALSE)) /\ UNCHANGED last
    <3>1. Len(unsent) >= End - 2 /\ last.status # 100
      BY <1>0, <2>1, <2>3 DEF Held, Final
    <3>2. /\ buffer \in Seq(Piece) /\ wire \in Seq(Piece) /\ unsent \in Seq(Piece)
          /\ buffer \o wire \in Seq(Piece)
      BY <1>0, ConcatProperties DEF Types, Streams
    <3>3. Len(Rest) = Len(buffer \o wire) + Len(unsent) /\ Len(buffer \o wire) = Len(buffer) + Len(wire)
      BY <3>2, ConcatProperties DEF Rest
    <3>4. Len(Rest) = End - 2 /\ End \in Nat
      BY <2>2, <2>3, FromIs
    <3>5. Len(buffer) = 0 /\ Len(wire) = 0
      BY <3>1, <3>2, <3>3, <3>4, LenProperties
    <3>6. buffer = <<>> /\ wire = <<>>
      BY <3>2, <3>5, EmptySeq
    <3>7. unsent = From(2)
      <4>1. <<>> \o wire = wire /\ <<>> \o unsent = unsent
        BY <3>2, ConcatEmptySeq
      <4> QED
        BY <2>2, <2>3, <3>6, <4>1 DEF Rest
    <3>8. Withheld
      BY <2>3, <3>1, <3>6, <3>7 DEF Withheld, WaitsFor100, From, End
    <3>9. Withheld'
      BY <2>1, <2>5, <3>8 DEF Withheld, WaitsFor100
    <3> QED
      BY <1>0, <2>1, <2>5, <3>9, Respond DEF Answer, Responding
  <2> QED
    BY <2>1, <2>4, <2>5
<1>2. CASE Route
  <2>1. /\ pc = "route" /\ pc \in Reading \ {"line"} /\ Kept
        /\ UNCHANGED <<wire, buffer, unsent>>
    BY <1>2 DEF Route, Reading, Middle, Rest, readVars, serveVars, clientVars
  <2>2. Rest = From(2) /\ 2 \in 0 .. End /\ Asked /\ req = request /\ request \in Requests
    BY <1>0, <2>1 DEF Place, Synchronised, Asked
  <2>3. CASE NoContent(request) /\ pc' \in {"head", "dispatch"}
    <3>1. Rest' = <<>>
      BY <2>1, <2>2, <2>3, Unread
    <3> QED
      BY <1>0, <2>1, <2>3, <3>1, AllRead
  <2>4. ASSUME pc' \in Reading, pc' \notin {"line", "headers", "expect"}, Place(2)' PROVE Synchronised'
    BY <1>0, <2>1, <2>2, <2>4, Advance
  <2>5. CASE AnswerUnread
    <3>1. NoContent(req) /\ pc' = "head"
      BY <2>5, HandledTypes DEF AnswerUnread
    <3> QED
      BY <2>2, <2>3, <3>1
  <2>6. CASE handle_file_request
    <3>1. NoContent(request) /\ pc' = "head"
      BY <2>2, <2>6 DEF handle_file_request, Answer, Asked, Delimited, expect_content
    <3> QED
      BY <2>3, <3>1
  <2>7. CASE ~expect_content(req) /\ pc' = "dispatch"
    <3>1. NoContent(request)
      BY <2>2, <2>7 DEF Asked, Delimited
    <3> QED
      BY <2>3, <2>7, <3>1
  <2>8. CASE expect_content(req) /\ ReadContent
    <3>1. (ContentRead \/ \E s \in {400, 415} : ContentFails(s)) => pc' \in {"head", "dispatch"}
      BY <1>0, ReadTypes DEF ContentFails, Refuse, Answer, Types
    <3>2. CASE NoContent(request)
      <4>1. request.delimited = "none" /\ request.size = 0
        BY <3>2 DEF NoContent
      <4>2. pc' \in {"head", "dispatch", "until_close"}
        BY <2>2, <2>8, <3>1, <4>1 DEF ReadContent, GoTo
      <4>3. CASE pc' = "until_close"
        <5>1. Place(2)'
          BY <2>1, <4>1, <4>3 DEF Place
        <5> QED
          BY <2>4, <4>3, <5>1 DEF Reading, Middle
      <4> QED
        BY <2>3, <3>2, <4>2, <4>3
    <3>3. CASE ~NoContent(request)
      <4>1. /\ ~request.gzip /\ request.delimited # "bad_chunks" /\ request.form # "no_boundary"
            /\ request.method = "DELETE" => request.delimited = "length"
        BY <2>2, <3>3 DEF Asked, Delimited
      <4>2. request.size \in Nat /\ (request.delimited \in {"none", "length"} => End = request.size + 2)
        BY <2>2, Sizes
      <4>3. request.delimited \in {"none", "length", "chunked"}
        BY <2>2, <4>1, RequestsAssumption DEF RequestType
      <4>4. CASE request.delimited = "chunked"
        <5>1. pc' = "chunk"
          <6>1. /\ req.form # "no_boundary" /\ ~(req.method = "DELETE" /\ req.delimited # "length")
                /\ ~Unsupported(req) /\ req.delimited \in {"chunked", "bad_chunks"}
            BY <2>2, <4>1, <4>4 DEF Unsupported
          <6> QED
            BY <2>8, <6>1 DEF ReadContent, GoTo
        <5>2. request' = request /\ 0 \in 0 .. request.size /\ 2 = 3 * 0 + 2
          BY <2>1, <4>2
        <5>3. Place(2)'
          BY <4>4, <5>1, <5>2 DEF Place, Chunks
        <5> QED
          BY <2>4, <5>1, <5>3 DEF Reading, Middle
      <4>5. CASE request.delimited = "none"
        <5>1. pc' = "until_close"
          <6>1. /\ req.form # "no_boundary" /\ ~(req.method = "DELETE" /\ req.delimited # "length")
                /\ ~Unsupported(req) /\ ~(req.delimited \in {"chunked", "bad_chunks"})
                /\ req.delimited = "none"
            BY <2>2, <4>1, <4>5 DEF Unsupported
          <6> QED
            BY <2>8, <6>1 DEF ReadContent, GoTo
        <5>2. Place(2)'
          BY <2>1, <4>5, <5>1 DEF Place
        <5> QED
          BY <2>4, <5>1, <5>2 DEF Reading, Middle
      <4>6. CASE request.delimited = "length"
        <5>1. \/ pc' \in {"skip", "content"} /\ left' = request.size
              \/ request.size = 0 /\ ContentRead
          BY <2>2, <2>8, <4>1, <4>6 DEF ReadContent, GoTo, Unsupported
        <5>2. CASE pc' \in {"skip", "content"} /\ left' = request.size
          <6>1. End' = End /\ request' = request /\ 2 = End - request.size
            BY <2>1, <4>2, <4>6 DEF End
          <6>2. Place(2)'
            BY <4>6, <5>2, <6>1 DEF Place
          <6> QED
            BY <2>4, <5>2, <6>2 DEF Reading, Middle
        <5>3. CASE request.size = 0 /\ ContentRead
          <6>1. Rest' = <<>>
            <7>1. End = 2 /\ From(End) = <<>>
              BY <2>2, <4>2, <4>6, <5>3, FromIs
            <7> QED
              BY <2>1, <2>2, <7>1
          <6> QED
            BY <1>0, <2>1, <3>1, <5>3, <6>1, AllRead
        <5> QED
          BY <5>1, <5>2, <5>3
      <4> QED
        BY <4>3, <4>4, <4>5, <4>6
    <3> QED
      BY <3>2, <3>3
  <2> QED
    BY <1>2, <2>5, <2>6, <2>7, <2>8 DEF Route
<1>3. CASE Dispatch
  <2>1. pc = "dispatch" /\ pc \in Reading \ {"line"} /\ Kept /\ pc' = "head"
    BY <1>3, HandledTypes DEF Dispatch, Refuse, Answer, Reading, Middle, Rest, readVars, serveVars, clientVars
  <2>2. Rest = From(End) /\ request \in Requests
    BY <1>0, <2>1 DEF Place, Synchronised, Asked
  <2> QED
    BY <1>0, <2>1, <2>2, FromIs, AllRead
<1>4. CASE ReadNothing
  <2>1. /\ pc = "until_close" /\ pc \in Reading \ {"line"} /\ ContentRead
        /\ buffer = <<>> /\ wire = <<>> /\ unsent = <<>>
        /\ UNCHANGED <<request, asked, answered, unsent, req, wire, buffer>>
    BY <1>4 DEF ReadNothing, NothingAt, Reading, Middle, readVars, serveVars, clientVars
  <2>2. pc' \in {"head", "dispatch"}
    BY <1>0, <2>1, ReadTypes DEF Types
  <2>3. Rest' = <<>>
    <3>1. <<>> \in Seq(Piece)
      BY EmptySeq
    <3>2. <<>> \o <<>> = <<>>
      BY <3>1, ConcatEmptySeq
    <3> QED
      BY <2>1, <3>2 DEF Rest
  <2> QED
    BY <1>0, <2>1, <2>2, <2>3, AllRead
<1> QED
  BY <1>1, <1>2, <1>3, <1>4

\* while its content is read, however it is delimited,
LEMMA SyncContent ==
  ASSUME SInv, tidy', ReadData \/ SkipData \/ SwallowData \/ ReadChunkLine
  PROVE  Synchronised'
<1>0. Types /\ Final /\ tidy /\ Synchronised
  BY DEF SInv, ReadData, SkipData, SwallowData, ReadChunkLine
<1>1. PICK at \in {"content", "skip", "until_close", "chunk", "chunk_end", "trailer"} : Get(at)
  BY DEF ReadData, SkipData, SwallowData, ReadChunkLine
<1>2. pc = at /\ pc \in Reading \ {"line"} /\ pc \in Reading
  BY <1>1 DEF Get, Reading, Middle
<1>3. PICK k \in 0 .. End : Rest = From(k) /\ Place(k)
  BY <1>0, <1>2 DEF Synchronised
<1>4. Asked /\ req = request /\ request \in Requests
  BY <1>0, <1>1, <1>2 DEF Synchronised, Asked
<1>5. /\ k \in 0 .. End - 1 /\ k + 1 \in 0 .. End /\ End \in Nat
      /\ Head(buffer) = Pieces(request)[k + 1] /\ Rest' = From(k + 1)
      /\ UNCHANGED <<request, asked, answered, unsent>>
  BY <1>0, <1>1, <1>2, <1>3, Taken
<1>6. req' = req /\ left \in Nat /\ (pc \in {"content", "skip"} => left > 0)
  BY <1>0 DEF ReadData, SkipData, SwallowData, ReadChunkLine, Types, Control
<1>7. ASSUME pc' \in Reading, pc' \notin {"line", "headers", "expect"}, Place(k + 1)' PROVE Synchronised'
  BY <1>0, <1>2, <1>4, <1>5, <1>6, <1>7, Advance
<1>8. ASSUME k + 1 = End, pc' \in {"head", "dispatch"} PROVE Synchronised'
  <2>1. Rest' = <<>>
    BY <1>4, <1>5, <1>8, FromIs
  <2> QED
    BY <1>0, <1>2, <1>5, <1>6, <1>8, <2>1, AllRead
<1>9. /\ request.size \in Nat
      /\ Chunks => /\ End = 3 * request.size + 4
                   /\ \A j \in 0 .. request.size - 1 :
                        /\ Pieces(request)[3 * j + 3] = <<"size", request>>
                        /\ Pieces(request)[3 * j + 5] = <<"crlf", request>>
                   /\ Pieces(request)[3 * request.size + 3] = <<"last", request>>
                   /\ Pieces(request)[3 * request.size + 4] = <<"crlf", request>>
  BY <1>4, Sizes DEF Chunks
<1>10. End' = End /\ (Chunks' <=> Chunks)
  BY <1>5 DEF End, Chunks
<1>11. CASE ReadData
  <2>1. pc = "content" /\ left' = left - 1
    BY <1>11 DEF ReadData, Get
  <2>2. CASE left > 1
    <3>1. pc' = pc
      BY <1>11, <2>2 DEF ReadData
    <3>2. request.delimited = "length" /\ k = End - left
      BY <1>3, <2>1, <2>2 DEF Place
    <3>3. k + 1 = End' - left' /\ request' = request
      BY <1>5, <1>6, <1>10, <2>1, <3>2
    <3>4. Place(k + 1)'
      BY <2>1, <3>1, <3>2, <3>3 DEF Place
    <3> QED
      BY <1>7, <2>1, <3>1, <3>4 DEF Reading, Middle
  <2>3. CASE ~(left > 1) /\ request.delimited = "length"
    <3>1. ContentRead
      BY <1>4, <1>11, <2>3 DEF ReadData
    <3>2. pc' \in {"head", "dispatch"}
      BY <1>0, <3>1, ReadTypes DEF Types
    <3>3. left = 1 /\ k = End - left
      BY <1>3, <1>6, <2>1, <2>3 DEF Place
    <3> QED
      BY <1>5, <1>8, <3>2, <3>3
  <2>4. CASE ~(left > 1) /\ request.delimited # "length"
    <3>1. pc' = "chunk_end"
      BY <1>4, <1>11, <2>4 DEF ReadData
    <3>2. Chunks /\ \E j \in 0 .. request.size - 1 : k = 3 * j + 3
      BY <1>3, <2>1, <2>4 DEF Place
    <3>3. PICK j \in 0 .. request.size - 1 : k = 3 * j + 3
      BY <3>2
    <3>4. k + 1 = 3 * j + 4 /\ request' = request
      BY <1>5, <1>9, <3>3
    <3>5. Place(k + 1)'
      BY <1>10, <3>1, <3>2, <3>4 DEF Place
    <3> QED
      BY <1>7, <3>1, <3>5 DEF Reading, Middle
  <2> QED
    BY <2>2, <2>3, <2>4
<1>12. CASE SkipData
  <2>1. pc = "skip" /\ left' = left - 1
    BY <1>12 DEF SkipData, Get
  <2>2. request.delimited = "length" /\ k = End - left
    BY <1>3, <2>1 DEF Place
  <2>3. CASE left > 1
    <3>1. pc' = pc
      BY <1>12, <2>3 DEF SkipData
    <3>2. k + 1 = End' - left' /\ request' = request
      BY <1>5, <1>6, <1>10, <2>1, <2>2
    <3>3. Place(k + 1)'
      BY <2>1, <2>2, <3>1, <3>2 DEF Place
    <3> QED
      BY <1>7, <2>1, <3>1, <3>3 DEF Reading, Middle
  <2>4. CASE ~(left > 1)
    <3>1. pc' = "head"
      BY <1>12, <2>4 DEF SkipData, ContentFails, Refuse, Answer
    <3>2. left = 1
      BY <1>6, <2>1, <2>4
    <3> QED
      BY <1>5, <1>8, <2>2, <3>1, <3>2
  <2> QED
    BY <2>3, <2>4
<1>13. CASE SwallowData
  <2>1. pc = "until_close" /\ pc' = pc
    BY <1>13 DEF SwallowData, Get
  <2>2. request.delimited = "none" /\ k >= 2
    BY <1>3, <2>1 DEF Place
  <2>3. k + 1 >= 2 /\ request' = request
    BY <1>5, <2>2
  <2>4. Place(k + 1)'
    BY <2>1, <2>2, <2>3 DEF Place
  <2> QED
    BY <1>7, <2>1, <2>4 DEF Reading, Middle
<1>14. CASE ReadChunkLine /\ pc = "chunk"
  <2>1. Chunks /\ \E j \in 0 .. request.size : k = 3 * j + 2
    BY <1>3, <1>14 DEF Place
  <2>2. PICK j \in 0 .. request.size : k = 3 * j + 2
    BY <2>1
  <2>3. CASE j < request.size
    <3>1. j \in 0 .. request.size - 1 /\ k + 1 = 3 * j + 3
      BY <1>5, <1>9, <2>2, <2>3
    <3>2. Kind = "size"
      BY <1>5, <1>9, <2>1, <3>1 DEF Kind
    <3>3. pc' = "content" /\ left' = 1
      BY <1>14, <3>2 DEF ReadChunkLine, Get
    <3>4. Place(k + 1)'
      BY <1>5, <1>10, <2>1, <3>1, <3>3 DEF Place, Chunks
    <3> QED
      BY <1>7, <3>3, <3>4 DEF Reading, Middle
  <2>4. CASE ~(j < request.size)
    <3>1. j = request.size /\ k + 1 = 3 * request.size + 3
      BY <1>5, <1>9, <2>2, <2>4
    <3>2. Kind = "last"
      BY <1>5, <1>9, <2>1, <3>1 DEF Kind
    <3>3. pc' = "trailer"
      BY <1>14, <3>2 DEF ReadChunkLine, Get
    <3>4. k + 1 = End' - 1
      BY <1>9, <1>10, <2>1, <3>1
    <3>5. Place(k + 1)'
      BY <1>10, <2>1, <3>3, <3>4 DEF Place
    <3> QED
      BY <1>7, <3>3, <3>5 DEF Reading, Middle
  <2> QED
    BY <2>3, <2>4
<1>15. CASE ReadChunkLine /\ pc = "chunk_end"
  <2>1. Chunks /\ \E j \in 0 .. request.size - 1 : k = 3 * j + 4
    BY <1>3, <1>15 DEF Place
  <2>2. PICK j \in 0 .. request.size - 1 : k = 3 * j + 4
    BY <2>1
  <2>3. k + 1 = 3 * j + 5
    BY <1>5, <1>9, <2>2
  <2>4. Kind = "crlf"
    BY <1>5, <1>9, <2>1, <2>2, <2>3 DEF Kind
  <2>5. pc' = "chunk"
    BY <1>15, <2>4 DEF ReadChunkLine, Get
  <2>6. j + 1 \in 0 .. request'.size /\ k + 1 = 3 * (j + 1) + 2
    BY <1>5, <1>9, <2>2, <2>3
  <2>7. Place(k + 1)'
    BY <1>10, <2>1, <2>5, <2>6 DEF Place
  <2> QED
    BY <1>7, <2>5, <2>7 DEF Reading, Middle
<1>16. CASE ReadChunkLine /\ pc = "trailer"
  <2>1. Chunks /\ k = End - 1
    BY <1>3, <1>16 DEF Place
  <2>2. k + 1 = 3 * request.size + 4
    BY <1>5, <1>9, <2>1
  <2>3. Kind = "crlf"
    BY <1>5, <1>9, <2>1, <2>2 DEF Kind
  <2>4. ContentRead
    BY <1>16, <2>3 DEF ReadChunkLine, Get
  <2>5. pc' \in {"head", "dispatch"}
    BY <1>0, <2>4, ReadTypes DEF Types
  <2> QED
    BY <1>5, <1>8, <2>1, <2>5
<1> QED
  BY <1>11, <1>12, <1>13, <1>14, <1>15, <1>16 DEF ReadChunkLine, Get

\* while it is answered,
LEMMA SyncResponse ==
  ASSUME SInv, tidy', CheckRange \/ HandleError \/ WriteHead \/ WriteBody \/ WriteFails \/ EndRequest
  PROVE  Synchronised'
<1>0. Types /\ Final /\ tidy /\ Synchronised
  BY DEF SInv, CheckRange, HandleError, WriteHead, WriteBody, WriteFails, EndRequest, EndRequestWith
<1>1. /\ pc \in Responding /\ UNCHANGED <<wire, buffer, unsent, request, asked>>
  BY DEF CheckRange, HandleError, WriteHead, WriteBody, WriteFails, EndRequest, EndRequestWith,
     Responding, readVars, serveVars, clientVars
<1>2. Asked /\ (Rest = <<>> \/ Withheld)
  BY <1>0, <1>1 DEF Synchronised
<1>3. Rest' = Rest
  BY <1>1 DEF Rest
<1>4. ASSUME pc' \in Responding, answered' = answered,
             last'.status = last.status \/ last'.status # 100
      PROVE  Synchronised'
  <2>1. Withheld => Withheld'
    BY <1>1, <1>4 DEF Withheld, WaitsFor100
  <2> QED
    BY <1>0, <1>1, <1>2, <1>3, <1>4, <2>1, Respond
<1>5. CASE pc' \in {"closed", "aborted"}
  BY <1>5 DEF Synchronised, Reading, Responding, Middle
<1>6. CASE CheckRange
  BY <1>4, <1>6 DEF CheckRange, Refuse, Answer, Responding, serveVars
<1>7. CASE HandleError
  BY <1>4, <1>5, <1>7 DEF HandleError, Responding, serveVars
<1>8. CASE WriteHead
  <2>1. last'.status = status /\ pc' \in {"sent", "body"} /\ answered' = answered
    BY <1>8 DEF WriteHead
  <2>2. status # 100
    BY <1>0 DEF Types, Control, Statuses
  <2> QED
    BY <1>4, <2>1, <2>2 DEF Responding
<1>9. CASE WriteBody
  <2>1. WritePiece(FALSE) \/ WritePiece(TRUE) \/ (pc' = "sent" /\ UNCHANGED last)
    BY <1>9 DEF WriteBody, write_data, write_content, write_content_without_length,
       write_content_chunked, write_multipart_ranges_data, WriteUnlessStopped
  <2>2. WritePiece(FALSE) \/ WritePiece(TRUE) =>
          last'.status = last.status /\ pc' \in {"sent", "body"}
    BY PieceWritten
  <2>3. answered' = answered
    BY <1>9 DEF WriteBody
  <2> QED
    BY <1>4, <2>1, <2>2, <2>3 DEF Responding
<1>10. CASE WriteFails
  BY <1>5, <1>10 DEF WriteFails
<1>11. CASE EndRequest
  <2>1. pc' \in {"closed", "keep_alive"} /\ answered' = answered + 1 /\ UNCHANGED last
    BY <1>11 DEF EndRequest, EndRequestWith
  <2>2. answered' = asked'
    BY <1>0, <1>1, <1>2, <2>1 DEF Asked, Types, Counters
  <2>3. wire = <<>> /\ (unsent = <<>> \/ WaitsFor100)
    <3>1. /\ buffer \in Seq(Piece) /\ wire \in Seq(Piece) /\ unsent \in Seq(Piece)
          /\ buffer \o wire \in Seq(Piece)
      BY <1>0, ConcatProperties DEF Types, Streams
    <3>2. CASE Rest = <<>>
      <4>1. buffer \o wire = <<>> /\ unsent = <<>>
        BY <3>1, <3>2, ConcatEqualIffEmpty DEF Rest
      <4> QED
        BY <3>1, <4>1, ConcatEqualIffEmpty
    <3> QED
      BY <1>2, <3>2 DEF Withheld
  <2>4. Between'
    BY <1>1, <2>1, <2>2, <2>3 DEF Between, WaitsFor100
  <2> QED
    BY <2>1, <2>4 DEF Synchronised, Reading, Responding, Middle
<1> QED
  BY <1>6, <1>7, <1>8, <1>9, <1>10, <1>11

\* As long as the client waits for 100 it keeps all of the content.
LEMMA HeldSend ==
  ASSUME Types, Send, tidy', Held, request \in Requests, last.status # 100,
         NEW k \in 0 .. 2, NEW s \in Seq(Piece), s \o unsent = From(k)
  PROVE  Held'
<1>1. /\ unsent # <<>> /\ unsent' = Tail(unsent) /\ ~WaitsFor100 /\ request' = request
      /\ unsent \in Seq(Piece)
  BY DEF Send, Types, Streams
<1>2. Len(unsent') = Len(unsent) - 1 /\ End' = End /\ Len(unsent) \in Nat
  BY <1>1, HeadTailProperties, LenProperties DEF End
<1>3. End \in Nat /\ End >= 2 /\ k \in 0 .. End /\ 2 \in 0 .. End /\ Pieces(request) \in Seq(Piece)
  BY FromIs
<1>4. /\ From(k) \in Seq(Piece) /\ Len(From(k)) = End - k
      /\ From(2) \in Seq(Piece) /\ Len(From(2)) = End - 2
  BY <1>3, FromIs
<1>5. ASSUME request.expect, Len(unsent) = End - 2 PROVE FALSE
  <2>1. /\ Len(s \o unsent) = Len(s) + Len(unsent) /\ Len(s) \in Nat
        /\ \A i \in 1 .. Len(s) + Len(unsent) :
             (s \o unsent)[i] = IF i <= Len(s) THEN s[i] ELSE unsent[i - Len(s)]
    BY <1>1, ConcatProperties, LenProperties
  <2>2. Len(s) = 2 - k
    BY <1>3, <1>4, <1>5, <2>1
  <2>3. ASSUME NEW i \in 1 .. End - 2 PROVE unsent[i] = From(2)[i]
    <3>1. /\ Len(s) + i \in 1 .. Len(s) + Len(unsent) /\ ~(Len(s) + i <= Len(s))
          /\ Len(s) + i - Len(s) = i /\ Len(s) + i = 2 - k + i
      BY <1>3, <1>5, <2>1, <2>2
    <3>2. unsent[i] = From(k)[2 - k + i]
      BY <2>1, <3>1
    <3>3. \A n \in 0 .. 2 : \A m \in 1 .. End - n : From(n)[m] = Pieces(request)[n + m]
      <4> TAKE n \in 0 .. 2
      <4>1. ASSUME NEW m \in n + 1 .. End PROVE Pieces(request)[m] \in Piece
        <5>1. m \in 1 .. Len(Pieces(request))
          BY <1>3 DEF End
        <5> QED
          BY <1>3, <5>1, ElementOfSeq
      <4>2. \A m \in 1 .. End - (n + 1) + 1 : From(n)[m] = Pieces(request)[n + 1 + m - 1]
        BY <1>3, <4>1, SubSeqProperties DEF From
      <4> QED
        BY <1>3, <4>2
    <3>4. 2 - k + i \in 1 .. End - k /\ k + (2 - k + i) = 2 + i
      BY <1>3
    <3> QED
      BY <3>2, <3>3, <3>4
  <2>4. unsent = From(2)
    BY <1>1, <1>4, <1>5, <2>3, SeqEqual
  <2> QED
    BY <1>1, <1>5, <2>4 DEF WaitsFor100, From, End
<1> QED
  BY <1>1, <1>2, <1>3, <1>5 DEF Held

\* and while the client asks and sends, or the server is stopped.
LEMMA SyncClient ==
  ASSUME SInv, tidy', Client \/ Stop \/ UNCHANGED vars
  PROVE  Synchronised'
<1>0. Types /\ Final /\ tidy /\ Synchronised
  BY DEF SInv, Client, Ask, Send, KeepContent, Stop, vars
<1>1. Types /\ pc' = pc /\ req' = req /\ answered' = answered
  BY <1>0 DEF Client, Ask, Send, KeepContent, workerVars, Stop, vars
<1>2. CASE pc \in {"closed", "aborted"}
  BY <1>1, <1>2 DEF Synchronised, Reading, Responding, Middle
<1>3. CASE pc \notin {"closed", "aborted"} /\ Ask
  <2>1. ~Asked
    <3>1. answered >= asked /\ asked \in Nat /\ answered \in Nat
      BY <1>0, <1>3, HttpConnectionAssumption DEF Ask, Types, Counters
    <3> QED
      BY <3>1 DEF Asked
  <2>2. pc = "keep_alive"
    BY <1>0, <1>3, <2>1 DEF Synchronised, Types, Control, Pcs, Reading, Responding, Middle
  <2>3. answered = asked /\ wire = <<>>
    BY <1>0, <2>1, <2>2 DEF Synchronised, Between
  <2>4. /\ request' \in Requests /\ unsent' = Pieces(request') /\ Delimited(request')
        /\ asked' = asked + 1 /\ wire' = wire
    BY <1>3 DEF Ask
  <2>5. Asked'
    BY <1>0, <1>1, <2>3, <2>4 DEF Asked, Types, Counters
  <2>6. wire' \o unsent' = Pieces(request') /\ Len(unsent') >= Len(Pieces(request')) - 2
    <3>1. PICK r \in Requests : r = request'
      BY <2>4
    <3>2. Pieces(r) \in Seq(Piece) /\ Len(Pieces(r)) \in Nat /\ <<>> \o Pieces(r) = Pieces(r)
      BY PiecesAre, ConcatEmptySeq, LenProperties
    <3> QED
      BY <2>3, <2>4, <3>1, <3>2
  <2>7. Between'
    BY <2>5, <2>6 DEF Between, Held, End
  <2> QED
    BY <1>1, <2>2, <2>7 DEF Synchronised, Reading, Responding, Middle
<1>4. CASE pc \notin {"closed", "aborted"} /\ Send
  <2>1. /\ unsent # <<>> /\ ~WaitsFor100
        /\ UNCHANGED <<request, asked, workerVars>> /\ Rest' = Rest /\ wire' \o unsent' = wire \o unsent
        /\ buffer \in Seq(Piece) /\ wire \in Seq(Piece) /\ unsent \in Seq(Piece)
    BY <1>0, <1>4, SendRest DEF Send, Types, Streams
  <2>2. CASE pc = "keep_alive"
    <3>1. Asked /\ wire \o unsent = Pieces(request) /\ Held
      BY <1>0, <2>1, <2>2 DEF Synchronised, Between
    <3>2. wire \o unsent = From(0) /\ last.status # 100
      BY <1>0, <2>2, <3>1, FromIs DEF Final, Asked
    <3>3. Held'
      <4>1. PICK s : s = wire
        OBVIOUS
      <4>2. s \in Seq(Piece) /\ s \o unsent = From(0) /\ 0 \in 0 .. 2 /\ request \in Requests
        BY <2>1, <3>1, <3>2, <4>1 DEF Asked
      <4> QED
        BY <1>0, <1>4, <3>1, <3>2, <4>2, HeldSend
    <3>4. Between'
      BY <1>1, <2>1, <3>1, <3>3 DEF Between, Asked
    <3> QED
      BY <1>1, <2>2, <3>4 DEF Synchronised, Reading, Responding, Middle
  <2>3. CASE pc \in Responding
    <3>1. Rest # <<>>
      BY <2>1, ConcatProperties, ConcatEqualIffEmpty DEF Rest
    <3> QED
      BY <1>0, <2>1, <2>3, <3>1 DEF Synchronised, Withheld
  <2>4. CASE pc \in Reading
    <3>1. PICK k \in 0 .. End : Rest = From(k) /\ Place(k)
      BY <1>0, <2>4 DEF Synchronised
    <3>2. Asked /\ (pc # "line" => req = request)
      BY <1>0, <2>4 DEF Synchronised
    <3>3. ASSUME pc \in {"line", "headers", "expect"} PROVE Held'
      <4>1. k \in 0 .. 2 /\ Held /\ last.status # 100
        BY <1>0, <3>1, <3>3 DEF Place, Synchronised, Final
      <4>2. PICK s : s = buffer \o wire
        OBVIOUS
      <4>3. s \in Seq(Piece) /\ s \o unsent = From(k) /\ request \in Requests
        BY <2>1, <3>1, <3>2, <4>2, ConcatProperties DEF Rest, Asked
      <4> QED
        BY <1>0, <1>4, <4>1, <4>3, HeldSend
    <3>4. Asked' /\ End' = End /\ From(k)' = From(k) /\ Place(k)'
      BY <1>1, <2>1, <3>1, <3>2 DEF Asked, End, From, Place, Chunks, workerVars
    <3>5. \E i \in 0 .. End' : Rest' = From(i)' /\ Place(i)'
      BY <2>1, <3>1, <3>4
    <3>6. pc' \notin Responding /\ pc' # "keep_alive"
      BY <1>1, <2>4 DEF Reading, Responding, Middle
    <3> QED
      BY <1>1, <2>1, <3>2, <3>3, <3>4, <3>5, <3>6 DEF Synchronised
  <2> QED
    BY <1>0, <1>4, <2>2, <2>3, <2>4 DEF Types, Control, Pcs, Reading, Responding, Middle
<1>5. CASE pc \notin {"closed", "aborted"} /\ KeepContent
  <2>1. /\ answered = asked /\ unsent' = <<>> /\ UNCHANGED <<wire, asked, answered>>
    BY <1>5 DEF KeepContent, workerVars
  <2>2. ~Asked
    BY <1>0, <2>1, HttpConnectionAssumption DEF Asked, Types, Counters
  <2>3. pc = "keep_alive"
    BY <1>0, <1>5, <2>2 DEF Synchronised, Types, Control, Pcs, Reading, Responding, Middle
  <2>4. wire = <<>>
    BY <1>0, <2>2, <2>3 DEF Synchronised, Between
  <2>5. Between'
    BY <2>1, <2>4 DEF Between
  <2> QED
    BY <1>1, <2>3, <2>5 DEF Synchronised, Reading, Responding, Middle
<1>6. CASE Stop \/ UNCHANGED vars
  <2>1. UNCHANGED <<pc, wire, buffer, unsent, request, req, asked, answered, left, last>>
    BY <1>6 DEF Stop, vars, readVars, clientVars
  <2>2. /\ End' = End /\ Rest' = Rest /\ (Asked => Asked') /\ (Held => Held') /\ (Between => Between')
        /\ (Withheld => Withheld') /\ \A k : From(k)' = From(k) /\ (Place(k) => Place(k)')
    BY <2>1 DEF End, Rest, Asked, Held, Between, Withheld, WaitsFor100, From, Place, Chunks
  <2> QED
    BY <1>0, <2>1, <2>2 DEF Synchronised
<1> QED
  BY <1>2, <1>3, <1>4, <1>5, <1>6 DEF Client

\* A response in which the client can have seen an end is no 100.
LEMMA FinalStep == ASSUME Types, Final, [Next]_vars PROVE Final'
<1>1. NoResponse.status # 100 /\ status # 100
  BY DEF NoResponse, Types, Control, Statuses
<1>2. CASE UNCHANGED <<pc, last>>
  BY <1>2 DEF Final
<1>3. CASE KeepAlive \/ NextRequest \/ Fill
  BY <1>3 DEF KeepAlive, NextRequest, BeginRequest, Fill, serveVars, Final
<1>4. CASE ReadRequestLine \/ ReadHeaders
  BY <1>1, <1>4 DEF ReadRequestLine, ReadHeaders, Get, Final
<1>5. CASE Expect \/ Route \/ Dispatch \/ ReadNothing \/ ReadData \/ SkipData \/ SwallowData \/ ReadChunkLine
  <2>1. pc' \in {"closed", "head", "dispatch", "route", "content", "skip", "until_close", "chunk",
                 "chunk_end", "trailer"}
    <3>1. ContentRead \/ (\E s \in {400, 413, 415} : ContentFails(s)) => pc' \in {"head", "dispatch"}
      BY ReadTypes DEF ContentFails, Refuse, Answer, Types
    <3>2. CASE Expect \/ Dispatch
      BY <3>2, HandledTypes DEF Expect, Dispatch, Refuse, Answer
    <3>3. CASE Route
      BY <3>1, <3>3, HandledTypes DEF Route, AnswerUnread, handle_file_request, Answer, ReadContent, GoTo
    <3>4. CASE ReadNothing
      BY <3>1, <3>4 DEF ReadNothing, NothingAt, Refuse, Answer
    <3>5. CASE ReadData \/ SkipData \/ SwallowData
      BY <3>1, <3>5 DEF ReadData, SkipData, SwallowData, Get
    <3>6. CASE ReadChunkLine
      BY <3>1, <3>6 DEF ReadChunkLine, Get
    <3> QED
      BY <1>5, <3>2, <3>3, <3>4, <3>5, <3>6
  <2> QED
    BY <2>1 DEF Final
<1>6. CASE CheckRange \/ HandleError \/ WriteFails
  BY <1>6 DEF CheckRange, HandleError, WriteFails, Refuse, Answer, Final
<1>7. CASE WriteHead
  <2>1. last'.status = status
    BY <1>7 DEF WriteHead
  <2> QED
    BY <1>1, <2>1 DEF Final
<1>8. CASE WriteBody
  <2>1. pc = "body" /\ (WritePiece(FALSE) \/ WritePiece(TRUE) \/ UNCHANGED last)
    BY <1>8 DEF WriteBody, write_data, write_content, write_content_without_length,
       write_content_chunked, write_multipart_ranges_data, WriteUnlessStopped
  <2>2. WritePiece(FALSE) \/ WritePiece(TRUE) => last'.status = last.status
    BY PieceWritten
  <2> QED
    BY <2>1, <2>2 DEF Final
<1>9. CASE EndRequest
  BY <1>9 DEF EndRequest, EndRequestWith, Final
<1>10. CASE Client \/ Stop \/ UNCHANGED vars
  BY <1>2, <1>10 DEF Client, Ask, Send, KeepContent, Stop, workerVars, vars
<1> QED
  BY <1>3, <1>4, <1>5, <1>6, <1>7, <1>8, <1>9, <1>10 DEF Next, Worker

\* They are in step at first.
LEMMA InitSync == Init => Final /\ Synchronised
<1> SUFFICES ASSUME Init PROVE Final /\ Synchronised
  OBVIOUS
<1>1. pc = "keep_alive" /\ answered = asked /\ wire = <<>> /\ unsent = <<>>
  BY DEF Init
<1>2. last.status # 100
  <2>1. last = NoResponse
    BY DEF Init
  <2> QED
    BY <2>1 DEF NoResponse
<1>3. Between
  BY <1>1 DEF Between
<1>4. pc \notin Reading \cup Responding
  BY <1>1 DEF Reading, Responding, Middle
<1> QED
  BY <1>1, <1>2, <1>3, <1>4 DEF Final, Synchronised, Reading

\* Whatever the requests are, in whatever pieces they come and whatever handlers answer: as
\* long as the code provides for what happens, the server begins to read at the beginning of
\* a request, has answered every request before it exactly once, and has left nothing of them.
THEOREM StaysInStep == Spec => []InStep
<1>1. SInv /\ IInv /\ [Next]_vars => SInv'
  <2> SUFFICES ASSUME SInv, IInv, [Next]_vars PROVE SInv'
    OBVIOUS
  <2>1. Types'
    BY StreamsStep, ControlStep, ParsedStep, CountersStep DEF SInv, Types
  <2>2. Final'
    BY FinalStep DEF SInv
  <2>3. ASSUME tidy' PROVE Synchronised'
    BY <2>3, SyncHead, SyncRoute, SyncContent, SyncResponse, SyncClient DEF Next, Worker
  <2> QED
    BY <2>1, <2>2, <2>3 DEF SInv
<1>2. ASSUME SInv PROVE InStep
  <2> SUFFICES ASSUME tidy PROVE /\ pc = "line" /\ buffer # <<>> => Kind = "line"
                                 /\ pc = "keep_alive" =>
                                      IF answered = asked THEN wire = <<>> /\ (unsent = <<>> \/ WaitsFor100)
                                      ELSE answered = asked - 1 /\ wire \o unsent = Pieces(request)
    BY DEF InStep
  <2>1. ASSUME pc = "line", buffer # <<>> PROVE Kind = "line"
    <3>1. Rest = From(0) /\ request \in Requests
      BY <1>2, <2>1 DEF SInv, Synchronised, Place, Reading, Responding, Asked
    <3>2. buffer \in Seq(Piece) /\ wire \in Seq(Piece) /\ unsent \in Seq(Piece)
      BY <1>2 DEF SInv, Types, Streams
    <3>3. /\ buffer \o wire # <<>> /\ Head(buffer \o wire) = Head(buffer)
          /\ buffer \o wire \in Seq(Piece)
      BY <2>1, <3>2, TailOfConcat, ConcatProperties
    <3>4. Head(Rest) = Head(buffer)
      BY <3>2, <3>3, TailOfConcat DEF Rest
    <3>5. Head(From(0)) = Pieces(request)[0 + 1] /\ Pieces(request)[1] = <<"line", request>>
      <4>1. 0 \in 0 .. End - 1
        BY <3>1, FromIs
      <4> QED
        BY <3>1, <4>1, FromIs, PiecesAre
    <3> QED
      BY <3>1, <3>4, <3>5 DEF Kind
  <2>2. ASSUME pc = "keep_alive"
        PROVE  IF answered = asked THEN wire = <<>> /\ (unsent = <<>> \/ WaitsFor100)
               ELSE answered = asked - 1 /\ wire \o unsent = Pieces(request)
    <3>1. Between /\ answered \in Nat /\ asked \in Int
      BY <1>2, <2>2, HttpConnectionAssumption DEF SInv, Synchronised, Types, Counters
    <3> QED
      BY <3>1 DEF Between, Asked
  <2> QED
    BY <2>1, <2>2
<1>3. Init => SInv
  BY InitTypes, InitSync DEF SInv
<1> QED
  BY <1>1, <1>2, <1>3, Invariance, PTL DEF Spec

=============================================================================
