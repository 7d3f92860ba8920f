# CCTV_HaLow: specifications, checks and proofs

CCTV_HaLow films with Raspberry Pis and shows the films in a browser.
`program_client` on each pi cuts what its camera delivers into mp4 segments of
five seconds and sends them over one client-streaming gRPC call, with the state
of the pi and the verdict of a fire detector.  `program_server` saves every
segment and has `ffmpeg` turn it into an HLS playlist, which an HTTP server in
the same process (cpp-httplib, a header in this repository) hands to viewers.

This directory specifies both programs in TLA+, checks the specifications with
TLC, and proves properties of them with TLAPS.  Paths below are relative to
`src/`; `httplib.h` is `include/server/httplib.h`.

    tlc -config Grpc.cfg Grpc          # one run; PROJECT.json lists them all
    tlapm GrpcProofs.tla               # the proofs of one module

## 1. Inventory

### Components

| component | code | state | operations | talks to |
|---|---|---|---|---|
| main loop | `lib/client/ClientVideoStreamer.cc` | `frame_count_`, `start_tick_count_`, `is_emergency_` | `StreamVideo`, `EncodeToMemory` | calls all the client's other parts |
| fire detection | `lib/client/Vision.cc` | `is_emergency_` | `CheckVisionEmergency` | called for every frame |
| encoder | `lib/client/MemoryVideoWriter.cc` | codec and format context, memory buffer, two counters | `Initialize`, `WriteFrame`, `GetMemoryBuffer`, `Reset` | libav |
| state of the pi | `lib/client/ClientCheckPi.cc` | redirected `cout`/`cerr`, static traffic counters | `CheckPiStatus` | shell commands |
| connection | `lib/client/Grpc.cc` | `is_connected_`, `frame_message_`, completion queue | `Write`, `GetIsConnected`, `GrpcThread` | gRPC; a thread of its own |
| server end | `lib/server/ServerVideoStreamer.cc` | `index_name_`, `frame_` per call | `OnReadDone`, `OnDone`, `UpdateM3u8` | gRPC callbacks, disk, `ffmpeg` |
| files | `lib/server/directoryAPI.cc` | `video/<pi>/` | `CreateDirectoryIfNotExists`, `WriteMsgToFile` | disk |
| servers | `lib/server/ServerStartAPI.cc`, `app/server/server_main.cc` | two threads | `RunServer`, `RunServerHLS` and its two handlers | gRPC, httplib, disk |
| HTTP server | `httplib.h` | listening socket, queue of jobs, workers; per connection a read buffer, a request, a response | `listen`, `stop`, `process_request`, `read_content`, `write_response` | sockets, the handlers |
| message | `protos/streaming.proto` | | `Frame`, `streamVideo` | |

How they interact:

    camera -> StreamVideo -> MemoryVideoWriter           GrpcThread
                  |   \__ CheckPiStatus (cout, cerr) ........|  is_connected_
                  |______ Grpc::Write ... gRPC ... completion queue
                                          |
          CallBack::OnReadDone  (one reactor per call)
              |-- WriteMsgToFile -> video/<pi>/<index>.mp4
              |-- system("ffmpeg ...") -> output<n>.ts, output.m3u8
                                          |
          RunServerHLS: handlers that read the files  <-  httplib::Server  <-  viewers

### What is hard, and what makes each part correct

* **Connection.**  Two threads share `is_connected_` without a lock.  The thread
  that writes it starts before the constructor initialises it; the one that
  reads it acts on it a whole encoding later.  A client must not give up while
  its call is alive, must not write on once it knows the call is dead, must not
  think a dead call alive again, and must end once the call is dead.
* **Main loop and encoder.**  The encoder holds frames back across calls; two
  counters of the same frames, kept by two classes, decide the frame rate; the
  contexts and the buffer are replaced for every segment.  Every frame must be
  in exactly one segment, at the right time.
* **State of the pi.**  The streams that another thread prints to are pointed at a
  local buffer while commands may throw; static counters outlive calls that
  failed.  The console must come back, and every byte must be counted once.
* **Server end.**  Reactors run on different threads; a handler is not atomic,
  takes as long as `ffmpeg` does and may fail half-way; `ffmpeg` survives the
  server.  A file must hold the message its number says, a playlist must be in
  the order of filming, without gaps, and name only files that exist.
* **Servers.**  Either thread may end the process of both; viewers read files
  while `ffmpeg` rewrites them.
* **HTTP server.**  Connections change hands between the thread that accepts and
  the workers, while another thread may stop the server.  On a connection, the
  two ends must agree where each request and response ends, whatever the content
  is delimited by, and whichever of its parts is refused, late or left out.  What
  arrives is cut anywhere.

`PROJECT.json` lists the hazards line by line (`hazards`), with the properties
that cover each, or the reason why none does.

## 2. Modules

| module | models | used by |
|---|---|---|
| `Grpc` | class `Grpc` between its two threads and the library | itself; `VideoStreamer` |
| `MemoryVideoWriter` | the encoder as a record and operators on it | `VideoStreamer` (EXTENDS) |
| `VideoStreamer` | the client process: main loop, encoder, connection | itself |
| `ClientCheckPi` | `CheckPiStatus`, with the console it shares with `GrpcThread` | itself |
| `CallBack` | the reactors of the server, the disk and `ffmpeg` | `CallBackHls` |
| `Hls` | abstract: the playlist and the segments of a pi | `CallBackHls`, `ProgramServer` |
| `CallBackHls` | the refinement: `CallBack` implements `Hls` | `MCCallBack` |
| `ProgramServer` | `main`, the two servers, the two handlers and viewers, over the files of `Hls` | itself |
| `ThreadPool` | the queue of jobs and its workers | `HttpListener` (EXTENDS) |
| `HttpListener` | `httplib::Server` from `listen` to its return, with `stop` | itself |
| `HttpConnection` | requests and responses on one connection | `MCHttpConnection` |
| `HttpText` | encodings, headers, query strings, paths | `MCHttpData` |
| `HttpRanges` | ranges and `multipart/byteranges` | `MCHttpData` |
| `HttpStream` | `SocketStream` and the readers above it | `HttpMultipart` (EXTENDS) |
| `HttpMultipart` | `MultipartFormDataParser`, fed by `HttpStream` | `MCHttpData` |
| `MCCallBack`, `MCHttpConnection`, `MCHttpData` | instances for TLC | |
| `GrpcProofs`, `VideoStreamerProofs`, `ClientCheckPiProofs`, `CallBackProofs`, `ProgramServerProofs`, `HttpListenerProofs`, `HttpConnectionProofs`, `HttpDataProofs` | the theorems | |

### Grpc

`main` says how far the main thread is in its use of the object: two steps of the
constructor, then `"loop"` (before `GetIsConnected`) and `"frame"` (after it).
`StartCall` and `InitFlag` are the member initialisers in the order of their
declaration; `is_connected_` starts with any value, because the compiler gives
it none.  `NextEvent` and `HandleEvent` are `GrpcThread`: the first is
`cq_.Next`, the second the branch for the tag and `ok` it returned, so the main
thread may run between them.  `Complete` and `CallDies` are the library, as the
code uses it: operations on one call complete in order, with `ok` as long as the
call is open, and never again with `ok` after it is dead.  `WriteWhileBusy` is
the assertion of the library against a second outstanding write.

The read and the write of `is_connected_` are single steps.  The code has a data
race on it, which C++ leaves undefined; for a `bool` that is read once per turn
of a loop full of opaque calls the build reads and writes one byte, and the
model lets every interleaving of the two happen.

### MemoryVideoWriter and VideoStreamer

The encoder is a record `w`: `codec` holds the packets sent to the encoder and
not yet received, `muxed` those in the mp4, `refused` those `av_write_frame` did
not take.  A packet is a frame number with its pts.  `EncodeVideoFrame` lets the
encoder hand out any subset of what it holds.

`VideoStreamer` has one action per stretch of the loop between two calls that
the other thread can see: `Grab` (`cap.read`, and the check of the picture),
`Check` (`GetIsConnected`), `EncodeFrame` (`WriteFrame` and the test of the
clock), then, when the time is over, `SetOther`, `CloseSegment`
(`GetMemoryBuffer`, `SetVideoFromMemory`), `WriteSegment` and `ResetWriter`.
`G == INSTANCE Grpc WITH main <- GrpcMain` supplies the variables and steps of
the connection; `GrpcMain` maps the program counter of the loop to what `Grpc`
knows of it.  Time is `elapsed`, whole seconds since the clock was started, and
advances by any amount when a frame is waited for.

`shot` is what the camera delivered, `sent` what was handed to gRPC: per segment the
message, with the packets of its video (`message.data`), and beside it, as history, the
packets that went into the encoder for it (`window`) and those the muxer refused.  That
the video is all of the window but the refused packets is what `SegmentsTile` says, and
what it loses without the flush or with a buffer that is closed.

`VisionOfLastFrame` judges the verdict by the ratio the source declares, 0.1, wherever the
code agrees with that: the `int` it is stored in makes it 0, so that between no red
pixel and a tenth of them the code reports a fire which the declared ratio would not.

### ClientCheckPi

One action per statement of `CheckPiStatus` that touches something shared: the
two `rdbuf` calls each way, the log, the three parts with their commands, the
traffic counters.  A command throws, or prints something that matches or does
not.  `stream` holds where `cout` and `cerr` write; `GrpcThread` takes that
buffer in `BeginPrint` and uses it in `EndPrint`, so that the redirection may
come in between.  The kernel's counters of `wlan0` advance on their own; `rates`
is history: what each reported rate divides by what.

### CallBack, CallBackHls and Hls

One reactor per call.  `OnReadDone(true)` touches the disk several times and
waits for a process, so it is cut there: `OnReadDone` (release the fields, make
the directory), `OpenFile` (the `ofstream`, which truncates the file), `WriteMsgToFile`
(its content and the close, and the start of `ffmpeg`), the `ffmpeg` steps, `NextRead`
(the index, the cleared frame, `StartRead`).  The handler always goes through all of
them, in this order; `reactor[s]` says where it is.  Each failing branch of the code is a
disjunct.  An empty field is released as null: a message without video leaves its file
emptied (`"emptying"`), and for one with an empty name, status or vision, `OnReadNull`,
the pointer is dereferenced and the process dies.  A video on disk is `written` once it
has been closed; the server may die before.

`ffmpeg` is external.  It is modelled from its command line: it opens its input and,
with `append_list` (every index but 1), the old playlist; for each part of the video,
which it reads from the file as that is then, it writes `output<n>.ts`, then the
playlist; with `delete_segments` and `hls_delete_threshold 1` it deletes the files of
dropped entries but the newest.  Another process may run between any two of these steps,
and it may fail at any of them.

`Crash` takes the server and every reactor away and leaves the disk and the
`ffmpeg` processes; `Restart` brings back a server with no stream.

`Hls` is what all this is for, seen from the files: a segment is cut whole, then
listed at the end of the playlist or as the first entry of a new one, and only
files that are not listed go.  `CallBackHls` maps `playlist[Pi]`, `ts[Pi]` and
`Fresh`, what `ffmpeg` has cut for `Pi` and not listed, to the three variables of
`Hls`; the constant `Pi` is any of the `Names`.

### ProgramServer

`main` detaches a thread for `RunServer` and runs `RunServerHLS` itself;
`process` ends when `main` returns or the null pointer of a failed
`BuildAndStart` is used.  A viewer asks for the playlist or for an entry of the
last playlist it was sent; a handler opens the file in one step and reads it in
another, while the files go on as `Hls` says (`ffmpeg` outlives the process).

### ThreadPool and HttpListener

What the pool does under its mutex is one step; notifications come after the
mutex is released, as in the code.  `HttpListener` has one action per place
where the thread in `listen` can be overtaken: binding (address after address),
the look at `svr_sock_`, `accept`, `enqueue` and its refusal, the notification,
the shutdown of the pool, joining.  A worker takes its connection through the
rounds of `process_server_socket_core`; it takes one only inside `listen_internal`,
which makes the pool and ends it.  A request is answered, fails or ends the
connection (`HttpConnection` models its inside).  `stop` is its three steps.
Descriptors are numbered by the lowest free number, as the system does it, since
`select_read` refuses numbers from `FD_SETSIZE` on.

### HttpConnection

The client's stream is a sequence of pieces `<<kind, request>>`: line, headers, data and
the lines of the chunked encoding.  They arrive one by one, are moved to `read_buff_` in
portions, and the server reads the next piece as whatever it expects, so it can be seen
when it takes the content of one request for the line of another.  `pc` follows
`process_request`, `routing`, `read_content_core` with its ways to read content, and
`write_response_core` with its four ways to write a body.  Handlers and content
providers are the user's: they set any body and status, throw, fail.  A trailer behind
the chunks adds to the headers after `connection_closed` has been computed from them
(`read_trailer`).  The head of a response, and the lines between ranges, are written
without a look at the result: `last.whole` says whether they were, and a client that did
not get them asks nothing more.  `tidy` is a history variable that becomes FALSE where
the code itself does not provide for what happened (section 6); `Delimited` names the
requests that do that.

### HttpText, HttpRanges, HttpStream, HttpMultipart

Pure functions of the header as operators (folds and recursive functions), and
two readers as state machines: `HttpStream` reads a line byte by byte, then the
content in portions, with the `SocketStream` buffer below; `HttpMultipart` is the
form parser, state by state of its `switch`, fed with the portions `HttpStream`
happens to get.  `MCHttpData` checks the operators one input per initial state
and the parser over all ways a form can be cut.

## 3. Runs

| run | question | states |
|---|---|---|
| `grpc` | Is the flag trustworthy, and does a client with a dead call end? | 535 |
| `streamer` | With an encoder and a muxer that misbehave: is the frame rate that of the window before, do the messages hold a partition of the film, in order, each segment with its own time line, is the vision field right, and is the connection used as `Grpc` says? | 3.1 million |
| `check_pi` | Does the console come back, is every byte in one rate, is a status of one call, whatever commands throw? | 1.5 million |
| `callback_exclusive` | What do viewers get from streams of one pi, one after the other, with crashes, and does `ffmpeg` find in its input what was saved; does all this implement `Hls`? | 221 thousand |
| `callback_live` | Is every stream whose client is gone closed, and do two pis that stream at the same time stay apart? | 10 thousand |
| `program_server` | Do both servers end up running or none; which segments can a viewer miss, and does it get what the playlist listed? | 32 thousand |
| `http_listener` | Has a connection one owner, is it closed once and in the end, is the client told, and does `stop` end `listen` and leave nothing behind? | 238 thousand |
| `http_connection` | Do client and server agree on where requests and responses end, and is every request answered or its connection closed? | 783 thousand |
| `http_data` | Are forms received as sent, unless they are cut where the parser loses track; are ranges, conversions and paths right? | 77 thousand |
| `streamer_abort`, `check_pi_tx`, `http_range` | What comments, assertions and names say and the code does not do (section 5) | violated |

### Bounds, and why they are enough

* `MaxEvents` (2 or 3): events in the completion queue.  A call has at most one
  operation outstanding, so more than two waiting events only mean a `GrpcThread`
  that sleeps longer; the theorems hold for every bound.
* `MaxFrames` (4) of `VideoStreamer`: two segments of two frames, or of three and
  one, and one of a single frame, whose frame rate is 0.  The film may also end
  early, since every step may fail.
* `Duration` 2 instead of 5: the code only compares with it and divides by it; 2 is
  the least value for which the division rounds.
* `RedPercents` (0, 5, 20): none, some below the threshold the source writes (10 of
  100), some above it.
* `MuxFaults = 1`: one refused packet at any place.
* `ClientCheckPi`: three calls, so that one that fails lies between two that do not;
  two packets and four ticks of the clock at any time between them, one of which may
  fall between no two calls, so that the elapsed time is 0.
* `MaxFrames = 2` of `CallBack`: index 1, which starts a playlist, and an index
  that appends to it.  Two streams, for every way they can meet; a third would
  meet the second as that meets the first.
* `MaxParts` 2, `ListSize` 2: with these the list overflows and files are deleted,
  within one process and across two.  In `callback_live`, which does not ask about
  the playlist, both are 1.
* `ProgramServer`: five segments, a list of two and a new stream with the fifth: the
  list is replaced twice while a viewer holds it, and `output0.ts` is written again.
* `HttpListener`: two connections for one worker, a queue of one, so that the second
  waits or is refused; two requests per connection; one fault of `accept` at any time;
  `FD_SETSIZE` such that the second connection may lie beyond it.  That any number of
  workers share the queue rightly is a theorem (`OwnedByOne`).
* `HttpConnection`: two requests, the first of which may leave the stream in disorder
  for the second, out of 24 that differ from a plain one in one way each; content of up
  to three pieces, one more than may be taken; a buffer of two pieces, so that the
  piece behind a request is read with it or not.
* `http_data`: five forms with contents that look like the beginning of a boundary, cut
  in every way by a buffer of four and a receiver's buffer of five characters; strings of
  up to three characters out of those the conversions treat differently, all ranges of
  contents of up to four bytes, paths of up to seven characters, and the code points and
  sizes at which an encoding changes its length.  `ULONG_MAX` is 65535 instead of 2^64 - 1:
  the code only compares with it, and sizes below, at and above it are tried.

### Fairness

* `DeadCallEndsClient`: both threads run (weak fairness); the library fails what is
  outstanding on a dead call; the camera goes on delivering frames while the clock runs,
  so a loop that films for ever finds `kDurationSeconds` over again and again (strong
  fairness of the write).  Nothing is assumed of an open call: a server may hold a write
  back for ever.
* `StreamIsClosed`: gRPC runs the callbacks that are due, and each `ffmpeg` ends.  No
  client is assumed to do anything, nor the server to be restarted.
* `BothServersOrNone`: the two threads run, and `listen` binds or fails.
* `AcceptedIsClosed`, `StopEndsListen`: the thread in `listen`, each worker and a stop
  that has begun go on.  A worker that waits for a client goes on because its waits have
  timeouts (`keep_alive_timeout_sec_`, `read_timeout_sec_`, `write_timeout_sec_`);
  clients and whoever might call `stop` owe nothing.  `accept` is assumed to fail once
  its socket is shut down, as it does on Linux.
* `Answered`: the worker goes on, for the same reason.  Handlers are assumed to return.

### Where streams of one pi overlap

`Exclusive` says that a pi opens a stream only when the server has done with its
previous one: a client that has lost its call exits and has to be started again,
by hand or by a reboot, while the last video takes `ffmpeg` (with `-c:v copy`)
a moment.  Nothing in the code enforces it.  Without it two `ffmpeg` processes
rewrite one playlist and read files that are being replaced: TLC refutes
`InputIsCurrent`, `PlaylistInOrder`, `SegmentOnDisk` and `PlaylistPlays` with
`Exclusive = FALSE`.  `FileIsNthFrame`, `TypeOK` and `Isolation` are proved, and
`StreamIsClosed` is checked, without the assumption; the four properties are proved
as `[](Exclusive => ...)`, and `ImplementsHls` from `Exclusive`.

Even one after the other, a new stream starts again at `output0.ts`.
`PlaylistPlays` states exactly what viewers of the old playlist can rely on: an
entry plays what it was listed for, or the first video of a newer stream.

## 4. Proofs

All are about every value of the constants, from the named assumptions of the modules
only; what a theorem about data assumes of its input is stated in it.  Each theorem
comes from an inductive invariant, called `IInv` unless another name is given here,
which holds initially and is kept by every step.

* **`GrpcProofs`**: `TypeCorrect`, `DisconnectIsReal`, `OneLateWrite`,
  `StaysDisconnected`.  None of the safety properties is inductive, because what
  the flag will be depends on what is still in the queue.  `IInv` adds that a
  failed event means a dead call (`FailureMeansDead`), that after a failed event
  only failed ones follow (`FailuresAreLast`), that once the flag is down nothing
  that succeeded is left (`FlagDown`), and that after a late write the loop is
  back at the question (`LateWriteIsLast`).  `FlagDown` is what makes
  `NeverReconnected` true although `case Type::WRITE` raises the flag without
  looking.
* **`VideoStreamerProofs`**: `ImplementsGrpc`, `Spec => GrpcSpec`: every step of the
  client is a step of `Grpc` with `main` read as `GrpcMain`, or leaves it alone, so
  three of the theorems of `Grpc` hold of the client (`DisconnectIsRealInClient`,
  `OneLateWriteInClient`, `StaysDisconnectedInClient`).  The first says that "server
  disconnected" is only said, and the flag only down, for a dead call; the second that
  one segment at most is written once the flag is down.  It does not bound what goes to
  a dead call before `GrpcThread` has handled a failure.  And what the segments hold:
  `FramesAreTiled`, `TimelinesAreWhole`, `RateIsOfPreviousWindow`,
  `VisionIsOfLastFrame`, for any number of frames, any duration, any packets held back
  or refused.  Packets of the open window are scattered over the encoder, the mp4 and
  the refused ones; `Held` says that together they are a run of consecutive frames
  stamped from 0, as many as the writer counted, ending with the last one filmed.  When
  the buffer has been closed none is left in the encoder and the buffer was open until
  then, so the message has all but the refused ones.  `Counts` ties the two counters of
  frames to each other and to the place in the loop, `Segments` and `Tiling` say that
  what was sent are such runs, up to where the open one begins, and `Rates` and
  `Visions` carry the rate and the verdict from where they are computed to where they
  are used.
* **`ClientCheckPiProofs`**: `ConsoleComesBack`, `StatusIsOfThisCall`, for any number
  of calls and messages.  The invariant says where the two streams point from
  statement to statement, and which parts are of this call; what `GrpcThread` does to
  a stream never changes where it points.  `RatesFollow`, from `RInv`: the static
  counters are those of the last rate reported (`Statics`), through any number of
  calls that failed in between.
* **`CallBackProofs`**: in three steps, for any number of pis, streams, messages,
  parts and any size of the list.
  `FilesAreNthFrames`: that file k holds message k cannot be seen from the files, so
  the invariant adds `Counting` (the index of a waiting reactor is the number of the
  next message, that of a busy one the number of the message in hand) and
  `InboxInOrder`.
  `TypesAreKept` and `PisAreIsolated`, whoever shares a name, from `Shared`: a process
  reads and lists only videos of the pi in whose directory it works (`Sources`),
  playlists and the lists in memory are windows on a run of numbers (`Windows`), and a
  stream has one process at most (`Waits`).  `FfmpegReadsWhatWasSaved`,
  `PlaylistsAreInOrder`, `SegmentsAreKept`, `PlaylistsPlay` and `ServerImplementsHls`,
  while a pi has one stream at a time, from `Ordering`: one stream of a name is busy
  (`Alone`), as long as a process runs its input is the one file its stream has saved
  and closed (`Inputs`), between two segments a process has published what it holds
  (`Published`), what is listed is of videos saved before (`Progress`), and lists name
  files that are there and play what was listed (`Kept`).  For the refinement `Pending`
  says how what a process has cut joins the playlist when it is published, or starts a
  new one.  A crash takes the reactors away and leaves the processes; the invariants are
  about processes, and hold on.
* **`ProgramServerProofs`**: `ListedIsPlayed`, `FoundUnlessBehind`, for any number of
  viewers and segments.  A viewer may hold an entry for as long as it likes, so the
  invariant is about entries that have once been listed, not about the playlist:
  `Kept(e)` says that whatever file has the number of `e`, now or later, plays `e` or a
  stream started since; every step of `Hls` keeps it (`Files`), and what viewers and
  handlers hold are such entries (`Views`).
* **`HttpListenerProofs`**: `OwnedByOne`, `LastIsAnnounced`, for any number of workers,
  connections and places in the queue.  `Owned` ties the queue to the states of the
  connections: what is queued is in state `"queued"`, there once and with no worker; what
  a worker has is in one of the states of a worker.  `Counted` says that requests served
  and requests left add up, and that who has been served all has been told.
  `NothingIsLeft`, from `End`: the descriptors in use are those of the open sockets, no two
  with one number (`Descriptors`); an accepted connection is in the queue, with a worker
  or in the hands of `listen` (`Placed`), and a worker is done only when the queue is
  empty; how far `listen` and `stop` are decides who still has the listening socket
  (`Order`).  It needs at least one worker, which the pool has (`httplib.h:103` starts
  no fewer than eight), and that the lowest free number exists, by well-foundedness.
* **`HttpConnectionProofs`**: `ClosesAsAnnounced`, `ResponsesAreFramed`, for any set of
  requests and any sizes.  `Closing` carries the client's `Connection: close` from the
  header to the response and to the end of the connection, which are three places in the
  code that look at different variables; `Measured` carries to the next round that a body
  either has its length in the headers or is one of the exceptions `Framed` names, and that
  all of it was written.  Both theorems name what they except: the head and the lines
  between ranges, of which the code does not know whether they were written, and a
  `Connection: close` that only a trailer has or that stands in headers that do not parse.
  `TypesAreKept`, and `StaysInStep`, from `SInv`: what the buffer, the socket and the client
  still hold of a request (`Rest`) is what is behind its first k pieces, where `Place(k)`
  says for every place in the code how many pieces that are: two at the router, two and
  what has been counted of the content when it is read by its length, a multiple of
  three more when it is chunked.  While a response is written nothing is left, or what is
  left is content that the client keeps until it is told to go on (`Withheld`), and
  between two requests nothing but a whole one (`Between`).
* **`HttpDataProofs`**: the stream, forms, ranges, paths and characters.
  `ReadsWhatWasSent` for the stream and its two readers, and `ParserGetsWhatWasSent` for
  the form parser above them, for all bytes, lengths and sizes of the three buffers.  The
  buffer, the socket and what is under way are what is behind the bytes read
  (`Positions`), and the line is the beginning of the stream up to its first end, in the
  fixed buffer or, when that was full, in the string (`Line`).
  `FormArrivesAsSent`: a form is accepted exactly if it was closed, and then with the
  files that were sent, each whole, for any set of forms and in whatever pieces the
  content comes, as long as no read ends within the first boundary or within what
  follows the last (`cut`; section 6 says what the parser does then).  The forms are
  those a client writes (`WellFormed`): the boundary is not in what comes before the
  first one nor in a file, there is at least one file, and nothing follows a last
  boundary without its two dashes; a limit for header lines of at least two characters
  (the code has 8192) lets the blank line pass.  Such forms exist
  (`SomeFormIsWellFormed`).  The invariant is `PInv(Chars, E)`, where `E[k]` is where
  the k-th boundary of the content ends (`LaidOut`): the buffer of the parser is what
  has been given to it and is still to be parsed (`Wired`), every state of the parser
  stands at the place of the content where that part of the form is, with the files
  before it reported (`OnTrack`), and unless the parser has just been handed a piece it
  has gone as far as it can (`Ready`).  The last is needed because the content may end
  anywhere: without it a parser that still had a boundary in its buffer could be told
  that all was sent.
  `RangesAreRight`: for contents of any length and any list of ranges, what is let through
  is what the header selects, within the content, no position more than three times, and
  the length announced is the length sent.  `Completes` gives each range its first and
  last position; a fold over the parts of a multipart body goes through the values that
  `Computes` names, so the two folds, of the bytes and of the length, are compared turn by
  turn (`MultipartLength`); of the ranges that share a position all but the first begin
  before the end of one before them, of which `range_error` allows two (`ThriceAtMost`).
  `PathsAreRight`: `is_valid_path` lets through exactly the paths of which no beginning
  goes up more often than down, for paths of any length (a NUL or a backslash in a path is
  refused before the components are looked at, and is left out here as in the run).
  And for every pattern and path, `match` finds values exactly if the path is the pattern
  filled with values without slashes, and it is those that it finds: the table behind
  `match` exists (`MatchingExists`), the walk along it takes one course (`Course`), and
  what it takes and what fills the pattern are compared fragment by fragment
  (`FilledFound` one way, `FilledMatches` the other).
  `ArrivesAsEncoded`: the whole of `RoundTrips`, for texts of any length and for every
  number.  The texts have no quote and no semicolon: a boundary ends at a semicolon and
  loses the quotes around it, and a file name is sent between quotes.  In a query and a
  boundary any other bytes may be; in the name of a form no `=`; in a path neither a
  percent sign, which `encode_url` leaves alone, nor a NUL, at which it stops; in a header
  no percent sign, unless it is `Location`, which alone is not decoded.  What is
  cut at a character rests on `OneCut` (a text with one such character has two parts) and
  `TrimsTo` (what is left of it without its outer blanks), and `TwoPairs` puts them together
  for a query (`QueryRoundTrips`) and a disposition (`DispositionRoundTrips`);
  `BoundaryRoundTrips` and `HeaderRoundTrips` are about the other two parsers.
  The rest are theorems of their own.
  `CharactersRoundTrip`: every code point but the halves of a surrogate pair is decoded
  from the bytes `to_utf8` makes of it.  `ChunkSizesRoundTrip`: a number below
  `ULONG_MAX` is read from its hexadecimal digits, and any other refused;
  `TextRoundTrips`: a text of any bytes and length is decoded from what
  `encode_query_param` makes of it, and from what `encode_url` makes of it if it has no
  percent sign and no NUL.  The recursive functions behind both are shown to exist, turn
  by turn, before what they compute is.

Model-checked only: liveness (`DeadCallEndsClient`, `StreamIsClosed`, `BothServersOrNone`,
`AcceptedIsClosed`, `StopEndsListen`, `Answered`), which needs fairness and ENABLED.

## 5. Where the source says something else

| run | the source says | the code does |
|---|---|---|
| `streamer_abort` | film for the given time, then send (`ClientVideoStreamer.cc:97`) | writes without waiting for the previous write; the library asserts |
| `check_pi_tx` | parse RX and TX bytes (`ClientCheckPi.cc:107`) | the TX rate is computed from the packets received |
| `http_range` | `assert(0 <= r.first && r.first < content_length)` (`httplib.h:4797`) | ranges of a routed answer that is not 2xx are used unchecked: `Range: bytes=0-` for a segment that is gone ends `program_server` |

## 6. Observed while modelling

What follows is in the models as it is in the code; no property says otherwise, as
the repository does not.

Client and server of the program:

* A status is empty when a command throws, and the server then dereferences null, as it
  does for an empty name or vision (`ServerVideoStreamer.cc:48`).
* Frames of the open window, and the segment of a late write, are lost at a
  disconnect: storing them is commented out (`Grpc.cc:125`).
* The fire threshold 0.1 is an `int` (`ClientVideoStreamer.h:54`), hence 0: one red pixel
  is a fire.  `VisionOfLastFrame` says so: it holds the code to the declared ratio above
  a tenth of red pixels and at none, and in between to what the stored ratio gives.
* The rates called Kbps are bits per second (`ClientCheckPi.cc:120`), and the first is
  bytes since boot over the time since the call began, which may be 0.
* `delete content` (`directoryAPI.cc:47`) is unreachable, so every video stays in memory.
  `WriteMsgToFile` truncates the file before it knows that there is content
  (`directoryAPI.cc:28`), so a message without video empties the file of that number; and
  it does not look at whether the writing succeeded, so "File successfully created"
  (`ServerVideoStreamer.cc:65`) is also said of a file cut short by a full disk, and
  `ffmpeg` gets it.  The model has no such file: `InputIsCurrent` is about files that were
  handed over and closed, whatever the disk kept of them.
* `RunServerHLS` ignores its address, and prints that the server has started only when
  `listen` has returned (`ServerStartAPI.cc:67`).

HTTP server, where the two ends of a connection get out of step or data gets lost.  The
first group is what `Delimited` and `tidy` of `HttpConnection` exclude from `InStep`:

* Content of a GET or HEAD, chunked content of a DELETE, content in an encoding that is
  not compiled in (415), of a form without boundary or that the parser refuses, and what
  follows a bad `Range` or bad chunks, stays in the stream and is read as the next
  request.  So are the headers behind a bad request line.
* After 417 the request is served nevertheless, and answered twice.
* `Connection: close` in headers that do not parse is repeated in the answer 400, and the
  connection stays open.
* A POST without length is read until the client leaves or is silent for the read timeout.
* Chunked content is not bounded by `payload_max_length_`.
* Whether the head of a response (`httplib.h:6065`) or the lines between ranges (`4897`)
  could be written is not looked at: if the body could, or there is none, the connection
  is kept.  `Framed` leaves this out.
* `Connection: close` in a trailer is repeated in the answer (`6027`), since the fields of
  a trailer join the headers (`3948`), and the connection stays open, since that was
  decided before (`6666`).  `ClosedAsAnnounced` excepts it (`last.late`).
* The answer of an Expect handler, or of the server after an exception, gets no length of
  its body.  `Framed` excepts both.

The second is what `cut` of `HttpMultipart` and the guards of `MCHttpData` exclude:

* Of a first boundary that is cut by two reads the part that has come is erased: the form
  is refused (400) if it has one file, and with more it is accepted without the first.
  An epilogue that comes in a read of its own is taken for another part, which may make the
  form invalid (400).
* `bytes=-`, and a suffix longer than the content, are answered 416.
* `encode_url` stops at a NUL and leaves `%` alone; `parse_header` decodes the value of
  every header but `Location`, so a `%41` in a header arrives as `A`.
* A chunk whose size is `ULONG_MAX` or more is refused; one may be written with blanks, a
  sign or `0x` before its digits and anything behind them, as `strtoul` takes it.
* Of two equal query parameters one is dropped; `;` and `=` inside the quotes of a
  disposition end a value.

And in the listener: descriptors from `FD_SETSIZE` on are closed unanswered; after a
fatal error of `accept` the socket is closed but `svr_sock_` keeps its number.

## 7. Not modelled

* `WriteDone`, `Finish`, the destructors of the client and the code after its
  loop: the loop ends through `exit` only.  `EncodeToFile`, `ReadFile`,
  `SetVideoFromFile`, `SetIsConnected`, `GetMemoryBufferSize`: no caller.
* The contents of pictures, the conversion of colours, what a pixel is red by, the text
  of the status.
* `buffer` is freed with `delete` although `av_malloc` allocated it: a mismatch
  whose effect depends on the allocator, not on any state of the program.
* Of `httplib.h`: the client half, which nothing here uses (about a third of the file);
  SSL, zlib and brotli, which are not compiled in; base64, SHA and file mapping;
  regular expressions and the MIME table; the accessors of requests and responses and the
  registration of handlers, which hold no protocol; logging.
* `program_client` (reads its arguments), `shape` and its test (a sample), the HTML
  players, the build files.
* That a `ClientContext` could be reused: it serves one call, so a dead call stays
  dead.

## 8. Plan

1. [x] `Grpc`, its run, its proofs.
2. [x] `MemoryVideoWriter` and `VideoStreamer`, which implements `Grpc`.
3. [x] `CallBack` with `ffmpeg`; the numbering of files proved.
4. [x] `Hls`, implemented by `CallBack`; `ProgramServer` with viewers on top of it.
5. [x] `ClientCheckPi`; the console and the status proved.
6. [x] The HTTP server: listener and pool, connection, data; ownership, announcement and
   framing proved.
7. [x] Proofs: what the segments hold, the rates, the disk, `Hls`, the viewers, the end of
   `listen`, the streams of a connection and its buffers.
8. [ ] If a run becomes free: a composition of the client's writes, the call and the
   reactor, as an implementation of an abstract delivery of segments in order.
9. [x] Proofs: forms, ranges of any length and number, paths, characters; the theorems of
   `Grpc` restated for the client (`DisconnectIsRealInClient`, `OneLateWriteInClient`,
   `StaysDisconnectedInClient`), which `ImplementsGrpc` carries over.
