------------------------------- MODULE HttpListener -------------------------------
(***************************************************************************)
(* httplib::Server from listen() to its return: the thread that accepts,   *)
(* the workers of its ThreadPool, a thread that waits until the server is  *)
(* ready and stops it, and clients that connect, send requests one after   *)
(* the other, pause and leave.  What happens inside a request is in        *)
(* HttpConnection; here it is answered, fails, or closes the connection.   *)
(***************************************************************************)
EXTENDS ThreadPool

CONSTANTS
  keep_alive_max_count_,
  FD_SETSIZE,            \* descriptors from this one on cannot be given to select()
  MaxAddresses,          \* bound: addresses of the host
  MaxFaults              \* bound: failures of accept()

Clients == Jobs

ASSUME HttpListenerAssumption ==
  /\ Workers # {}   \* CPPHTTPLIB_THREAD_POOL_COUNT is 8 or more
  /\ "svr" \notin Clients
  /\ keep_alive_max_count_ \in Nat \ {0}
  /\ FD_SETSIZE \in Nat /\ MaxAddresses \in Nat /\ MaxFaults \in Nat

VARIABLES
  listener,     \* the thread in listen()
  stopper,      \* the thread that calls wait_until_ready() and stop()
  svr_sock_,    \* "fd" or "invalid"
  is_running_, done_, ret,
  fd,           \* the listening socket: "none", "open", "shut", "closed"
  addresses,    \* addresses of the host still to be tried
  fds,          \* descriptors in use, counted from the first that is free at the start
  number,       \* of these, that of each connection and of the listening socket
  sock,         \* per client, its connection
  accepted,     \* {} or the connection accept() returned
  count,        \* per client, requests the worker may still serve
  request,      \* per client: "none", "sent", "eof"
  announced,    \* per client, a response said Connection: close
  served,       \* per client, requests answered
  closes,       \* per client, calls of close() on its connection
  faults

fdVars     == <<fds, number>>
stateVars  == <<svr_sock_, is_running_, done_, ret, fd>>
clientVars == <<sock, count, request, announced, served, closes>>
vars == <<poolVars, listener, stopper, stateVars, addresses, fdVars, clientVars, accepted, faults>>

ListenerInit ==
  /\ PoolInit
  /\ listener = "bind" /\ stopper = "wait"
  /\ svr_sock_ = "invalid" /\ fd = "none"
  /\ is_running_ = FALSE /\ done_ = FALSE /\ ret = TRUE
  /\ addresses \in 0 .. MaxAddresses /\ fds = {} /\ number = [x \in Clients \cup {"svr"} |-> 0]
  /\ sock = [c \in Clients |-> "none"]
  /\ accepted = {}
  /\ count = [c \in Clients |-> 0]
  /\ request = [c \in Clients |-> "none"]
  /\ announced = [c \in Clients |-> FALSE]
  /\ served = [c \in Clients |-> 0]
  /\ closes = [c \in Clients |-> 0]
  /\ faults = 0

Goto(from, to) == listener = from /\ listener' = to

-----------------------------------------------------------------------------
(***************************************************************************)
(* The thread in listen()                                                  *)
(***************************************************************************)

\* The number the next socket gets, and the use and release of a number
Lowest == Min((0 .. Cardinality(fds)) \ fds)
Open(x) == number' = [number EXCEPT ![x] = Lowest] /\ fds' = fds \cup {Lowest}
CloseFd(x) == fds' = fds \ {number[x]} /\ UNCHANGED number

\* create_socket tries the addresses of the host one after the other. The socket for one that
\* cannot be bound or listened at is closed again, ...
TryAddress ==
  /\ Goto("bind", "bind")
  /\ addresses > 0 /\ addresses' = addresses - 1
  /\ UNCHANGED <<poolVars, stopper, stateVars, fdVars, clientVars, accepted, faults>>

\* ... and the first that can be is returned. If there is none, scope_exit sets done_.
Bind ==
  /\ \/ /\ Goto("bind", "start") /\ addresses > 0
        /\ svr_sock_' = "fd" /\ fd' = "open" /\ Open("svr") /\ UNCHANGED <<done_, ret>>
     \/ /\ Goto("bind", "returned") /\ addresses = 0
        /\ done_' = TRUE /\ ret' = FALSE /\ UNCHANGED <<svr_sock_, fd, fdVars>>
  /\ UNCHANGED <<poolVars, stopper, is_running_, addresses, clientVars, accepted, faults>>

\* listen_internal: from here stop() has an effect
Start ==
  /\ Goto("start", "loop")
  /\ is_running_' = TRUE
  /\ UNCHANGED <<poolVars, stopper, svr_sock_, done_, ret, fd, addresses, fdVars,
                 clientVars, accepted, faults>>

Loop ==
  /\ listener = "loop" /\ listener' = IF svr_sock_ = "invalid" THEN "drain" ELSE "accept"
  /\ UNCHANGED <<poolVars, stopper, stateVars, addresses, fdVars, clientVars, accepted, faults>>

Backlog == {c \in Clients : sock[c] = "backlog"}

\* accept() of a connection
Accept ==
  /\ Goto("accept", "enqueue")
  /\ fd = "open"
  /\ \E c \in Backlog :
       /\ accepted' = {c}
       /\ sock' = [sock EXCEPT ![c] = "accepted"]
       /\ Open(c)
  /\ UNCHANGED <<poolVars, stopper, stateVars, addresses, count, request, announced, served,
                 closes, faults>>

\* EMFILE, EINTR, EAGAIN, or the timeout of an idle interval: once more
AcceptAgain ==
  /\ Goto("accept", "loop")
  /\ fd = "open" /\ faults < MaxFaults /\ faults' = faults + 1
  /\ UNCHANGED <<poolVars, stopper, stateVars, addresses, fdVars, clientVars, accepted>>

\* Any other error. The socket may have been closed by stop(); if not, it is
\* closed here, and svr_sock_ keeps its number.
AcceptFails ==
  /\ Goto("accept", "drain")
  /\ \/ fd \in {"shut", "closed"} /\ UNCHANGED faults
     \/ fd = "open" /\ faults < MaxFaults /\ faults' = faults + 1
  /\ IF svr_sock_ = "fd" THEN fd' = "closed" /\ ret' = FALSE /\ CloseFd("svr")
     ELSE UNCHANGED <<fd, ret, fdVars>>
  /\ UNCHANGED <<poolVars, stopper, svr_sock_, is_running_, done_, addresses, clientVars, accepted>>

\* enqueue, or shutdown and close if the queue is full
Reject(c) ==
  /\ listener' = "loop"
  /\ sock' = [sock EXCEPT ![c] = "closed"] /\ closes' = [closes EXCEPT ![c] = @ + 1]
  /\ CloseFd(c)
  /\ UNCHANGED poolVars

Enqueue ==
  /\ listener = "enqueue"
  /\ \E c \in accepted :
       \/ Push(c) /\ listener' = "notify_one" /\ sock' = [sock EXCEPT ![c] = "queued"]
          /\ UNCHANGED <<closes, fdVars>>
       \/ QueueFull /\ Reject(c)
  /\ accepted' = {}
  /\ UNCHANGED <<stopper, stateVars, addresses, count, request, announced, served, faults>>

Pool(from, to, step) ==
  /\ Goto(from, to) /\ step
  /\ UNCHANGED <<stopper, stateVars, addresses, fdVars, clientVars, accepted, faults>>

NotifyWorker   == Pool("notify_one", "loop", NotifyOne)
ShutdownPool   == Pool("drain", "notify_all", BeginShutdown)
NotifyWorkers  == Pool("notify_all", "join", NotifyAll)

\* The workers are joined and the queue destroyed; the two scope_exits follow.
Join ==
  /\ Goto("join", "returned")
  /\ Joined
  /\ is_running_' = FALSE /\ done_' = TRUE
  /\ UNCHANGED <<poolVars, stopper, svr_sock_, ret, fd, addresses, fdVars, clientVars, accepted,
                 faults>>

Listener ==
  \/ TryAddress \/ Bind \/ Start \/ Loop \/ Accept \/ AcceptFails
  \/ Enqueue \/ NotifyWorker \/ ShutdownPool \/ NotifyWorkers \/ Join

-----------------------------------------------------------------------------
(***************************************************************************)
(* A worker with a connection: process_and_close_socket                    *)
(***************************************************************************)

servedVars == <<poolVars, listener, stopper, stateVars, addresses, fdVars, accepted, faults>>

Running(w, c) == worker[w] = "running" /\ c \in fn[w]

Begin(w, c) ==
  /\ Running(w, c) /\ sock[c] = "queued"
  /\ sock' = [sock EXCEPT ![c] = "idle"]
  /\ count' = [count EXCEPT ![c] = keep_alive_max_count_]
  /\ UNCHANGED <<servedVars, request, announced, served, closes>>

\* One more round of the loop of process_server_socket_core, if the server is not
\* stopped and the count not used up
NextRound(w, c) ==
  /\ Running(w, c) /\ sock[c] = "idle"
  /\ sock' = [sock EXCEPT ![c] = IF svr_sock_ # "invalid" /\ count[c] > 0 THEN "keep_alive" ELSE "done"]
  /\ UNCHANGED <<servedVars, count, request, announced, served, closes>>

select_read(c) ==
  CASE number[c] >= FD_SETSIZE -> -1
    [] number[c] < FD_SETSIZE /\ request[c] = "none" -> 0
    [] OTHER -> 1

\* keep_alive: the socket becomes readable, or keep_alive_timeout_sec_ pass, or it cannot be
\* looked at
KeepAlive(w, c) ==
  /\ Running(w, c) /\ sock[c] = "keep_alive"
  /\ sock' = [sock EXCEPT ![c] = IF select_read(c) > 0 THEN "request" ELSE "done"]
  /\ UNCHANGED <<servedVars, count, request, announced, served, closes>>

\* process_request(strm, close_connection = (count == 1), connection_closed):
\* answered, and the response says close if this is the last or the client wants
LateAnnouncement(c) == count[c] = 0   \* mutant: count == 0
close_connection(c) == count[c] = 1

ProcessRequest(w, c) ==
  /\ Running(w, c) /\ sock[c] = "request" /\ request[c] = "sent"
  /\ \E wants_close \in BOOLEAN :
       /\ announced' = [announced EXCEPT ![c] = wants_close \/ close_connection(c)]
       /\ sock' = [sock EXCEPT ![c] = IF wants_close THEN "done" ELSE "idle"]
       /\ count' = [count EXCEPT ![c] = IF wants_close THEN @ ELSE @ - 1]
  /\ served' = [served EXCEPT ![c] = @ + 1]
  /\ request' = [request EXCEPT ![c] = "none"]
  /\ UNCHANGED <<servedVars, closes>>

\* it returns false: end of file, a read or write timeout
RequestFails(w, c) ==
  /\ Running(w, c) /\ sock[c] = "request"
  /\ sock' = [sock EXCEPT ![c] = "done"]
  /\ UNCHANGED <<servedVars, count, request, announced, served, closes>>

\* shutdown_socket, close_socket; the job is done
Close(w, c) ==
  /\ Running(w, c) /\ sock[c] = "done"
  /\ sock' = [sock EXCEPT ![c] = "closed"] /\ closes' = [closes EXCEPT ![c] = @ + 1]
  /\ CloseFd(c) /\ Finish(w)
  /\ UNCHANGED <<listener, stopper, stateVars, addresses, accepted, count, request, announced, served,
                 faults>>

TakeJob(w) ==
  /\ is_running_   \* the pool is that of listen_internal
  /\ Take(w)
  /\ UNCHANGED <<listener, stopper, stateVars, addresses, fdVars, clientVars, accepted, faults>>

Serve(w) ==
  \/ TakeJob(w)
  \/ \E c \in Clients :
       \/ Begin(w, c) \/ NextRound(w, c) \/ KeepAlive(w, c)
       \/ ProcessRequest(w, c) \/ RequestFails(w, c) \/ Close(w, c)

-----------------------------------------------------------------------------
(***************************************************************************)
(* wait_until_ready and stop, and the clients (external)                   *)
(***************************************************************************)

Stop(from, to) == stopper = from /\ stopper' = to

StopVars == <<poolVars, listener, addresses, clientVars, accepted, faults, is_running_, done_, ret>>

WaitUntilReady ==
  /\ Stop("wait", "stop")
  /\ is_running_ \/ done_
  /\ UNCHANGED <<StopVars, svr_sock_, fd, fdVars>>

\* if (is_running_), the socket is taken out of svr_sock_ ...
Exchange ==
  /\ Stop("stop", IF is_running_ THEN "shutdown" ELSE "stopped")
  /\ svr_sock_' = IF is_running_ THEN "invalid" ELSE svr_sock_
  /\ UNCHANGED <<StopVars, fd, fdVars>>

\* ... shut down, which wakes accept(), and closed.
CloseOnly ==   \* mutant: a thread blocked in accept() does not notice
  /\ Stop("shutdown", "close")
  /\ UNCHANGED <<StopVars, svr_sock_, fd, fdVars>>

ShutdownServer ==
  /\ Stop("shutdown", "close")
  /\ fd' = IF fd = "open" THEN "shut" ELSE fd
  /\ UNCHANGED <<StopVars, svr_sock_, fdVars>>

CloseServer ==
  /\ Stop("close", "stopped")
  /\ IF fd = "shut" THEN fd' = "closed" /\ CloseFd("svr") ELSE UNCHANGED <<fd, fdVars>>
  /\ UNCHANGED <<StopVars, svr_sock_>>

Stopping == WaitUntilReady \/ Exchange \/ ShutdownServer \/ CloseServer

serverVars == <<poolVars, listener, stopper, stateVars, addresses, fdVars, accepted, count, announced, served,
                closes, faults>>

Connect(c) ==
  /\ sock[c] = "none" /\ fd = "open"
  /\ sock' = [sock EXCEPT ![c] = "backlog"]
  /\ UNCHANGED <<serverVars, request>>

Send(c) ==
  /\ sock[c] \notin {"none", "closed"} /\ request[c] = "none"
  /\ request' = [request EXCEPT ![c] = "sent"]
  /\ UNCHANGED <<serverVars, sock>>

Leave(c) ==
  /\ sock[c] \notin {"none", "closed"} /\ request[c] = "none"
  /\ request' = [request EXCEPT ![c] = "eof"]
  /\ UNCHANGED <<serverVars, sock>>

Client(c) == Connect(c) \/ Send(c) \/ Leave(c)

Next ==
  \/ Listener \/ AcceptAgain
  \/ \E w \in Workers : Serve(w)
  \/ Stopping
  \/ \E c \in Clients : Client(c)

Spec == ListenerInit /\ [][Next]_vars

\* Threads run, but nobody has to stop the server; a keep-alive wait, a read or a write ends by its timeout.
FairSpec ==
  /\ Spec /\ WF_vars(Listener) /\ WF_vars(Exchange \/ ShutdownServer \/ CloseServer)
  /\ \A w \in Workers : WF_vars(Serve(w))

-----------------------------------------------------------------------------
(***************************************************************************)
(* Properties                                                              *)
(***************************************************************************)

\* A connection is in the hands of one thread at a time, and closed once, by
\* whoever has it: the listener that rejects it or the worker that serves it.
OneOwner ==
  \A c \in Clients :
    LET inQueue == {i \in DOMAIN jobs_ : jobs_[i] = c}
        hands   == {w \in Workers : c \in fn[w]}
    IN /\ closes[c] = (IF sock[c] = "closed" THEN 1 ELSE 0)
       /\ sock[c] \in {"none", "backlog", "accepted", "closed"} => inQueue = {} /\ hands = {}
       /\ \A i, j \in inQueue : i = j
       /\ \A w, x \in hands : w = x
       /\ inQueue = {} \/ hands = {}

\* When listen() returns, no thread of the server is left that could use it, every
\* connection accepted is closed, and of the descriptors it has opened none is left but that
\* of the listening socket, until stop() has closed it.
NothingAfterListen ==
  listener = "returned" =>
    /\ fd # "none" => Joined
    /\ \A c \in Clients : sock[c] \in {"none", "backlog", "closed"}
    /\ fds = IF stopper \in {"shutdown", "close"} /\ fd # "closed" THEN {number["svr"]} ELSE {}

\* A client is told in a response before the server closes the connection because
\* it has served keep_alive_max_count_ requests, and is not served beyond.
CloseIsAnnounced ==
  \A c \in Clients :
    /\ served[c] <= keep_alive_max_count_
    /\ served[c] = keep_alive_max_count_ => announced[c]

\* A connection that is accepted is closed in the end: no job is left in the queue
\* and no wakeup is lost, with workers that are fewer than connections.
AcceptedIsClosed ==
  \A c \in Clients : sock[c] = "accepted" ~> sock[c] = "closed"

\* stop() after wait_until_ready() ends listen(), wherever that is, be it blocked in
\* accept() or joining workers with idle connections.
StopEndsListen == stopper = "stop" ~> listener = "returned"

=============================================================================
