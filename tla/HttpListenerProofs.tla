--------------------------- MODULE HttpListenerProofs ---------------------------
(***************************************************************************)
(* Proofs about HttpListener, for any number of workers, of connections    *)
(* and of places in the queue: each connection has one owner and is closed *)
(* once, and a client is told before its last request is answered.         *)
(***************************************************************************)
EXTENDS HttpListener, FiniteSetTheorems, WellFoundedInduction, TLAPS

\* Where a connection is while a worker has it
Held == {"queued", "idle", "keep_alive", "request", "done"}

SockStates == Held \cup {"none", "backlog", "accepted", "closed"}

InQueue(c) == \E i \in 1 .. Len(jobs_) : jobs_[i] = c

\* What makes OneOwner inductive: a job in the queue is a connection no worker has taken,
\* and is there once; a worker has connections in its own states only.
Owned ==
  /\ jobs_ \in Seq(Clients) /\ fn \in [Workers -> SUBSET Clients]
  /\ sock \in [Clients -> SockStates] /\ accepted \subseteq Clients
  /\ closes \in [Clients -> Nat]
  /\ \A i, j \in 1 .. Len(jobs_) : jobs_[i] = jobs_[j] => i = j
  /\ \A c \in Clients : InQueue(c) => sock[c] = "queued" /\ \A w \in Workers : c \notin fn[w]
  /\ \A w, x \in Workers : \A c \in fn[w] : c \in fn[x] => w = x
  /\ \A w \in Workers : \A c \in fn[w] : sock[c] \in Held
  /\ \A c \in accepted : sock[c] = "accepted"
  /\ \A c \in Clients : closes[c] = IF sock[c] = "closed" THEN 1 ELSE 0

\* What makes CloseIsAnnounced inductive: requests served and left add up.
Counted ==
  /\ count \in [Clients -> Nat] /\ served \in [Clients -> Nat]
  /\ announced \in [Clients -> BOOLEAN]
  /\ \A c \in Clients :
       /\ sock[c] \in {"none", "backlog", "accepted", "queued"} => served[c] = 0
       /\ sock[c] \in {"idle", "keep_alive", "request"} => served[c] + count[c] = keep_alive_max_count_
       /\ sock[c] \in {"keep_alive", "request"} => count[c] > 0
       /\ served[c] <= keep_alive_max_count_
       /\ served[c] = keep_alive_max_count_ => announced[c]

IInv == Owned /\ Counted

ownVars   == <<jobs_, fn, sock, accepted, closes>>
countVars == <<sock, count, served, announced>>

-----------------------------------------------------------------------------
(***************************************************************************)
(* The queue                                                               *)
(***************************************************************************)

\* A job put at the end of the queue is there besides those that were.
LEMMA Pushed ==
  ASSUME NEW S, NEW q \in Seq(S), NEW x \in S,
         \A i, j \in 1 .. Len(q) : q[i] = q[j] => i = j,
         \A i \in 1 .. Len(q) : q[i] # x
  PROVE  LET p == Append(q, x) IN
         /\ p \in Seq(S)
         /\ \A i, j \in 1 .. Len(p) : p[i] = p[j] => i = j
         /\ \A i \in 1 .. Len(p) : p[i] = x \/ \E j \in 1 .. Len(q) : q[j] = p[i]
<1> DEFINE p == Append(q, x)
<1>1. p \in Seq(S) /\ Len(p) = Len(q) + 1 /\ Len(q) \in Nat
  OBVIOUS
<1>2. \A i \in 1 .. Len(q) : p[i] = q[i]
  OBVIOUS
<1>3. p[Len(q) + 1] = x
  OBVIOUS
<1> HIDE DEF p
<1>4. \A i \in 1 .. Len(p) : i \in 1 .. Len(q) \/ i = Len(q) + 1
  BY <1>1
<1>5. \A i, j \in 1 .. Len(p) : p[i] = p[j] => i = j
  BY <1>2, <1>3, <1>4
<1>6. \A i \in 1 .. Len(p) : p[i] = x \/ \E j \in 1 .. Len(q) : q[j] = p[i]
  BY <1>2, <1>3, <1>4
<1> QED
  BY <1>1, <1>5, <1>6 DEF p

\* The job taken from the front is not in the rest.
LEMMA Taken ==
  ASSUME NEW S, NEW q \in Seq(S), q # <<>>,
         \A i, j \in 1 .. Len(q) : q[i] = q[j] => i = j
  PROVE  /\ Head(q) = q[1] /\ 1 \in 1 .. Len(q) /\ Head(q) \in S /\ Tail(q) \in Seq(S)
         /\ \A i, j \in 1 .. Len(Tail(q)) : Tail(q)[i] = Tail(q)[j] => i = j
         /\ \A i \in 1 .. Len(Tail(q)) :
              Tail(q)[i] # Head(q) /\ \E j \in 1 .. Len(q) : q[j] = Tail(q)[i]
<1>1. Len(q) \in Nat /\ Len(q) > 0 /\ Head(q) = q[1] /\ Tail(q) \in Seq(S) /\ Len(Tail(q)) = Len(q) - 1
  OBVIOUS
<1>2. \A i \in 1 .. Len(Tail(q)) : Tail(q)[i] = q[i + 1]
  OBVIOUS
<1>3. \A i \in 1 .. Len(Tail(q)) : i + 1 \in 1 .. Len(q) /\ i + 1 # 1
  BY <1>1
<1>4. 1 \in 1 .. Len(q) /\ Head(q) \in S
  BY <1>1
<1>5. \A i, j \in 1 .. Len(Tail(q)) : Tail(q)[i] = Tail(q)[j] => i = j
  BY <1>2, <1>3
<1> QED
  BY <1>1, <1>2, <1>3, <1>4, <1>5

-----------------------------------------------------------------------------
(***************************************************************************)
(* Steps of the same shape                                                 *)
(***************************************************************************)

\* A worker moves a connection it has from one of its states to another.
LEMMA HeldMoves ==
  ASSUME Owned, NEW w \in Workers, NEW c \in fn[w], NEW s \in Held,
         sock' = [sock EXCEPT ![c] = s], UNCHANGED <<jobs_, fn, accepted, closes>>
  PROVE  Owned'
<1> USE DEF Owned, Held, SockStates
<1>1. c \in Clients /\ sock[c] # "closed" /\ c \notin accepted /\ ~InQueue(c)
  OBVIOUS
<1>2. \A d \in Clients : InQueue(d)' <=> InQueue(d)
  BY DEF InQueue
<1> QED
  BY <1>1, <1>2

\* A connection no worker has moves outside the pool.
LEMMA OutsideMoves ==
  ASSUME Owned, NEW c \in Clients, sock[c] \in {"none", "backlog"},
         NEW s \in {"backlog", "accepted"}, sock' = [sock EXCEPT ![c] = s],
         accepted' = accepted \/ (accepted' = {c} /\ s = "accepted"),
         UNCHANGED <<jobs_, fn, closes>>
  PROVE  Owned'
<1> USE DEF Owned, Held, SockStates
<1>1. c \notin accepted /\ ~InQueue(c) /\ \A w \in Workers : c \notin fn[w]
  OBVIOUS
<1>2. \A d \in Clients : InQueue(d)' <=> InQueue(d)
  BY DEF InQueue
<1> QED
  BY <1>1, <1>2

\* A connection that is closed by its only owner, or by the listener that has it
LEMMA ClosedMoves ==
  ASSUME Owned, NEW c \in Clients, sock[c] # "closed", ~InQueue(c),
         sock' = [sock EXCEPT ![c] = "closed"],
         closes' = [closes EXCEPT ![c] = @ + 1],
         accepted' \subseteq accepted \ {c}, UNCHANGED jobs_,
         fn' \in [Workers -> SUBSET Clients],
         \A w \in Workers : fn'[w] \subseteq fn[w] \ {c}
  PROVE  Owned'
<1> USE DEF Owned, Held, SockStates
<1>1. \A d \in Clients : InQueue(d)' <=> InQueue(d)
  BY DEF InQueue
<1>2. \A d \in Clients : closes'[d] = IF sock'[d] = "closed" THEN 1 ELSE 0
  OBVIOUS
<1> QED
  BY <1>1, <1>2

\* Owned speaks of ownVars only.
LEMMA OwnedUnchanged == ASSUME Owned, UNCHANGED ownVars PROVE Owned'
BY DEF Owned, ownVars, InQueue

\* Counted speaks of countVars only.
LEMMA CountedUnchanged == ASSUME Counted, UNCHANGED countVars PROVE Counted'
BY DEF Counted, countVars

\* A connection that is served moves where no promise about its count is made.
LEMMA CountedMoves ==
  ASSUME Counted, sock \in [Clients -> SockStates], NEW c \in Clients,
         NEW s \in {"backlog", "accepted", "queued", "done", "closed"},
         s \in {"backlog", "accepted", "queued"} => sock[c] \in {"none", "backlog", "accepted"},
         sock' = [sock EXCEPT ![c] = s], UNCHANGED <<count, served, announced>>
  PROVE  Counted'
BY DEF Counted

-----------------------------------------------------------------------------

\* IInv holds at first.
LEMMA InitIInv == ListenerInit => IInv
<1> SUFFICES ASSUME ListenerInit PROVE IInv
  OBVIOUS
<1>1. Owned
  BY DEF ListenerInit, PoolInit, Owned, InQueue, SockStates
<1>2. Counted
  BY HttpListenerAssumption DEF ListenerInit, Counted
<1> QED
  BY <1>1, <1>2 DEF IInv

\* The listener: accept, enqueue or reject
LEMMA ListenerOwned == ASSUME IInv, Listener \/ AcceptAgain PROVE IInv'
<1> USE DEF IInv
<1>1. CASE Accept
  <2>1. PICK c \in Backlog : accepted' = {c} /\ sock' = [sock EXCEPT ![c] = "accepted"]
    BY <1>1 DEF Accept
  <2>2. c \in Clients /\ sock[c] = "backlog"
    BY DEF Backlog
  <2>3. Owned'
    BY <1>1, <2>1, <2>2, OutsideMoves DEF Accept, poolVars
  <2>4. Counted'
    BY <1>1, <2>1, <2>2, CountedMoves DEF Accept, Owned
  <2> QED
    BY <2>3, <2>4
<1>2. CASE Enqueue
  <2>1. PICK c \in accepted :
          \/ Push(c) /\ sock' = [sock EXCEPT ![c] = "queued"] /\ UNCHANGED <<closes, fdVars>>
          \/ Reject(c)
    BY <1>2 DEF Enqueue
  <2>2. c \in Clients /\ sock[c] = "accepted" /\ accepted' = {} /\ ~InQueue(c)
    BY <1>2 DEF Enqueue, Owned
  <2>3. UNCHANGED <<count, served, announced>>
    BY <1>2 DEF Enqueue
  <2>4. CASE Push(c) /\ sock' = [sock EXCEPT ![c] = "queued"] /\ UNCHANGED <<closes, fdVars>>
    <3>1. jobs_' = Append(jobs_, c) /\ UNCHANGED fn
      BY <2>4 DEF Push
    <3>2. \A i \in 1 .. Len(jobs_) : jobs_[i] # c
      BY <2>2 DEF InQueue
    <3>3. /\ jobs_' \in Seq(Clients)
          /\ \A i, j \in 1 .. Len(jobs_') : jobs_'[i] = jobs_'[j] => i = j
          /\ \A i \in 1 .. Len(jobs_') :
               jobs_'[i] = c \/ \E j \in 1 .. Len(jobs_) : jobs_[j] = jobs_'[i]
      BY <2>2, <3>1, <3>2, Pushed DEF Owned
    <3>4. \A d \in Clients : InQueue(d)' => d = c \/ InQueue(d)
      BY <3>3 DEF InQueue
    <3>5. \A w \in Workers : c \notin fn[w]
      BY <2>2 DEF Owned, Held
    <3>6. Owned'
      BY <2>2, <2>4, <3>1, <3>3, <3>4, <3>5 DEF Owned, Held, SockStates
    <3>7. Counted'
      BY <2>2, <2>3, <2>4, CountedMoves DEF Owned
    <3> QED
      BY <3>6, <3>7
  <2>5. CASE Reject(c)
    <3>1. \A w \in Workers : c \notin fn[w]
      BY <2>2 DEF Owned, Held
    <3>2. /\ UNCHANGED <<jobs_, fn>> /\ accepted' \subseteq accepted \ {c}
          /\ sock' = [sock EXCEPT ![c] = "closed"] /\ closes' = [closes EXCEPT ![c] = @ + 1]
      BY <2>2, <2>5 DEF Reject, poolVars
    <3>3. fn' \in [Workers -> SUBSET Clients] /\ \A w \in Workers : fn'[w] \subseteq fn[w] \ {c}
      BY <3>1, <3>2 DEF Owned
    <3>4. Owned'
      BY <2>2, <3>2, <3>3, ClosedMoves
    <3>5. Counted'
      BY <2>2, <2>3, <3>2, CountedMoves DEF Owned
    <3> QED
      BY <3>4, <3>5
  <2> QED
    BY <2>1, <2>4, <2>5
<1>3. CASE ~Accept /\ ~Enqueue
  <2>1. UNCHANGED ownVars /\ UNCHANGED countVars
    BY <1>3 DEF Listener, AcceptAgain, TryAddress, Bind, Start, Loop, AcceptFails, NotifyWorker,
       ShutdownPool, NotifyWorkers, Join, Pool, NotifyOne, BeginShutdown, NotifyAll, poolVars,
       clientVars, ownVars, countVars
  <2> QED
    BY <2>1, OwnedUnchanged, CountedUnchanged
<1> QED
  BY <1>1, <1>2, <1>3

\* A worker takes a connection, serves requests of it and closes it.
LEMMA ServeOwned == ASSUME IInv, NEW w \in Workers, Serve(w) PROVE IInv'
<1> USE DEF IInv
<1>1. CASE TakeJob(w)
  <2>1. Counted'
    BY <1>1, CountedUnchanged DEF TakeJob, clientVars, countVars
  <2>2. CASE jobs_ # <<>>
    <3>1. fn' = [fn EXCEPT ![w] = {Head(jobs_)}] /\ jobs_' = Tail(jobs_)
      BY <1>1, <2>2 DEF TakeJob, Take
    <3>2. /\ InQueue(Head(jobs_)) /\ Head(jobs_) \in Clients /\ jobs_' \in Seq(Clients)
          /\ \A i, j \in 1 .. Len(jobs_') : jobs_'[i] = jobs_'[j] => i = j
          /\ \A i \in 1 .. Len(jobs_') :
               jobs_'[i] # Head(jobs_) /\ \E j \in 1 .. Len(jobs_) : jobs_[j] = jobs_'[i]
      <4>1. jobs_ \in Seq(Clients) /\ \A i, j \in 1 .. Len(jobs_) : jobs_[i] = jobs_[j] => i = j
        BY DEF Owned
      <4> QED
        BY <2>2, <3>1, <4>1, Taken DEF InQueue
    <3>3. \A d \in Clients : InQueue(d)' => d # Head(jobs_) /\ InQueue(d)
      BY <3>2 DEF InQueue
    <3>4. sock[Head(jobs_)] = "queued" /\ \A x \in Workers : Head(jobs_) \notin fn[x]
      BY <3>2 DEF Owned
    <3>5. UNCHANGED <<sock, accepted, closes>>
      BY <1>1 DEF TakeJob, clientVars
    <3>6. \A x \in Workers : fn'[x] = IF x = w THEN {Head(jobs_)} ELSE fn[x]
      BY <3>1 DEF Owned
    <3>7. Owned'
      BY <3>1, <3>2, <3>3, <3>4, <3>5, <3>6 DEF Owned, Held
    <3> QED
      BY <2>1, <3>7
  <2>3. CASE jobs_ = <<>>
    <3>1. UNCHANGED ownVars
      BY <1>1, <2>3 DEF TakeJob, Take, clientVars, ownVars
    <3> QED
      BY <2>1, <3>1, OwnedUnchanged
  <2> QED
    BY <2>2, <2>3
<1>2. ASSUME NEW c \in Clients, Begin(w, c) PROVE IInv'
  <2>1. Owned'
    BY <1>2, HeldMoves DEF Begin, Running, servedVars, poolVars, Held
  <2>2. Counted'
    BY <1>2, HttpListenerAssumption DEF Begin, Counted, Owned
  <2> QED
    BY <2>1, <2>2
<1>3. ASSUME NEW c \in Clients, NextRound(w, c) PROVE IInv'
  <2>1. Owned'
    BY <1>3, HeldMoves DEF NextRound, Running, servedVars, poolVars, Held
  <2>2. Counted'
    BY <1>3 DEF NextRound, Counted, Owned
  <2> QED
    BY <2>1, <2>2
<1>4. ASSUME NEW c \in Clients, KeepAlive(w, c) PROVE IInv'
  <2>1. Owned'
    BY <1>4, HeldMoves DEF KeepAlive, Running, servedVars, poolVars, Held
  <2>2. Counted'
    BY <1>4 DEF KeepAlive, Counted, Owned
  <2> QED
    BY <2>1, <2>2
<1>5. ASSUME NEW c \in Clients, ProcessRequest(w, c) PROVE IInv'
  <2>1. PICK wants_close \in BOOLEAN :
          /\ announced' = [announced EXCEPT ![c] = wants_close \/ close_connection(c)]
          /\ sock' = [sock EXCEPT ![c] = IF wants_close THEN "done" ELSE "idle"]
          /\ count' = [count EXCEPT ![c] = IF wants_close THEN @ ELSE @ - 1]
    BY <1>5 DEF ProcessRequest
  <2>2. Owned'
    BY <1>5, <2>1, HeldMoves DEF ProcessRequest, Running, servedVars, poolVars, Held
  <2>3. Counted'
    <3>1. c \in Clients /\ sock[c] = "request" /\ served' = [served EXCEPT ![c] = @ + 1]
      BY <1>5 DEF ProcessRequest
    <3>2. count[c] > 0 /\ served[c] + count[c] = keep_alive_max_count_
      BY <3>1 DEF Counted
    <3>3. /\ announced' \in [Clients -> BOOLEAN]
          /\ served[c] + 1 = keep_alive_max_count_ => announced'[c]
          /\ \A d \in Clients : d # c => (announced'[d] <=> announced[d])
      <4>1. served[c] + 1 = keep_alive_max_count_ => count[c] = 1
        BY <3>1, <3>2, HttpListenerAssumption DEF Counted
      <4> QED
        BY <2>1, <3>1, <4>1, Zenon DEF Counted, close_connection
    <3> QED
      BY <2>1, <3>1, <3>2, <3>3, HttpListenerAssumption DEF Counted, Owned
  <2> QED
    BY <2>2, <2>3
<1>6. ASSUME NEW c \in Clients, RequestFails(w, c) PROVE IInv'
  <2>1. Owned'
    BY <1>6, HeldMoves DEF RequestFails, Running, servedVars, poolVars, Held
  <2>2. Counted'
    BY <1>6, CountedMoves DEF RequestFails, Owned
  <2> QED
    BY <2>1, <2>2
<1>7. ASSUME NEW c \in Clients, Close(w, c) PROVE IInv'
  <2>1. c \in fn[w] /\ sock[c] = "done" /\ fn' = [fn EXCEPT ![w] = {}]
    BY <1>7 DEF Close, Running, Finish
  <2>2. ~InQueue(c) /\ c \notin accepted /\ \A x \in Workers : x # w => c \notin fn[x]
    BY <2>1 DEF Owned
  <2>3. fn' \in [Workers -> SUBSET Clients] /\ \A x \in Workers : fn'[x] \subseteq fn[x] \ {c}
    BY <2>1, <2>2 DEF Owned
  <2>4. Owned'
    BY <1>7, <2>1, <2>2, <2>3, ClosedMoves DEF Close, Finish
  <2>5. Counted'
    BY <1>7, CountedMoves DEF Close, Owned
  <2> QED
    BY <2>4, <2>5
<1> QED
  BY <1>1, <1>2, <1>3, <1>4, <1>5, <1>6, <1>7 DEF Serve

\* The clients, the stop of the server and stuttering keep IInv.
LEMMA OthersOwned ==
  ASSUME IInv, Stopping \/ (\E c \in Clients : Client(c)) \/ UNCHANGED vars
  PROVE  IInv'
<1> USE DEF IInv
<1>1. ASSUME NEW c \in Clients, Connect(c) PROVE IInv'
  <2>1. Owned'
    BY <1>1, OutsideMoves DEF Connect, serverVars, poolVars
  <2>2. Counted'
    BY <1>1, CountedMoves DEF Connect, serverVars, Owned
  <2> QED
    BY <2>1, <2>2
<1>2. CASE Stopping \/ (\E c \in Clients : Send(c) \/ Leave(c)) \/ UNCHANGED vars
  <2>1. UNCHANGED ownVars /\ UNCHANGED countVars
    BY <1>2 DEF Stopping, WaitUntilReady, Exchange, ShutdownServer, CloseServer, StopVars, Send,
       Leave, serverVars, vars, poolVars, clientVars, ownVars, countVars
  <2> QED
    BY <2>1, OwnedUnchanged, CountedUnchanged
<1> QED
  BY <1>1, <1>2 DEF Client

\* IInv holds in every state.
THEOREM Invariance == Spec => []IInv
<1>1. IInv /\ [Next]_vars => IInv'
  BY ListenerOwned, ServeOwned, OthersOwned DEF Next
<1> QED
  BY InitIInv, <1>1, PTL DEF Spec

\* However many workers and connections there are, a connection is in the queue once or with
\* one worker, never both, and it is closed exactly once.
THEOREM OwnedByOne == Spec => []OneOwner
<1>1. Owned => OneOwner
  <2> SUFFICES ASSUME Owned, NEW c \in Clients
               PROVE  LET inQueue == {i \in DOMAIN jobs_ : jobs_[i] = c}
                          hands   == {w \in Workers : c \in fn[w]}
                      IN /\ closes[c] = (IF sock[c] = "closed" THEN 1 ELSE 0)
                         /\ sock[c] \in {"none", "backlog", "accepted", "closed"} =>
                              inQueue = {} /\ hands = {}
                         /\ \A i, j \in inQueue : i = j
                         /\ \A w, x \in hands : w = x
                         /\ inQueue = {} \/ hands = {}
    BY DEF OneOwner
  <2> DEFINE inQueue == {i \in DOMAIN jobs_ : jobs_[i] = c}
             hands   == {w \in Workers : c \in fn[w]}
  <2>1. DOMAIN jobs_ = 1 .. Len(jobs_)
    BY DEF Owned
  <2>2. inQueue # {} => InQueue(c)
    BY <2>1 DEF InQueue
  <2>3. hands # {} => sock[c] \in Held
    BY DEF Owned
  <2>4. inQueue # {} => sock[c] = "queued" /\ hands = {}
    BY <2>2 DEF Owned
  <2>5. (\A i, j \in inQueue : i = j) /\ \A w, x \in hands : w = x
    BY <2>1 DEF Owned
  <2>6. closes[c] = IF sock[c] = "closed" THEN 1 ELSE 0
    BY DEF Owned
  <2> HIDE DEF inQueue, hands
  <2> QED
    BY <2>3, <2>4, <2>5, <2>6 DEF Held, inQueue, hands
<1> QED
  BY <1>1, Invariance, PTL DEF IInv

\* No client is served more than keep_alive_max_count_ requests on a connection, and the
\* last one is answered with the announcement that it is closed.
THEOREM LastIsAnnounced == Spec => []CloseIsAnnounced
<1>1. Counted => CloseIsAnnounced
  BY DEF Counted, CloseIsAnnounced
<1> QED
  BY <1>1, Invariance, PTL DEF IInv

-----------------------------------------------------------------------------
(***************************************************************************)
(* Descriptors and the end of listen()                                     *)
(***************************************************************************)

\* The sockets the server has open: f is the set of their numbers, one for each.
Numbers(U, f, num) ==
  /\ f \in SUBSET Nat /\ IsFiniteSet(f)
  /\ \A x \in U : num[x] \in f
  /\ \A n \in f : \E x \in U : num[x] = n
  /\ \A x, y \in U : num[x] = num[y] => x = y

Sockets == Clients \cup {"svr"}

Opened(x) == IF x = "svr" THEN fd \in {"open", "shut"} ELSE sock[x] \in Held \cup {"accepted"}

InUse == {x \in Sockets : Opened(x)}

Descriptors == number \in [Sockets -> Nat] /\ Numbers(InUse, fds, number)

\* Where each connection is that has been accepted and not yet closed
Placed ==
  /\ worker \in [Workers -> {"test", "waiting", "running", "done"}]
  /\ \A w \in Workers : worker[w] # "running" => fn[w] = {}
  /\ \A w \in Workers : worker[w] = "done" => shutdown_ /\ jobs_ = <<>>
  /\ \A c \in Clients : sock[c] = "accepted" => c \in accepted
  /\ \A c \in Clients : sock[c] \in Held => InQueue(c) \/ \E w \in Workers : c \in fn[w]
  /\ \A w \in Workers : \A c, d \in fn[w] : c = d
  /\ \A c, d \in accepted : c = d
  /\ accepted # {} => listener = "enqueue"

\* How far listen() is
Accepting == {"start", "loop", "accept", "enqueue", "notify_one"}
Draining  == {"drain", "notify_all", "join"}

\* How far the two threads are, and what they have left of the listening socket
Order ==
  /\ listener \in Accepting \cup Draining \cup {"bind", "returned"}
  /\ stopper \in {"wait", "stop", "shutdown", "close", "stopped"}
  /\ fd \in {"none", "open", "shut", "closed"} /\ svr_sock_ \in {"fd", "invalid"}
  /\ listener = "bind" => fd = "none"
  /\ fd = "none" => /\ listener \in {"bind", "returned"} /\ stopper \notin {"shutdown", "close"}
                    /\ \A c \in Clients : sock[c] = "none"
  /\ is_running_ => listener \in (Accepting \ {"start"}) \cup Draining
  /\ shutdown_ => listener \in {"notify_all", "join", "returned"}
  /\ listener = "returned" /\ fd # "none" => Joined
  /\ svr_sock_ = "invalid" => fd \in {"none", "closed"} \/ stopper \in {"shutdown", "close"}
  /\ svr_sock_ = "fd" /\ listener \in Accepting => fd = "open"
  /\ stopper \in {"shutdown", "close"} => svr_sock_ = "invalid"
  /\ stopper = "close" => fd \in {"shut", "closed"}
  /\ listener \in Draining \cup {"returned"} =>
       fd \in {"none", "closed"} \/ stopper \in {"shutdown", "close"}

End == Descriptors /\ Placed /\ Order

\* A nonempty set of natural numbers has a least element.
LEMMA Least ==
  ASSUME NEW S, S \subseteq Nat, S # {}
  PROVE  Min(S) \in S
<1> DEFINE R == OpToRel(<, Nat)
<1>1. IsWellFoundedOn(R, Nat)
  BY NatLessThanWellFounded
<1>2. \A y, x \in Nat : y < x => <<y, x>> \in R
  BY DEF OpToRel
<1> HIDE DEF R
<1>3. PICK x \in S : \A y \in S : ~ (<<y, x>> \in R)
  BY <1>1, WFMin
<1>4. ASSUME NEW y \in S PROVE x <= y
  <2>1. ~ (<<y, x>> \in R) /\ y \in Nat /\ x \in Nat
    BY <1>3
  <2>2. ~ (y < x)
    BY <1>2, <2>1, Zenon
  <2> QED
    BY <2>1, <2>2, SMT
<1> QED
  BY <1>4 DEF Min

\* The number the next socket gets is not in use.
LEMMA LowestIsFree ==
  ASSUME fds \in SUBSET Nat, IsFiniteSet(fds)
  PROVE  Lowest \in Nat /\ Lowest \notin fds
<1> DEFINE n == Cardinality(fds)
<1>1. n \in Nat
  BY FS_CardinalityType
<1>2. IsFiniteSet(0 .. n) /\ Cardinality(0 .. n) = n + 1
  BY <1>1, FS_Interval
<1>3. ~ (0 .. n \subseteq fds)
  <2>1. 0 .. n \subseteq fds => Cardinality(0 .. n) <= n
    BY FS_Subset
  <2> QED
    BY <1>1, <1>2, <2>1
<1>4. (0 .. n) \ fds \subseteq Nat /\ (0 .. n) \ fds # {}
  BY <1>1, <1>3
<1> QED
  BY <1>4, Least DEF Lowest

\* A socket that is opened gets a number of its own.
LEMMA OpenNumbers ==
  ASSUME NEW D, NEW U \in SUBSET D, NEW f, NEW num \in [D -> Nat], Numbers(U, f, num),
         NEW a \in D \ U, NEW low \in Nat, low \notin f
  PROVE  /\ [num EXCEPT ![a] = low] \in [D -> Nat]
         /\ Numbers(U \cup {a}, f \cup {low}, [num EXCEPT ![a] = low])
<1> DEFINE new == [num EXCEPT ![a] = low]
<1>1. new \in [D -> Nat] /\ new[a] = low /\ \A x \in U : new[x] = num[x]
  OBVIOUS
<1> HIDE DEF new
<1>2. f \cup {low} \in SUBSET Nat /\ IsFiniteSet(f \cup {low})
  BY FS_AddElement DEF Numbers
<1>3. \A x \in U \cup {a} : new[x] \in f \cup {low}
  BY <1>1 DEF Numbers
<1>4. \A n \in f \cup {low} : \E x \in U \cup {a} : new[x] = n
  BY <1>1 DEF Numbers
<1>5. \A x, y \in U \cup {a} : new[x] = new[y] => x = y
  BY <1>1 DEF Numbers
<1>6. Numbers(U \cup {a}, f \cup {low}, new)
  BY <1>2, <1>3, <1>4, <1>5 DEF Numbers
<1> QED
  BY <1>1, <1>6 DEF new

\* One that is closed frees its number and no other.
LEMMA CloseNumbers ==
  ASSUME NEW U, NEW f, NEW num, Numbers(U, f, num), NEW a \in U
  PROVE  Numbers(U \ {a}, f \ {num[a]}, num)
<1>1. f \ {num[a]} \in SUBSET Nat /\ IsFiniteSet(f \ {num[a]})
  BY FS_RemoveElement DEF Numbers
<1> QED
  BY <1>1 DEF Numbers

-----------------------------------------------------------------------------

\* The three things a step can do to the descriptors
LEMMA SocketOpened ==
  ASSUME Descriptors, NEW a \in Sockets, ~ Opened(a), Open(a),
         \A x \in Sockets : Opened(x)' <=> x = a \/ Opened(x)
  PROVE  Descriptors'
<1>1. InUse \in SUBSET Sockets /\ a \in Sockets \ InUse /\ InUse' = InUse \cup {a}
  BY DEF InUse
<1>2. Lowest \in Nat /\ Lowest \notin fds
  BY LowestIsFree DEF Descriptors, Numbers
<1>3. number' = [number EXCEPT ![a] = Lowest] /\ fds' = fds \cup {Lowest}
  BY DEF Open
<1>4. number' \in [Sockets -> Nat] /\ Numbers(InUse \cup {a}, fds', number')
  BY <1>1, <1>2, <1>3, OpenNumbers DEF Descriptors
<1> QED
  BY <1>1, <1>4 DEF Descriptors, Sockets, Numbers

LEMMA SocketClosed ==
  ASSUME Descriptors, NEW a \in Sockets, Opened(a), CloseFd(a),
         \A x \in Sockets : Opened(x)' <=> x # a /\ Opened(x)
  PROVE  Descriptors'
<1>1. a \in InUse /\ InUse' = InUse \ {a}
  BY DEF InUse
<1>2. Numbers(InUse \ {a}, fds \ {number[a]}, number)
  BY <1>1, CloseNumbers DEF Descriptors
<1> QED
  BY <1>1, <1>2 DEF Descriptors, CloseFd, Sockets, Numbers

LEMMA SocketsSame ==
  ASSUME Descriptors, UNCHANGED fdVars, \A x \in Sockets : Opened(x)' <=> Opened(x)
  PROVE  Descriptors'
<1>1. InUse' = InUse
  BY DEF InUse
<1> QED
  BY <1>1 DEF Descriptors, fdVars, Sockets, Numbers

-----------------------------------------------------------------------------

\* What a step may change without a word of Placed, or of Order, being touched
LEMMA PlacedUnchanged ==
  ASSUME Placed, UNCHANGED <<jobs_, shutdown_, worker, fn, sock, accepted>>,
         accepted # {} => listener' = "enqueue"
  PROVE  Placed'
BY DEF Placed, InQueue

LEMMA OrderUnchanged ==
  ASSUME Order, UNCHANGED <<listener, stopper, fd, svr_sock_, is_running_, shutdown_>>,
         \A w \in Workers : worker[w] = "done" => worker'[w] = "done",
         \A c \in Clients : fd = "none" => sock'[c] = sock[c]
  PROVE  Order'
BY DEF Order, Joined

\* A connection a worker has moves from one of its states to another.
LEMMA HeldStays ==
  ASSUME Owned, End, NEW w \in Workers, NEW c \in fn[w], NEW s \in Held,
         sock' = [sock EXCEPT ![c] = s],
         UNCHANGED <<poolVars, accepted, listener, stopper, stateVars, fdVars>>
  PROVE  End'
<1> USE DEF End
<1>1. c \in Clients /\ sock[c] \in Held /\ sock \in [Clients -> SockStates] /\ c \notin accepted
  BY DEF Owned, Held
<1>2. \A d \in Clients : sock'[d] = IF d = c THEN s ELSE sock[d]
  BY <1>1
<1>3. Descriptors'
  <2>1. \A x \in Sockets : Opened(x)' <=> Opened(x)
    BY <1>1, <1>2 DEF Opened, Sockets, stateVars
  <2> QED
    BY <2>1, SocketsSame
<1>4. Placed'
  BY <1>1, <1>2 DEF Placed, poolVars, InQueue, Held
<1>5. Order'
  <2>1. fd # "none"
    BY <1>1 DEF Order, Held
  <2> QED
    BY <2>1, OrderUnchanged DEF poolVars, stateVars
<1> QED
  BY <1>3, <1>4, <1>5

\* End holds at first.
LEMMA InitEnd == ListenerInit => End
<1> SUFFICES ASSUME ListenerInit PROVE End
  OBVIOUS
<1>1. InUse = {}
  BY DEF ListenerInit, InUse, Opened, Held, Sockets
<1>2. Descriptors
  BY <1>1, FS_EmptySet DEF ListenerInit, Descriptors, Numbers, Sockets
<1>3. Placed
  BY DEF ListenerInit, PoolInit, Placed, Held
<1>4. Order
  BY DEF ListenerInit, PoolInit, Order
<1> QED
  BY <1>2, <1>3, <1>4 DEF End

\* The listener opens a socket, or takes a connection, or leaves the loop.
LEMMA ListenerEnd == ASSUME Owned, End, Listener \/ AcceptAgain PROVE End'
<1> USE DEF End
<1>1. CASE Bind
  <2>1. Placed'
    BY <1>1, PlacedUnchanged DEF Bind, Goto, poolVars, clientVars, Placed
  <2>2. Order'
    BY <1>1 DEF Bind, Goto, poolVars, clientVars, Order, Accepting, Draining
  <2>3. CASE fd' = "open"
    <3>1. fd = "none" /\ UNCHANGED sock
      BY <1>1 DEF Bind, Goto, Order, clientVars
    <3>2. Open("svr")
      BY <1>1, <2>3, <3>1 DEF Bind
    <3>3. "svr" \in Sockets /\ \A x \in Sockets : Opened(x)' <=> x = "svr" \/ Opened(x)
      BY <2>3, <3>1 DEF Opened, Sockets
    <3>4. ~ Opened("svr")
      BY <3>1 DEF Opened
    <3> QED
      BY <3>2, <3>3, <3>4, SocketOpened, <2>1, <2>2
  <2>4. CASE fd' # "open"
    <3>1. UNCHANGED <<fd, fdVars, sock>>
      BY <1>1, <2>4 DEF Bind, clientVars
    <3>2. Descriptors'
      BY <3>1, SocketsSame DEF Opened
    <3> QED
      BY <3>2, <2>1, <2>2
  <2> QED
    BY <2>3, <2>4
<1>2. CASE Accept
  <2>1. PICK c \in Backlog : accepted' = {c} /\ sock' = [sock EXCEPT ![c] = "accepted"] /\ Open(c)
    BY <1>2 DEF Accept
  <2>2. /\ c \in Clients /\ sock[c] = "backlog" /\ sock \in [Clients -> SockStates]
        /\ listener = "accept" /\ listener' = "enqueue" /\ fd = "open" /\ accepted = {}
        /\ UNCHANGED <<poolVars, stopper, stateVars>>
    BY <1>2 DEF Accept, Backlog, Goto, Owned, Placed
  <2>3. \A d \in Clients : sock'[d] = IF d = c THEN "accepted" ELSE sock[d]
    BY <2>1, <2>2
  <2>4. Descriptors'
    <3>1. c \in Sockets /\ c # "svr" /\ ~ Opened(c)
      BY <2>2, HttpListenerAssumption DEF Opened, Sockets, Held
    <3>2. \A x \in Sockets : Opened(x)' <=> x = c \/ Opened(x)
      BY <2>2, <2>3, <3>1 DEF Opened, Sockets, stateVars
    <3> QED
      BY <2>1, <3>1, <3>2, SocketOpened
  <2>5. Placed'
    BY <2>1, <2>2, <2>3 DEF Placed, poolVars, InQueue, Held
  <2>6. Order'
    BY <2>2 DEF Order, poolVars, stateVars, Accepting, Draining, Joined
  <2> QED
    BY <2>4, <2>5, <2>6
<1>3. CASE AcceptFails
  <2>1. /\ listener = "accept" /\ listener' = "drain"
        /\ UNCHANGED <<poolVars, stopper, svr_sock_, is_running_, clientVars, accepted>>
    BY <1>3 DEF AcceptFails, Goto
  <2>2. accepted = {} /\ UNCHANGED sock
    BY <2>1 DEF Placed, clientVars
  <2>3. Placed'
    BY <2>1, <2>2, PlacedUnchanged DEF poolVars
  <2>4. CASE svr_sock_ = "fd"
    <3>1. fd' = "closed" /\ CloseFd("svr") /\ fd = "open"
      BY <1>3, <2>1, <2>4 DEF AcceptFails, Order, Accepting
    <3>2. "svr" \in Sockets /\ Opened("svr") /\ \A x \in Sockets : Opened(x)' <=> x # "svr" /\ Opened(x)
      BY <2>2, <3>1 DEF Opened, Sockets
    <3>3. Descriptors'
      BY <3>1, <3>2, SocketClosed
    <3>4. Order'
      BY <2>1, <2>2, <2>4, <3>1 DEF Order, poolVars, Accepting, Draining, Joined
    <3> QED
      BY <2>3, <3>3, <3>4
  <2>5. CASE svr_sock_ # "fd"
    <3>1. UNCHANGED <<fd, fdVars>>
      BY <1>3, <2>5 DEF AcceptFails
    <3>2. Descriptors'
      BY <2>2, <3>1, SocketsSame DEF Opened
    <3>3. Order'
      BY <2>1, <2>2, <2>5, <3>1 DEF Order, poolVars, Accepting, Draining, Joined
    <3> QED
      BY <2>3, <3>2, <3>3
  <2> QED
    BY <2>4, <2>5
<1>4. CASE Enqueue
  <2>1. PICK c \in accepted :
          \/ Push(c) /\ listener' = "notify_one" /\ sock' = [sock EXCEPT ![c] = "queued"]
             /\ UNCHANGED <<closes, fdVars>>
          \/ Reject(c)
    BY <1>4 DEF Enqueue
  <2>2. /\ c \in Clients /\ sock[c] = "accepted" /\ sock \in [Clients -> SockStates]
        /\ \A w \in Workers : c \notin fn[w]
        /\ accepted' = {} /\ accepted = {c} /\ listener = "enqueue" /\ listener' \in {"notify_one", "loop"}
        /\ UNCHANGED <<stopper, stateVars, shutdown_, worker, fn>>
    BY <1>4, <2>1 DEF Enqueue, Owned, Placed, Held, Reject, Push, poolVars
  <2>3. Order'
    BY <2>2 DEF Order, stateVars, Accepting, Draining, Joined
  <2>4. ~ shutdown_ /\ \A w \in Workers : worker[w] # "done"
    BY <2>2 DEF Order, Placed
  <2>5. CASE Push(c) /\ sock' = [sock EXCEPT ![c] = "queued"] /\ UNCHANGED <<closes, fdVars>>
    <3>1. \A d \in Clients : sock'[d] = IF d = c THEN "queued" ELSE sock[d]
      BY <2>2, <2>5
    <3>2. \A x \in Sockets : Opened(x)' <=> Opened(x)
      BY <2>2, <3>1 DEF Opened, Sockets, stateVars, Held
    <3>3. Descriptors'
      BY <2>5, <3>2, SocketsSame
    <3>4. InQueue(c)' /\ \A d \in Clients : InQueue(d) => InQueue(d)'
      <4>1. jobs_' = Append(jobs_, c) /\ jobs_ \in Seq(Clients)
        BY <2>5 DEF Push, Owned
      <4>2. /\ Len(jobs_') = Len(jobs_) + 1 /\ jobs_'[Len(jobs_) + 1] = c /\ Len(jobs_) \in Nat
            /\ \A i \in 1 .. Len(jobs_) : jobs_'[i] = jobs_[i]
        BY <2>2, <4>1
      <4> QED
        BY <4>2 DEF InQueue
    <3>5. Placed'
      BY <2>2, <2>4, <3>1, <3>4 DEF Placed, Held
    <3> QED
      BY <2>3, <3>3, <3>5
  <2>6. CASE Reject(c)
    <3>1. /\ sock' = [sock EXCEPT ![c] = "closed"] /\ CloseFd(c) /\ UNCHANGED poolVars
      BY <2>6 DEF Reject
    <3>2. \A d \in Clients : sock'[d] = IF d = c THEN "closed" ELSE sock[d]
      BY <2>2, <3>1
    <3>3. c \in Sockets /\ c # "svr" /\ Opened(c)
      BY <2>2, HttpListenerAssumption DEF Opened, Sockets
    <3>4. \A x \in Sockets : Opened(x)' <=> x # c /\ Opened(x)
      BY <2>2, <3>2, <3>3 DEF Opened, Sockets, stateVars, Held
    <3>5. Descriptors'
      BY <3>1, <3>3, <3>4, SocketClosed
    <3>6. Placed'
      BY <2>2, <3>1, <3>2 DEF Placed, Held, poolVars, InQueue
    <3> QED
      BY <2>3, <3>5, <3>6
  <2> QED
    BY <2>1, <2>5, <2>6
<1>5. CASE Start \/ Loop \/ AcceptAgain \/ TryAddress \/ ShutdownPool \/ Join
  <2>1. UNCHANGED <<jobs_, worker, fn, sock, accepted, stopper, fd, fdVars, svr_sock_>>
    BY <1>5 DEF Start, Loop, AcceptAgain, TryAddress, ShutdownPool, Join, Pool, BeginShutdown, stateVars,
       clientVars, poolVars
  <2>2. Descriptors'
    BY <2>1, SocketsSame DEF Opened
  <2>3. Placed'
    BY <1>5, <2>1 DEF Placed, InQueue, Start, Loop, AcceptAgain, TryAddress, ShutdownPool, Join, Pool,
       BeginShutdown, poolVars, Goto
  <2>4. Order'
    BY <1>5, <2>1 DEF Order, Start, Loop, AcceptAgain, TryAddress, ShutdownPool, Join, Pool, BeginShutdown,
       poolVars, stateVars, Goto, Accepting, Draining, Joined
  <2> QED
    BY <2>2, <2>3, <2>4
<1>6. CASE NotifyWorker \/ NotifyWorkers
  <2>1. UNCHANGED <<jobs_, shutdown_, fn, sock, accepted, stopper, fd, fdVars, svr_sock_, is_running_>>
    BY <1>6 DEF NotifyWorker, NotifyWorkers, Pool, NotifyOne, NotifyAll, stateVars, clientVars
  <2>2. /\ worker' \in [Workers -> {"test", "waiting", "running", "done"}]
        /\ \A w \in Workers : worker'[w] # worker[w] => worker[w] = "waiting" /\ worker'[w] = "test"
    BY <1>6 DEF NotifyWorker, NotifyWorkers, Pool, NotifyOne, NotifyAll, Placed
  <2>3. \/ listener = "notify_one" /\ listener' = "loop"
        \/ listener = "notify_all" /\ listener' = "join"
    BY <1>6 DEF NotifyWorker, NotifyWorkers, Pool, Goto
  <2>4. Descriptors'
    BY <2>1, SocketsSame DEF Opened
  <2>5. Placed'
    BY <2>1, <2>2, <2>3 DEF Placed, InQueue
  <2>6. Order'
    BY <2>1, <2>3 DEF Order, Accepting, Draining
  <2> QED
    BY <2>4, <2>5, <2>6
<1> QED
  BY <1>1, <1>2, <1>3, <1>4, <1>5, <1>6 DEF Listener

\* A worker takes a job or finds none, serves the connection, closes it.
LEMMA ServeEnd == ASSUME Owned, End, NEW w \in Workers, Serve(w) PROVE End'
<1> USE DEF End
<1>1. CASE TakeJob(w)
  <2>1. /\ worker[w] = "test" /\ is_running_ /\ fn[w] = {}
        /\ UNCHANGED <<shutdown_, listener, stopper, stateVars, fdVars, sock, accepted>>
    BY <1>1 DEF TakeJob, Take, clientVars, Placed
  <2>2. Descriptors'
    BY <2>1, SocketsSame DEF Opened, stateVars
  <2>3. Order'
    BY <1>1, <2>1, OrderUnchanged DEF TakeJob, Take, Placed, stateVars
  <2>4. CASE jobs_ # <<>>
    <3>1. /\ fn' = [fn EXCEPT ![w] = {Head(jobs_)}] /\ jobs_' = Tail(jobs_)
          /\ worker' = [worker EXCEPT ![w] = "running"]
      BY <1>1, <2>4 DEF TakeJob, Take
    <3>2. \A c \in Clients : InQueue(c) => c = Head(jobs_) \/ InQueue(c)'
      <4>1. /\ Len(jobs_) \in Nat /\ Head(jobs_) = jobs_[1] /\ Len(jobs_') = Len(jobs_) - 1
            /\ \A i \in 1 .. Len(jobs_') : jobs_'[i] = jobs_[i + 1]
        BY <2>4, <3>1 DEF Owned
      <4>2. ASSUME NEW i \in 1 .. Len(jobs_), i # 1
            PROVE  i - 1 \in 1 .. Len(jobs_') /\ jobs_'[i - 1] = jobs_[i]
        BY <4>1, <4>2
      <4> QED
        BY <4>1, <4>2 DEF InQueue
    <3>3. fn \in [Workers -> SUBSET Clients] /\ \A x \in Workers : worker[x] # "done"
      BY <2>4 DEF Owned, Placed
    <3>4. /\ fn'[w] = {Head(jobs_)} /\ worker'[w] = "running"
          /\ \A x \in Workers \ {w} : fn'[x] = fn[x] /\ worker'[x] = worker[x]
          /\ worker' \in [Workers -> {"test", "waiting", "running", "done"}]
      BY <3>1, <3>3 DEF Placed
    <3>5. \A c \in Clients : sock[c] \in Held => InQueue(c)' \/ \E x \in Workers : c \in fn'[x]
      BY <2>1, <3>2, <3>4 DEF Placed
    <3>6. Placed'
      BY <2>1, <3>3, <3>4, <3>5 DEF Placed
    <3> QED
      BY <2>2, <2>3, <3>6
  <2>5. CASE jobs_ = <<>>
    <3>1. UNCHANGED <<jobs_, fn>> /\ worker' = [worker EXCEPT ![w] = IF shutdown_ THEN "done" ELSE "waiting"]
      BY <1>1, <2>5 DEF TakeJob, Take
    <3>2. Placed'
      BY <2>1, <2>5, <3>1 DEF Placed, InQueue
    <3> QED
      BY <2>2, <2>3, <3>2
  <2> QED
    BY <2>4, <2>5
<1>2. ASSUME NEW c \in Clients,
             Begin(w, c) \/ NextRound(w, c) \/ KeepAlive(w, c) \/ ProcessRequest(w, c) \/ RequestFails(w, c)
      PROVE  End'
  <2>1. c \in fn[w] /\ UNCHANGED <<poolVars, accepted, listener, stopper, stateVars, fdVars>>
    BY <1>2 DEF Begin, NextRound, KeepAlive, ProcessRequest, RequestFails, Running, servedVars
  <2>2. \E s \in Held : sock' = [sock EXCEPT ![c] = s]
    BY <1>2 DEF Begin, NextRound, KeepAlive, ProcessRequest, RequestFails, Held
  <2> QED
    BY <2>1, <2>2, HeldStays
<1>3. ASSUME NEW c \in Clients, Close(w, c) PROVE End'
  <2>1. /\ c \in fn[w] /\ sock[c] = "done" /\ sock \in [Clients -> SockStates] /\ worker[w] = "running"
        /\ sock' = [sock EXCEPT ![c] = "closed"] /\ CloseFd(c)
        /\ worker' = [worker EXCEPT ![w] = "test"] /\ fn' = [fn EXCEPT ![w] = {}]
        /\ UNCHANGED <<jobs_, shutdown_, listener, stopper, stateVars, accepted>>
    BY <1>3 DEF Close, Running, Finish, Owned
  <2>2. \A d \in Clients : sock'[d] = IF d = c THEN "closed" ELSE sock[d]
    BY <2>1
  <2>3. Descriptors'
    <3>1. c \in Sockets /\ c # "svr" /\ Opened(c)
      BY <2>1, HttpListenerAssumption DEF Opened, Sockets, Held
    <3>2. \A x \in Sockets : Opened(x)' <=> x # c /\ Opened(x)
      BY <2>1, <2>2, <3>1 DEF Opened, Sockets, stateVars, Held
    <3> QED
      BY <2>1, <3>1, <3>2, SocketClosed
  <2>4. Order'
    <3>1. fd # "none"
      BY <2>1 DEF Order
    <3> QED
      BY <2>1, <3>1, OrderUnchanged DEF stateVars, Placed
  <2>5. Placed'
    <3>1. \A d \in fn[w] : d = c
      BY <2>1 DEF Placed
    <3> QED
      BY <2>1, <2>2, <3>1 DEF Placed, InQueue, Held, Owned
  <2> QED
    BY <2>3, <2>4, <2>5
<1> QED
  BY <1>1, <1>2, <1>3 DEF Serve

\* The stop of the server, the clients and stuttering keep End.
LEMMA OthersEnd ==
  ASSUME Owned, End, Stopping \/ (\E c \in Clients : Client(c)) \/ UNCHANGED vars
  PROVE  End'
<1> USE DEF End
<1>1. CASE CloseServer
  <2>1. /\ stopper = "close" /\ stopper' = "stopped"
        /\ UNCHANGED <<poolVars, listener, sock, accepted, svr_sock_, is_running_>>
    BY <1>1 DEF CloseServer, Stop, StopVars, clientVars
  <2>2. Placed'
    BY <2>1, PlacedUnchanged DEF Placed, poolVars
  <2>3. CASE fd = "shut"
    <3>1. fd' = "closed" /\ CloseFd("svr")
      BY <1>1, <2>3 DEF CloseServer
    <3>2. "svr" \in Sockets /\ Opened("svr") /\ \A x \in Sockets : Opened(x)' <=> x # "svr" /\ Opened(x)
      BY <2>1, <2>3, <3>1 DEF Opened, Sockets
    <3>3. Descriptors'
      BY <3>1, <3>2, SocketClosed
    <3>4. Order'
      BY <2>1, <2>3, <3>1 DEF Order, poolVars, Joined
    <3> QED
      BY <2>2, <3>3, <3>4
  <2>4. CASE fd # "shut"
    <3>1. UNCHANGED <<fd, fdVars>> /\ fd = "closed"
      BY <1>1, <2>1, <2>4 DEF CloseServer, Order
    <3>2. Descriptors'
      BY <2>1, <3>1, SocketsSame DEF Opened
    <3>3. Order'
      BY <2>1, <3>1 DEF Order, poolVars, Joined
    <3> QED
      BY <2>2, <3>2, <3>3
  <2> QED
    BY <2>3, <2>4
<1>2. CASE WaitUntilReady \/ Exchange \/ ShutdownServer
  <2>1. UNCHANGED <<poolVars, listener, sock, accepted, fdVars, is_running_>>
    BY <1>2 DEF WaitUntilReady, Exchange, ShutdownServer, StopVars, clientVars
  <2>2. fd' = fd \/ (fd = "open" /\ fd' = "shut")
    BY <1>2 DEF WaitUntilReady, Exchange, ShutdownServer
  <2>3. Descriptors'
    BY <2>1, <2>2, SocketsSame DEF Opened
  <2>4. Placed'
    BY <2>1, PlacedUnchanged DEF Placed, poolVars
  <2>5. Order'
    BY <1>2, <2>1 DEF WaitUntilReady, Exchange, ShutdownServer, Stop, Order, poolVars, Joined, Accepting, Draining
  <2> QED
    BY <2>3, <2>4, <2>5
<1>3. ASSUME NEW c \in Clients, Connect(c) PROVE End'
  <2>1. /\ sock[c] = "none" /\ fd = "open" /\ sock' = [sock EXCEPT ![c] = "backlog"]
        /\ sock \in [Clients -> SockStates]
        /\ UNCHANGED <<poolVars, listener, stopper, stateVars, fdVars, accepted>>
    BY <1>3 DEF Connect, serverVars, Owned
  <2>2. \A d \in Clients : sock'[d] = IF d = c THEN "backlog" ELSE sock[d]
    BY <2>1
  <2>3. Descriptors'
    <3>1. \A x \in Sockets : Opened(x)' <=> Opened(x)
      BY <2>1, <2>2 DEF Opened, Sockets, stateVars, Held
    <3> QED
      BY <2>1, <3>1, SocketsSame
  <2>4. Placed'
    BY <2>1, <2>2 DEF Placed, poolVars, InQueue, Held
  <2>5. Order'
    BY <2>1, OrderUnchanged DEF poolVars, stateVars
  <2> QED
    BY <2>3, <2>4, <2>5
<1>4. CASE (\E c \in Clients : Send(c) \/ Leave(c)) \/ UNCHANGED vars
  <2>1. UNCHANGED <<poolVars, listener, stopper, stateVars, fdVars, sock, accepted>>
    BY <1>4 DEF Send, Leave, serverVars, vars, clientVars
  <2>2. Descriptors'
    BY <2>1, SocketsSame DEF Opened, stateVars
  <2>3. Placed'
    BY <2>1, PlacedUnchanged DEF Placed, poolVars
  <2>4. Order'
    BY <2>1, OrderUnchanged DEF poolVars, stateVars
  <2> QED
    BY <2>2, <2>3, <2>4
<1> QED
  BY <1>1, <1>2, <1>3, <1>4 DEF Stopping, Client

\* End holds in every state.
THEOREM ListenEnds == Spec => []End
<1>1. IInv /\ End /\ [Next]_vars => End'
  BY ListenerEnd, ServeEnd, OthersEnd DEF Next, IInv
<1> QED
  BY InitEnd, <1>1, Invariance, PTL DEF Spec

\* Once listen() has returned, with any number of workers and of connections, no worker is
\* left, every connection that was accepted is closed, and of the descriptors that were opened
\* only the one stop() is about to close is still in use.
THEOREM NothingIsLeft == Spec => []NothingAfterListen
<1>1. IInv /\ End => NothingAfterListen
  <2> SUFFICES ASSUME IInv, End, listener = "returned"
               PROVE  /\ fd # "none" => Joined
                      /\ \A c \in Clients : sock[c] \in {"none", "backlog", "closed"}
                      /\ fds = IF stopper \in {"shutdown", "close"} /\ fd # "closed"
                               THEN {number["svr"]} ELSE {}
    BY DEF NothingAfterListen
  <2> USE DEF IInv, End
  <2>1. fd # "none" => Joined
    BY DEF Order
  <2>2. \A c \in Clients : sock[c] \in {"none", "backlog", "closed"}
    <3>1. CASE fd = "none"
      BY <3>1 DEF Order
    <3>2. CASE fd # "none"
      <4>1. PICK w \in Workers : TRUE
        BY HttpListenerAssumption
      <4>2. jobs_ = <<>> /\ \A x \in Workers : fn[x] = {}
        BY <2>1, <3>2, <4>1 DEF Joined, Placed
      <4>3. \A c \in Clients : ~ InQueue(c)
        BY <4>2 DEF InQueue
      <4>4. \A c \in Clients : sock[c] \notin Held /\ sock[c] # "accepted"
        BY <4>2, <4>3 DEF Placed
      <4> QED
        BY <4>4 DEF Owned, SockStates
    <3> QED
      BY <3>1, <3>2
  <2>3. InUse = IF fd \in {"open", "shut"} THEN {"svr"} ELSE {}
    BY <2>2 DEF InUse, Opened, Sockets, Held
  <2>4. fd \in {"open", "shut"} <=> stopper \in {"shutdown", "close"} /\ fd # "closed"
    BY DEF Order
  <2>5. \A n : n \in fds <=> \E x \in InUse : number[x] = n
    BY DEF Descriptors, Numbers
  <2> QED
    BY <2>1, <2>2, <2>3, <2>4, <2>5
<1> QED
  BY <1>1, Invariance, ListenEnds, PTL

=============================================================================
