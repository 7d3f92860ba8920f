---------------------------------- MODULE Grpc ----------------------------------
(***************************************************************************)
(* The client's end of the streamVideo call: class Grpc of                 *)
(* lib/client/Grpc.cc, used by the two threads of program_client.          *)
(*                                                                         *)
(*   - the main thread constructs the object, then, frame after frame,     *)
(*     asks GetIsConnected and from time to time calls Write;              *)
(*   - GrpcThread takes events from the completion queue and keeps         *)
(*     is_connected_ up to date;                                           *)
(*   - the gRPC library (external) completes the operations and loses the  *)
(*     call when the server or the network goes away.                      *)
(*                                                                         *)
(* What the main thread does between these calls (camera, encoder) is in   *)
(* VideoStreamer, which implements this specification.                     *)
(***************************************************************************)
EXTENDS Naturals, Sequences

CONSTANT MaxEvents   \* bound: events waiting in cq_ that GrpcThread has not taken

ASSUME MaxEventsAssumption == MaxEvents \in Nat \ {0}

VARIABLES
  proc,           \* the process: running, or how it ended (see Ends)
  main,           \* how far the main thread is in its use of this object
  is_connected_,
  call,           \* the RPC inside the library: none, open or dead
  pending,        \* tags of the operations on writer_ that have not completed
  cq_,            \* completion queue: events not yet returned by cq_.Next
  got,            \* events GrpcThread has taken and not yet handled (0 or 1)
  late_writes     \* history: Writes issued although is_connected_ was false

vars == <<proc, main, is_connected_, call, pending, cq_, got, late_writes>>

Tags  == {"CONNECT", "WRITE"}   \* WRITES_DONE and FINISH: no caller reaches them
Event == [tag : Tags, ok : BOOLEAN]

\* disconnected: exit(1) because the server is gone; failed: exit(1) for a
\* camera or encoder error; aborted: GPR_ASSERT inside gRPC.
Ends == {"disconnected", "failed", "aborted"}

-----------------------------------------------------------------------------
(***************************************************************************)
(* The main thread                                                         *)
(***************************************************************************)

\* Members are initialised in the order of their declaration: grpc_thread_
\* already runs when writer_ and is_connected_ are not initialised yet.
Init ==
  /\ proc = "running"
  /\ main = "ctor_writer"
  /\ is_connected_ \in BOOLEAN
  /\ call = "none"
  /\ pending = {}
  /\ cq_ = <<>>
  /\ got = <<>>
  /\ late_writes = 0

\* mutant: a member initialiser that also calls Finish
StartCallAndFinish ==
  /\ proc = "running" /\ main = "ctor_writer"
  /\ main' = "ctor_flag"
  /\ call' = "open"
  /\ pending' = {"CONNECT", "FINISH"}
  /\ UNCHANGED <<proc, is_connected_, cq_, got, late_writes>>

\* writer_(stub_->AsyncstreamVideo(..., CONNECT))
StartCall ==
  /\ proc = "running" /\ main = "ctor_writer"
  /\ main' = "ctor_flag"
  /\ call' = "open"
  /\ pending' = {"CONNECT"}
  /\ UNCHANGED <<proc, is_connected_, cq_, got, late_writes>>

\* mutant: bool is_connected_ without an initialiser
FlagLeftAlone ==
  /\ proc = "running" /\ main = "ctor_flag"
  /\ main' = "loop"
  /\ UNCHANGED <<proc, is_connected_, call, pending, cq_, got, late_writes>>

\* bool is_connected_ = true, the last member
InitFlag ==
  /\ proc = "running" /\ main = "ctor_flag"
  /\ main' = "loop"
  /\ is_connected_' = TRUE
  /\ UNCHANGED <<proc, call, pending, cq_, got, late_writes>>

\* mutant: the answer is not looked at
FilmAnyway ==
  /\ proc = "running" /\ main = "loop" /\ main' = "frame"
  /\ UNCHANGED <<proc, is_connected_, call, pending, cq_, got, late_writes>>

\* if (grpc_.GetIsConnected()) { film the frame ... } else exit(1)
GetIsConnected ==
  /\ proc = "running" /\ main = "loop"
  /\ \/ is_connected_  /\ main' = "frame" /\ UNCHANGED proc
     \/ ~is_connected_ /\ proc' = "disconnected" /\ UNCHANGED main
  /\ UNCHANGED <<is_connected_, call, pending, cq_, got, late_writes>>

\* A frame that does not end the segment: nothing is sent.
KeepFilming ==
  /\ proc = "running" /\ main = "frame"
  /\ main' = "loop"
  /\ UNCHANGED <<proc, is_connected_, call, pending, cq_, got, late_writes>>

\* The library takes one operation at a time on writer_. CONNECT also occupies
\* it while its event waits in cq_: the initial metadata leave write_ops_ only
\* when Next returns the event.
WriterBusy ==
  \/ pending # {}
  \/ \E i \in DOMAIN cq_ : cq_[i].tag = "CONNECT"

\* writer_->Write(frame_message_, WRITE): returns before the frame is sent
Write ==
  /\ proc = "running" /\ main = "frame"
  /\ ~WriterBusy /\ Len(cq_) < MaxEvents
  /\ main' = "loop"
  /\ pending' = {"WRITE"}
  /\ late_writes' = late_writes + (IF is_connected_ THEN 0 ELSE 1)
  /\ UNCHANGED <<proc, is_connected_, call, cq_, got>>

\* The same call while an operation is outstanding: the library asserts.
WriteWhileBusy ==
  /\ proc = "running" /\ main = "frame"
  /\ WriterBusy
  /\ proc' = "aborted"
  /\ UNCHANGED <<main, is_connected_, call, pending, cq_, got, late_writes>>

\* exit(1) for a reason that has nothing to do with the connection
MainFails ==
  /\ proc = "running" /\ main \in {"loop", "frame"}
  /\ proc' = "failed"
  /\ UNCHANGED <<main, is_connected_, call, pending, cq_, got, late_writes>>

-----------------------------------------------------------------------------
(***************************************************************************)
(* GrpcThread                                                              *)
(***************************************************************************)

\* cq_.Next(&got_tag, &ok)
NextEvent ==
  /\ proc = "running"
  /\ got = <<>> /\ cq_ # <<>>
  /\ got' = <<Head(cq_)>>
  /\ cq_' = Tail(cq_)
  /\ UNCHANGED <<proc, main, is_connected_, call, pending, late_writes>>

\* The branches of the loop body, one per tag and value of ok.
OnConnected(e) == e.tag = "CONNECT" /\ e.ok /\ UNCHANGED <<proc, is_connected_>>

OnConnectFailed(e) ==
  e.tag = "CONNECT" /\ ~e.ok /\ proc' = "disconnected" /\ UNCHANGED is_connected_

\* mutant: ok is not looked at
AlwaysWritten(e) == e.tag = "WRITE" /\ is_connected_' = TRUE /\ UNCHANGED proc

OnWritten(e) == e.tag = "WRITE" /\ e.ok /\ is_connected_' = TRUE /\ UNCHANGED proc

\* mutant: the failure is only logged
WriteFailureLogged(e) == e.tag = "WRITE" /\ ~e.ok /\ UNCHANGED <<proc, is_connected_>>

OnWriteFailed(e) ==
  e.tag = "WRITE" /\ ~e.ok /\ is_connected_' = FALSE /\ UNCHANGED proc

HandleEvent ==
  /\ proc = "running" /\ got # <<>>
  /\ LET e == Head(got) IN
       OnConnected(e) \/ OnConnectFailed(e) \/ OnWritten(e) \/ OnWriteFailed(e)
  /\ got' = <<>>
  /\ UNCHANGED <<main, call, pending, cq_, late_writes>>

-----------------------------------------------------------------------------
(***************************************************************************)
(* The gRPC library (external)                                             *)
(***************************************************************************)

\* An operation completes: with ok while the call is open (the message is in
\* the transport, not necessarily at the server), without once it is dead.
Complete ==
  /\ proc = "running"
  /\ \E t \in pending :
       /\ pending' = pending \ {t}
       /\ cq_' = Append(cq_, [tag |-> t, ok |-> call = "open"])
  /\ UNCHANGED <<proc, main, is_connected_, call, got, late_writes>>

\* Server stopped, connection lost or never established: the call is over for
\* good, a ClientContext serves one call only.
CallDies ==
  /\ proc = "running" /\ call = "open"
  /\ call' = "dead"
  /\ UNCHANGED <<proc, main, is_connected_, pending, cq_, got, late_writes>>

-----------------------------------------------------------------------------

\* A process that has ended takes no step.
Ended == proc \in Ends /\ UNCHANGED vars

Next ==
  \/ StartCall \/ InitFlag
  \/ GetIsConnected \/ KeepFilming \/ Write \/ WriteWhileBusy \/ MainFails
  \/ NextEvent \/ HandleEvent
  \/ Complete \/ CallDies
  \/ Ended

Spec == Init /\ [][Next]_vars

\* Both threads run; the library fails what is outstanding on a dead call (on an
\* open one the server may hold a write back for ever); the camera goes on
\* delivering frames and time passes: a main thread that films for ever finds
\* kDurationSeconds over again and again, hence strong fairness of Write.
Fairness ==
  /\ WF_vars(StartCall) /\ WF_vars(InitFlag) /\ WF_vars(GetIsConnected)
  /\ SF_vars(Write \/ WriteWhileBusy)
  /\ WF_vars(NextEvent) /\ WF_vars(HandleEvent)
  /\ WF_vars(call = "dead" /\ Complete)

FairSpec == Spec /\ Fairness

-----------------------------------------------------------------------------
(***************************************************************************)
(* Properties                                                              *)
(***************************************************************************)

\* Types: only CONNECT and WRITE are ever outstanding on the call, the tags that
\* GrpcThread's loop expects from this client.
TypeOK ==
  /\ proc \in {"running"} \cup Ends
  /\ main \in {"ctor_writer", "ctor_flag", "loop", "frame"}
  /\ is_connected_ \in BOOLEAN
  /\ call \in {"none", "open", "dead"}
  /\ pending \in SUBSET Tags
  /\ cq_ \in Seq(Event)
  /\ got \in Seq(Event)
  /\ late_writes \in Nat

\* The client gives up with "server disconnected" only when its call is really
\* over: neither the uninitialised flag nor an event handled while the
\* constructor still runs can end a client whose server is there.
NoSpuriousDisconnect == proc = "disconnected" => call = "dead"

\* Between GetIsConnected and Write the other thread may clear the flag: the
\* frame in hand is still sent, but never more than that one.
AtMostOneLateWrite == late_writes <= 1

\* Once a failed write has cleared the flag no later event sets it again:
\* completions reach GrpcThread in order, and after a failure all of them fail.
NeverReconnected ==
  [][~is_connected_ /\ main \in {"loop", "frame"} => ~is_connected_']_vars

\* A client whose call is over does not go on filming for nobody: it ends.
DeadCallEndsClient == call = "dead" ~> proc \in Ends

=============================================================================
