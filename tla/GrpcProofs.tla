------------------------------- MODULE GrpcProofs -------------------------------
(***************************************************************************)
(* Proofs about Grpc, for every bound MaxEvents.                           *)
(*                                                                         *)
(* The safety properties are not inductive: that the flag stays down, and  *)
(* that a client which gives up has really lost its call, depend on what   *)
(* can still be in the completion queue.  IInv says so: a failed event     *)
(* means a dead call, and after a failed event only failed ones follow, in *)
(* the hand of GrpcThread and in the queue alike.                          *)
(***************************************************************************)
EXTENDS Grpc, TLAPS

\* Every event of a queue has failed.
AllFailed(events) == \A i \in DOMAIN events : ~events[i].ok

NoneFailed(events) == \A i \in DOMAIN events : events[i].ok

\* An event fails on a dead call only.
FailureMeansDead == call # "dead" => NoneFailed(cq_) /\ NoneFailed(got)

\* Before the call has been started nothing is outstanding on it.
CallStarted ==
  /\ main = "ctor_writer" <=> call = "none"
  /\ call = "none" => pending = {}

\* Nothing succeeds after a failure.
FailuresAreLast ==
  /\ \A i, j \in DOMAIN cq_ : i < j /\ cq_[j].ok => cq_[i].ok
  /\ NoneFailed(got) \/ AllFailed(cq_)

\* The flag is cleared by a failure: no success is left to set it again.
FlagDown ==
  ~is_connected_ /\ main \in {"loop", "frame"} =>
    call = "dead" /\ AllFailed(cq_) /\ AllFailed(got)

\* After a late write the next thing the main thread does is to look at the flag.
LateWriteIsLast ==
  \/ late_writes = 0
  \/ late_writes = 1 /\ main = "loop" /\ ~is_connected_

IInv ==
  /\ TypeOK
  /\ CallStarted
  /\ FailureMeansDead
  /\ FailuresAreLast
  /\ FlagDown
  /\ LateWriteIsLast
  /\ NoSpuriousDisconnect

-----------------------------------------------------------------------------

\* Every action keeps the types.
LEMMA TypeStep == TypeOK /\ [Next]_vars => TypeOK'
<1>. SUFFICES ASSUME TypeOK, [Next]_vars PROVE TypeOK'
  OBVIOUS
<1>. USE DEF TypeOK
<1>1. CASE StartCall
  BY <1>1 DEF StartCall, Tags
<1>2. CASE InitFlag
  BY <1>2 DEF InitFlag
<1>3. CASE GetIsConnected
  BY <1>3 DEF GetIsConnected, Ends
<1>4. CASE KeepFilming
  BY <1>4 DEF KeepFilming
<1>5. CASE Write
  BY <1>5 DEF Write, Tags
<1>6. CASE WriteWhileBusy
  BY <1>6 DEF WriteWhileBusy, Ends
<1>7. CASE MainFails
  BY <1>7 DEF MainFails, Ends
<1>8. CASE NextEvent
  BY <1>8 DEF NextEvent
<1>9. CASE HandleEvent
  <2>1. is_connected_' \in BOOLEAN /\ proc' \in {"running"} \cup Ends
    <3>. DEFINE e == Head(got)
    <3>1. \/ OnConnected(e) \/ OnConnectFailed(e)
          \/ OnWritten(e) \/ OnWriteFailed(e)
      BY <1>9, Zenon DEF HandleEvent
    <3>. QED
      BY <3>1, Zenon DEF OnConnected, OnConnectFailed, OnWritten, OnWriteFailed, Ends
  <2>. QED
    BY <1>9, <2>1 DEF HandleEvent
<1>10. CASE Complete
  BY <1>10 DEF Complete, Event
<1>11. CASE CallDies
  BY <1>11 DEF CallDies
<1>12. CASE Ended \/ UNCHANGED vars
  BY <1>12 DEF Ended, vars
<1>. QED
  BY <1>1, <1>2, <1>3, <1>4, <1>5, <1>6, <1>7, <1>8, <1>9, <1>10, <1>11, <1>12 DEF Next

\* The state variables keep their types: the threads, the flag, the queue of
\* events and the operations outstanding on writer_.
THEOREM TypeCorrect == Spec => []TypeOK
<1>1. Init => TypeOK
  BY DEF Init, TypeOK, Tags, Event
<1>2. TypeOK /\ [Next]_vars => TypeOK'
  BY TypeStep
<1>. QED
  BY <1>1, <1>2, PTL DEF Spec


-----------------------------------------------------------------------------

\* What is left of a queue when its head is taken.
LEMMA TakeHead ==
  ASSUME NEW q \in Seq(Event), q # <<>>
  PROVE  /\ 1 \in DOMAIN q /\ Head(q) = q[1]
         /\ \A i \in DOMAIN Tail(q) : i \in Nat /\ i + 1 \in DOMAIN q /\ Tail(q)[i] = q[i + 1]
  OBVIOUS

\* A queue after an event has been added at its end.
LEMMA AddLast ==
  ASSUME NEW q \in Seq(Event), NEW e \in Event
  PROVE  \A i \in DOMAIN Append(q, e) :
           /\ i \in Nat
           /\ \/ i \in DOMAIN q /\ Append(q, e)[i] = q[i]
              \/ i = Len(q) + 1 /\ Append(q, e)[i] = e /\ \A j \in DOMAIN q : j < i
  OBVIOUS

\* The invariant holds of the initial states.
LEMMA IInvInit == Init => IInv
<1>. SUFFICES ASSUME Init PROVE IInv
  OBVIOUS
<1>1. TypeOK
  BY DEF Init, TypeOK, Tags, Event
<1>2. NoneFailed(cq_) /\ AllFailed(cq_) /\ NoneFailed(got)
  BY DEF Init, NoneFailed, AllFailed
<1>3. CallStarted /\ FlagDown /\ LateWriteIsLast /\ NoSpuriousDisconnect
  BY DEF Init, CallStarted, FlagDown, LateWriteIsLast, NoSpuriousDisconnect
<1>4. FailureMeansDead /\ FailuresAreLast
  BY <1>2 DEF Init, FailureMeansDead, FailuresAreLast, NoneFailed, AllFailed
<1>. QED
  BY <1>1, <1>3, <1>4 DEF IInv

\* Taking an event from the queue keeps the order of failures.
LEMMA NextEventKeeps ==
  ASSUME IInv, NextEvent
  PROVE  FailureMeansDead' /\ FailuresAreLast' /\ FlagDown'
<1>. USE DEF IInv, TypeOK
<1>1. /\ cq_ \in Seq(Event) /\ cq_ # <<>>
      /\ got' = <<cq_[1]>> /\ cq_' = Tail(cq_)
      /\ UNCHANGED <<call, main, is_connected_>>
  BY TakeHead DEF NextEvent
<1>2. DOMAIN got' = {1} /\ got'[1] = cq_[1]
  BY <1>1
<1>3. 1 \in DOMAIN cq_
  BY <1>1, TakeHead
<1>4. \A i \in DOMAIN cq_' : i \in Nat /\ i + 1 \in DOMAIN cq_ /\ cq_'[i] = cq_[i + 1]
  BY <1>1, TakeHead
<1>5. FailureMeansDead'
  BY <1>1, <1>2, <1>3, <1>4 DEF FailureMeansDead, NoneFailed
<1>6. FailuresAreLast'
  <2>1. \A i, j \in DOMAIN cq_' : i < j /\ cq_'[j].ok => cq_'[i].ok
    BY <1>4 DEF FailuresAreLast
  <2>2. cq_[1].ok \/ \A i \in DOMAIN cq_' : ~cq_'[i].ok
    <3>. SUFFICES ASSUME NEW i \in DOMAIN cq_', cq_'[i].ok
                  PROVE  cq_[1].ok
      OBVIOUS
    <3>1. i = 0 \/ 1 < i + 1
      BY <1>4
    <3>2. i # 0
      BY <1>1
    <3>. QED
      BY <1>3, <1>4, <3>1, <3>2 DEF FailuresAreLast
  <2>. QED
    BY <1>2, <2>1, <2>2 DEF FailuresAreLast, NoneFailed, AllFailed
<1>7. FlagDown'
  BY <1>1, <1>2, <1>3, <1>4 DEF FlagDown, AllFailed
<1>. QED
  BY <1>5, <1>6, <1>7

\* A completion goes to the end of the queue, and fails exactly on a dead call.
LEMMA CompleteKeeps ==
  ASSUME IInv, Complete
  PROVE  FailureMeansDead' /\ FailuresAreLast' /\ FlagDown'
<1>. USE DEF IInv, TypeOK
<1>1. PICK t \in pending : cq_' = Append(cq_, [tag |-> t, ok |-> call = "open"])
  BY DEF Complete
<1>. DEFINE e == [tag |-> t, ok |-> call = "open"]
<1>2. e \in Event
  BY DEF Event
<1>3. UNCHANGED <<call, main, is_connected_, got>>
  BY DEF Complete
<1>4. \A i \in DOMAIN cq_' :
        /\ i \in Nat
        /\ \/ i \in DOMAIN cq_ /\ cq_'[i] = cq_[i]
           \/ i = Len(cq_) + 1 /\ cq_'[i] = e /\ \A j \in DOMAIN cq_ : j < i
  BY <1>1, <1>2, AddLast
<1>5. CASE call = "open"
  <2>1. e.ok
    BY <1>5
  <2>2. NoneFailed(cq_) /\ NoneFailed(got)
    BY <1>5 DEF FailureMeansDead
  <2>3. NoneFailed(cq_')
    BY <1>4, <2>1, <2>2 DEF NoneFailed
  <2>. QED
    BY <1>3, <1>5, <2>2, <2>3 DEF FailureMeansDead, FailuresAreLast, FlagDown, NoneFailed
<1>6. CASE call # "open"
  <2>1. ~e.ok
    BY <1>6
  <2>2. call = "dead"
    BY <1>6 DEF CallStarted, Complete
  <2>. QED
    BY <1>3, <1>4, <2>1, <2>2
       DEF FailureMeansDead, FailuresAreLast, FlagDown, NoneFailed, AllFailed
<1>. QED
  BY <1>5, <1>6

\* The branches of GrpcThread: a success leaves the flag up, a failure clears it
\* for good, or ends the client because its call is dead.
LEMMA HandleEventKeeps ==
  ASSUME IInv, HandleEvent
  PROVE  FlagDown' /\ LateWriteIsLast' /\ NoSpuriousDisconnect'
<1>. USE DEF IInv, TypeOK
<1>. DEFINE e == Head(got)
<1>1. got \in Seq(Event) /\ got # <<>>
  BY DEF HandleEvent
<1>2. 1 \in DOMAIN got /\ e = got[1]
  BY <1>1, TakeHead
<1>3. got' = <<>> /\ UNCHANGED <<main, call, cq_, late_writes>>
  BY DEF HandleEvent
<1>4. AllFailed(got')
  BY <1>3 DEF AllFailed
<1>5. CASE OnConnected(e)
  BY <1>3, <1>4, <1>5
     DEF OnConnected, FlagDown, AllFailed, LateWriteIsLast, NoSpuriousDisconnect, HandleEvent
<1>6. ASSUME ~e.ok PROVE call = "dead" /\ AllFailed(cq_)
  BY <1>2, <1>6 DEF FailureMeansDead, FailuresAreLast, NoneFailed
<1>7. CASE OnConnectFailed(e)
  BY <1>3, <1>4, <1>6, <1>7
     DEF OnConnectFailed, FlagDown, AllFailed, LateWriteIsLast, NoSpuriousDisconnect
<1>8. CASE OnWritten(e)
  <2>1. is_connected_' = TRUE /\ proc' = "running"
    BY <1>8, Zenon DEF OnWritten, HandleEvent
  <2>2. FlagDown'
    BY <2>1, Zenon DEF FlagDown
  <2>3. main \in {"loop", "frame"} => is_connected_
    BY <1>2, <1>8 DEF OnWritten, FlagDown, AllFailed
  <2>4. late_writes = 0
    BY <2>3 DEF LateWriteIsLast
  <2>. QED
    BY <1>3, <2>1, <2>2, <2>4 DEF LateWriteIsLast, NoSpuriousDisconnect
<1>9. CASE OnWriteFailed(e)
  BY <1>3, <1>4, <1>6, <1>9
     DEF OnWriteFailed, FlagDown, AllFailed, LateWriteIsLast, NoSpuriousDisconnect, HandleEvent
<1>. QED
  <2>1. OnConnected(e) \/ OnConnectFailed(e) \/ OnWritten(e) \/ OnWriteFailed(e)
    BY Zenon DEF HandleEvent
  <2>. QED
    BY <1>5, <1>7, <1>8, <1>9, <2>1

\* Every step keeps the invariant.
LEMMA IInvStep == IInv /\ [Next]_vars => IInv'
<1>. SUFFICES ASSUME IInv, [Next]_vars PROVE IInv'
  OBVIOUS
<1>. USE DEF IInv
<1>1. TypeOK'
  BY TypeStep
<1>2. ASSUME UNCHANGED <<cq_, got, call>> PROVE FailureMeansDead' /\ FailuresAreLast'
  BY <1>2 DEF FailureMeansDead, FailuresAreLast, AllFailed, NoneFailed
<1>3. ASSUME UNCHANGED <<cq_, got, call, is_connected_>>,
             main' \in {"loop", "frame"} => main \in {"loop", "frame"} \/ is_connected_
      PROVE  FlagDown'
  BY <1>3 DEF FlagDown, AllFailed
<1>4. CASE StartCall
  <2>1. NoneFailed(cq_) /\ NoneFailed(got)
    BY <1>4 DEF StartCall, CallStarted, FailureMeansDead
  <2>2. /\ UNCHANGED <<cq_, got, proc, is_connected_, late_writes>>
        /\ main = "ctor_writer" /\ main' = "ctor_flag" /\ call' = "open"
    BY <1>4 DEF StartCall
  <2>3. FailureMeansDead' /\ FailuresAreLast'
    BY <2>1, <2>2 DEF FailureMeansDead, FailuresAreLast, NoneFailed
  <2>. QED
    BY <1>1, <1>4, <2>2, <2>3
       DEF StartCall, CallStarted, FlagDown, LateWriteIsLast, NoSpuriousDisconnect
<1>5. CASE InitFlag
  <2>1. /\ UNCHANGED <<cq_, got, proc, call, pending, late_writes>>
        /\ main = "ctor_flag" /\ main' = "loop"
    BY <1>5 DEF InitFlag
  <2>2. is_connected_' = TRUE
    BY <1>5, Zenon DEF InitFlag
  <2>3. FlagDown'
    BY <2>2, Zenon DEF FlagDown
  <2>. QED
    BY <1>1, <1>2, <2>1, <2>3 DEF CallStarted, LateWriteIsLast, NoSpuriousDisconnect
<1>6. CASE GetIsConnected
  <2>1. /\ UNCHANGED <<cq_, got, call, pending, is_connected_, late_writes>>
        /\ main = "loop" /\ main' \in {"loop", "frame"}
        /\ \/ is_connected_ /\ proc' = proc
           \/ ~is_connected_ /\ main' = main
    BY <1>6 DEF GetIsConnected
  <2>2. FlagDown'
    BY <1>3, <2>1
  <2>3. LateWriteIsLast'
    BY <2>1 DEF LateWriteIsLast
  <2>4. NoSpuriousDisconnect'
    BY <2>1 DEF NoSpuriousDisconnect, FlagDown
  <2>. QED
    BY <1>1, <1>2, <2>1, <2>2, <2>3, <2>4 DEF CallStarted
<1>7. CASE KeepFilming
  <2>1. /\ UNCHANGED <<cq_, got, proc, call, pending, is_connected_, late_writes>>
        /\ main = "frame" /\ main' = "loop"
    BY <1>7 DEF KeepFilming
  <2>. QED
    BY <1>1, <1>2, <1>3, <2>1 DEF CallStarted, LateWriteIsLast, NoSpuriousDisconnect
<1>8. CASE Write
  <2>1. /\ UNCHANGED <<cq_, got, proc, call, is_connected_>>
        /\ main = "frame" /\ main' = "loop"
    BY <1>8 DEF Write
  <2>2. late_writes = 0
    BY <2>1 DEF LateWriteIsLast
  <2>3. IF is_connected_ THEN late_writes' = 0 ELSE late_writes' = 1
    BY <1>8, <2>2 DEF Write
  <2>4. LateWriteIsLast'
    BY <2>1, <2>3 DEF LateWriteIsLast
  <2>5. CallStarted'
    BY <1>8, <2>1 DEF CallStarted
  <2>. QED
    BY <1>1, <1>2, <1>3, <2>1, <2>4, <2>5 DEF NoSpuriousDisconnect
<1>9. CASE WriteWhileBusy \/ MainFails
  <2>1. /\ UNCHANGED <<main, cq_, got, call, pending, is_connected_, late_writes>>
        /\ proc' \in {"aborted", "failed"}
    BY <1>9 DEF WriteWhileBusy, MainFails
  <2>. QED
    BY <1>1, <1>2, <1>3, <2>1 DEF CallStarted, LateWriteIsLast, NoSpuriousDisconnect
<1>10. CASE NextEvent
  <2>1. UNCHANGED <<proc, main, is_connected_, call, pending, late_writes>>
    BY <1>10 DEF NextEvent
  <2>. QED
    BY <1>1, <1>10, <2>1, NextEventKeeps
       DEF CallStarted, LateWriteIsLast, NoSpuriousDisconnect
<1>11. CASE HandleEvent
  <2>1. UNCHANGED <<main, call, pending, cq_>> /\ got' = <<>>
    BY <1>11 DEF HandleEvent
  <2>2. FailureMeansDead' /\ FailuresAreLast'
    BY <2>1 DEF FailureMeansDead, FailuresAreLast, NoneFailed, AllFailed
  <2>. QED
    BY <1>1, <1>11, <2>1, <2>2, HandleEventKeeps DEF CallStarted
<1>12. CASE Complete
  <2>1. UNCHANGED <<proc, main, is_connected_, call, late_writes>> /\ pending # {}
    BY <1>12 DEF Complete
  <2>. QED
    BY <1>1, <1>12, <2>1, CompleteKeeps
       DEF CallStarted, LateWriteIsLast, NoSpuriousDisconnect
<1>13. CASE CallDies
  <2>1. /\ UNCHANGED <<proc, main, is_connected_, pending, cq_, got, late_writes>>
        /\ call = "open" /\ call' = "dead"
    BY <1>13 DEF CallDies
  <2>2. FailureMeansDead' /\ FailuresAreLast' /\ FlagDown'
    BY <2>1 DEF FailureMeansDead, FailuresAreLast, FlagDown, AllFailed, NoneFailed
  <2>. QED
    BY <1>1, <2>1, <2>2 DEF CallStarted, LateWriteIsLast, NoSpuriousDisconnect
<1>14. CASE Ended \/ UNCHANGED vars
  <2>1. UNCHANGED vars
    BY <1>14 DEF Ended
  <2>. QED
    BY <1>1, <1>2, <1>3, <2>1 DEF vars, CallStarted, LateWriteIsLast, NoSpuriousDisconnect
<1>. QED
  BY <1>4, <1>5, <1>6, <1>7, <1>8, <1>9, <1>10, <1>11, <1>12, <1>13, <1>14 DEF Next

\* The invariant holds in every reachable state.
THEOREM Invariance == Spec => []IInv
  BY IInvInit, IInvStep, PTL DEF Spec

\* Once the constructor has returned the flag is down for a dead call only.
ClearedForDeadCall == main \in {"loop", "frame"} /\ ~is_connected_ => call = "dead"

\* A client says "server disconnected" only when its call is over, and the flag it
\* looks at is cleared for no other reason.
THEOREM DisconnectIsReal == Spec => [](NoSpuriousDisconnect /\ ClearedForDeadCall)
<1>1. IInv => NoSpuriousDisconnect /\ ClearedForDeadCall
  BY DEF IInv, FlagDown, ClearedForDeadCall
<1>. QED
  BY <1>1, Invariance, PTL

\* After the flag has been cleared one segment more is written at most.
THEOREM OneLateWrite == Spec => []AtMostOneLateWrite
<1>1. IInv => AtMostOneLateWrite
  BY DEF IInv, LateWriteIsLast, AtMostOneLateWrite
<1>. QED
  BY <1>1, Invariance, PTL

\* A cleared flag is never set again.
THEOREM StaysDisconnected == Spec => NeverReconnected
<1>1. IInv /\ [Next]_vars =>
        [~is_connected_ /\ main \in {"loop", "frame"} => ~is_connected_']_vars
  <2>. SUFFICES ASSUME IInv, Next, ~is_connected_, main \in {"loop", "frame"}
                PROVE  ~is_connected_'
    OBVIOUS
  <2>1. CASE HandleEvent
    <3>1. got \in Seq(Event) /\ got # <<>>
      BY <2>1 DEF IInv, TypeOK, HandleEvent
    <3>2. ~Head(got).ok
      BY <3>1, TakeHead DEF IInv, FlagDown, AllFailed
    <3>. DEFINE e == Head(got)
    <3>3. OnConnected(e) \/ OnConnectFailed(e) \/ OnWritten(e) \/ OnWriteFailed(e)
      BY <2>1, Zenon DEF HandleEvent
    <3>. QED
      BY <3>2, <3>3, Zenon DEF OnConnected, OnConnectFailed, OnWritten, OnWriteFailed
  <2>2. CASE ~HandleEvent
    <3>1. ~InitFlag
      BY DEF InitFlag
    <3>2. is_connected_' = is_connected_
      BY <2>2, <3>1 DEF Next, StartCall, GetIsConnected, KeepFilming, Write, WriteWhileBusy,
           MainFails, NextEvent, Complete, CallDies, Ended, vars
    <3>. QED
      BY <3>2
  <2>. QED
    BY <2>1, <2>2
<1>. QED
  BY <1>1, Invariance, PTL DEF Spec, NeverReconnected

=============================================================================
