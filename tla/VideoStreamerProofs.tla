---------------------------- MODULE VideoStreamerProofs ----------------------------
(***************************************************************************)
(* VideoStreamer implements Grpc: seen through GrpcMain, every step of the *)
(* client is a step of the specification of its connection, or none.  What *)
(* GrpcProofs shows of Grpc therefore holds of the client.                 *)
(*                                                                         *)
(* And what the segments hold: each frame is in one of them, in the order  *)
(* of filming, on a time line of its own and at the rate and with the      *)
(* vision the code gives it.                                               *)
(***************************************************************************)
EXTENDS VideoStreamer, FiniteSetTheorems, TLAPS

\* The steps of the main thread that touch the connection are those of Grpc with
\* the same name; in the others GrpcMain does not move.
LEMMA StepImplements == [Next]_vars => [G!Next]_G!vars
<1>. SUFFICES ASSUME [Next]_vars PROVE G!Next \/ UNCHANGED G!vars
  OBVIOUS
<1>1. CASE Construct
  BY <1>1 DEF Construct, G!Next
<1>2. CASE Open
  <2>1. CASE pc = "open" /\ Fail
    BY <2>1 DEF Fail, G!Next
  <2>2. CASE Goto("open", "grab") /\ UNCHANGED grpcVars
    BY <2>2 DEF Goto, grpcVars, GrpcMain, G!vars
  <2>. QED
    BY <1>2, <2>1, <2>2 DEF Open
<1>3. CASE Grab
  <2>1. UNCHANGED grpcVars
    BY <1>3 DEF Grab
  <2>2. pc = "grab" /\ pc' \in {"grab", "check"}
    BY <1>3 DEF Grab, Goto
  <2>. QED
    BY <2>1, <2>2 DEF grpcVars, GrpcMain, G!vars
<1>4. CASE Check
  BY <1>4 DEF Check, G!Next
<1>5. CASE EncodeFrame
  <2>1. CASE G!KeepFilming
    BY <2>1 DEF G!Next
  <2>2. CASE Goto("encode", "status") /\ UNCHANGED grpcVars
    BY <2>2 DEF Goto, grpcVars, GrpcMain, G!vars
  <2>. QED
    BY <1>5, <2>1, <2>2 DEF EncodeFrame, grpcVars
<1>6. CASE SetOther
  BY <1>6 DEF SetOther, Goto, grpcVars, GrpcMain, G!vars
<1>7. CASE CloseSegment
  BY <1>7 DEF CloseSegment, Goto, grpcVars, GrpcMain, G!vars
<1>8. CASE WriteSegment
  BY <1>8 DEF WriteSegment, G!Next
<1>9. CASE ResetWriter
  <2>1. CASE pc = "reset" /\ Fail
    BY <2>1 DEF Fail, G!Next
  <2>2. CASE Goto("reset", "grab") /\ UNCHANGED grpcVars
    BY <2>2 DEF Goto, grpcVars, GrpcMain, G!vars
  <2>. QED
    BY <1>9, <2>1, <2>2 DEF ResetWriter, grpcVars
<1>10. CASE EncoderFails
  BY <1>10 DEF EncoderFails, Fail, G!Next
<1>11. CASE GrpcSide
  BY <1>11 DEF GrpcSide, G!Next
<1>12. CASE Ended
  BY <1>12 DEF Ended, G!Next
<1>13. CASE UNCHANGED vars
  BY <1>13 DEF vars, grpcVars, GrpcMain, G!vars
<1>. QED
  BY <1>1, <1>2, <1>3, <1>4, <1>5, <1>6, <1>7, <1>8, <1>9, <1>10, <1>11, <1>12, <1>13
     DEF Next

\* The client uses its connection as the specification Grpc says.
THEOREM ImplementsGrpc == Spec => GrpcSpec
<1>1. Init => G!Init
  BY DEF Init
<1>. QED
  BY <1>1, StepImplements, PTL DEF Spec, GrpcSpec, G!Spec

\* The theorems of GrpcProofs, of the connection inside this client
GP == INSTANCE GrpcProofs WITH main <- GrpcMain

LEMMA SameSpec == G!Spec => GP!Spec
<1>1. G!Init => GP!Init
  BY DEF G!Init, GP!Init
<1>2. [G!Next]_G!vars => [GP!Next]_GP!vars
  BY DEF GP!Next, G!Next, GP!vars, G!vars, GP!StartCall, G!StartCall, GP!StartCallAndFinish,
         G!StartCallAndFinish, GP!InitFlag, G!InitFlag, GP!GetIsConnected, G!GetIsConnected,
         GP!KeepFilming, G!KeepFilming, GP!Write, G!Write, GP!WriteWhileBusy, G!WriteWhileBusy,
         GP!MainFails, G!MainFails, GP!NextEvent, G!NextEvent, GP!HandleEvent, G!HandleEvent,
         GP!Complete, G!Complete, GP!CallDies, G!CallDies, GP!Ended, G!Ended, GP!OnConnected,
         G!OnConnected, GP!OnConnectFailed, G!OnConnectFailed, GP!OnWritten, G!OnWritten,
         GP!OnWriteFailed, G!OnWriteFailed, GP!Ends, G!Ends, GP!WriterBusy, G!WriterBusy, GP!Tags,
         G!Tags
<1>. QED
  BY <1>1, <1>2, PTL DEF G!Spec, GP!Spec

LEMMA GrpcAssumption == GP!MaxEventsAssumption
BY VideoStreamerAssumption DEF GP!MaxEventsAssumption

\* With the camera and the encoder around the connection, the client says "server
\* disconnected" only when its call is over: the flag is down only for a dead call,
\* from the moment the main thread starts to film.
THEOREM DisconnectIsRealInClient ==
  Spec => [](G!NoSpuriousDisconnect /\ GP!ClearedForDeadCall)
<1>1. GP!Spec => [](GP!NoSpuriousDisconnect /\ GP!ClearedForDeadCall)
  BY GrpcAssumption, GP!DisconnectIsReal
<1>2. GP!NoSpuriousDisconnect => G!NoSpuriousDisconnect
  BY DEF GP!NoSpuriousDisconnect, G!NoSpuriousDisconnect
<1>. QED
  BY <1>1, <1>2, ImplementsGrpc, SameSpec, PTL DEF GrpcSpec

\* However long a segment takes to encode between GetIsConnected and Write, one more at most is
\* written after the flag has been cleared. (Before GrpcThread has handled the failure of a write
\* the flag is up, and further segments may go to a call that is dead.)
THEOREM OneLateWriteInClient == Spec => []G!AtMostOneLateWrite
<1>1. GP!Spec => []GP!AtMostOneLateWrite
  BY GrpcAssumption, GP!OneLateWrite
<1>2. GP!AtMostOneLateWrite => G!AtMostOneLateWrite
  BY DEF GP!AtMostOneLateWrite, G!AtMostOneLateWrite
<1>. QED
  BY <1>1, <1>2, ImplementsGrpc, SameSpec, PTL DEF GrpcSpec

\* While the client films, encodes and sends, a cleared flag is never set again.
THEOREM StaysDisconnectedInClient == Spec => G!NeverReconnected
<1>1. GP!Spec => GP!NeverReconnected
  BY GrpcAssumption, GP!StaysDisconnected
<1>2. GP!NeverReconnected => G!NeverReconnected
  BY DEF GP!NeverReconnected, G!NeverReconnected, GP!vars, G!vars
<1>. QED
  BY <1>1, <1>2, ImplementsGrpc, SameSpec, PTL DEF GrpcSpec

-----------------------------------------------------------------------------
(***************************************************************************)
(* What the segments hold.                                                 *)
(*                                                                         *)
(* The window being filmed is a run of consecutive frames that ends with   *)
(* the last one encoded, stamped from 0; VideoStreamer and its writer      *)
(* count these frames each in its own way, and the two counts agree.  The  *)
(* windows sent before are such runs too and end where this one begins.    *)
(***************************************************************************)

\* The frame of Encoded that was encoded last, and that of the last window sent
Filmed == IF pc \in {"check", "encode"} THEN Len(shot) - 1 ELSE Len(shot)

SentUpTo == IF pc = "reset" THEN Filmed ELSE Filmed - memory_video_writer_.frame_count_

\* A run of n frames
Run(first, n) == {[pts |-> k, frame |-> first + k] : k \in 0 .. n - 1}

Packet  == [pts : Nat, frame : Nat]
Message == [status : {"", "full"}, vision : {"", "ok", "no"}, data : SUBSET Packet]

Writer ==
  [fps_ : Nat, frame_count_ : Nat, encoded_frame_count_ : Nat,
   codec : SUBSET Packet, muxed : SUBSET Packet, refused : SUBSET Packet,
   avio_ctx_ : {"open", "closed"}, buffer_ : {"null", "live", "dangling"}]

Starts  == {"ctor_writer", "ctor_flag", "open"}
Closing == {"status", "close", "write", "reset"}

Reports(vision, frame) == vision = CheckVisionEmergency(shot[frame])

Types ==
  /\ pc \in Starts \cup {"grab", "check", "encode"} \cup Closing
  /\ shot \in Seq(RedPercents)
  /\ pc \in {"check", "encode"} => shot # <<>>
  /\ is_emergency_ \in {"ok", "no"}
  /\ frame_message_ \in Message
  /\ sent \in Seq([message : Message, window : SUBSET Packet, refused : SUBSET Packet])
  /\ memory_video_writer_ \in Writer

\* VideoStreamer counts the frame it is about to encode, the writer those it has.
Counts ==
  /\ memory_video_writer_.frame_count_ <= Filmed
  /\ frame_count_ = IF pc \in Closing THEN memory_video_writer_.frame_count_
                                      ELSE memory_video_writer_.frame_count_ + 1
  /\ pc \in Closing => memory_video_writer_.frame_count_ > 0
  /\ pc \in Starts => memory_video_writer_.frame_count_ = 0

Held ==
  Window(memory_video_writer_) =
    Run(Filmed - memory_video_writer_.frame_count_ + 1, memory_video_writer_.frame_count_)

Segments ==
  \A i \in DOMAIN sent :
    \E first, n \in 1 .. SentUpTo :
      /\ first + n - 1 <= SentUpTo
      /\ sent[i].window = Run(first, n)
      /\ Reports(sent[i].message.vision, first + n - 1)

Tiling ==
  /\ UNION {FramesOf(sent[i].window) : i \in DOMAIN sent} = 1 .. SentUpTo
  /\ \A i \in DOMAIN sent : \A j \in 1 .. i - 1 : Before(sent[j].window, sent[i].window)

Rates ==
  /\ pc \notin Starts => memory_video_writer_.fps_ > 0
  /\ pc = "reset" => sent # <<>> /\ Last(sent).window = Window(memory_video_writer_)
  /\ pc # "reset" /\ sent # <<>> =>
       memory_video_writer_.fps_ = Cardinality(Last(sent).window) \div Duration

\* The buffer is open as long as frames are encoded; the flush leaves nothing in the
\* encoder, and the message gets what was muxed.
Opened ==
  /\ pc \in {"grab", "check", "encode", "status", "close"} =>
       memory_video_writer_.avio_ctx_ = "open"
  /\ pc = "write" => /\ memory_video_writer_.codec = {}
                     /\ frame_message_.data = memory_video_writer_.muxed

Handed ==
  \A i \in DOMAIN sent : sent[i].window = sent[i].message.data \cup sent[i].refused

Visions ==
  /\ pc \in {"check", "encode", "status"} => Reports(is_emergency_, Len(shot))
  /\ pc \in {"close", "write"} => Reports(frame_message_.vision, Len(shot))

IInv == Types /\ Counts /\ Held /\ Segments /\ Tiling /\ Rates /\ Visions /\ Opened /\ Handed

-----------------------------------------------------------------------------

\* What a run of frames is: as many as its length, on one time line from 0
LEMMA RunFacts ==
  ASSUME NEW first \in Int, NEW n \in Nat
  PROVE  /\ FramesOf(Run(first, n)) = first .. first + n - 1
         /\ OneTimeline(Run(first, n))
         /\ n > 0 => \E p \in Run(first, n) : p.pts = 0
         /\ IsFiniteSet(Run(first, n)) /\ Cardinality(Run(first, n)) = n
<1>1. FramesOf(Run(first, n)) = first .. first + n - 1
  <2>1. ASSUME NEW f \in first .. first + n - 1 PROVE f \in FramesOf(Run(first, n))
    <3>1. f - first \in 0 .. n - 1 /\ first + (f - first) = f
      OBVIOUS
    <3>2. [pts |-> f - first, frame |-> first + (f - first)] \in Run(first, n)
      BY <3>1 DEF Run
    <3>. QED
      BY <3>1, <3>2 DEF FramesOf
  <2>2. ASSUME NEW f \in FramesOf(Run(first, n)) PROVE f \in first .. first + n - 1
    BY DEF FramesOf, Run
  <2>. QED
    BY <2>1, <2>2
<1>2. OneTimeline(Run(first, n))
  BY DEF OneTimeline, Run
<1>3. ASSUME n > 0 PROVE \E p \in Run(first, n) : p.pts = 0
  <2>1. [pts |-> 0, frame |-> first + 0] \in Run(first, n)
    BY <1>3 DEF Run
  <2>. QED
    BY <2>1
<1>4. IsFiniteSet(Run(first, n)) /\ Cardinality(Run(first, n)) = n
  <2>. DEFINE b == [k \in 0 .. n - 1 |-> [pts |-> k, frame |-> first + k]]
  <2>1. b \in Bijection(0 .. n - 1, Run(first, n))
    <3>1. b \in [0 .. n - 1 -> Run(first, n)]
      BY DEF Run
    <3>2. \A k, m \in 0 .. n - 1 : b[k] = b[m] => k = m
      OBVIOUS
    <3>3. \A p \in Run(first, n) : \E k \in 0 .. n - 1 : b[k] = p
      BY DEF Run
    <3>. QED
      BY <3>1, <3>2, <3>3 DEF Bijection, Injection, Surjection, IsInjective
  <2>2. IsFiniteSet(0 .. n - 1) /\ Cardinality(0 .. n - 1) = n
    BY FS_Interval
  <2>. QED
    BY <2>1, <2>2, FS_Bijection DEF ExistsBijection
<1>. QED
  BY <1>1, <1>2, <1>3, <1>4

\* A run of none, and a run with one more frame
LEMMA RunGrows ==
  ASSUME NEW first \in Int, NEW n \in Nat
  PROVE  /\ Run(first, 0) = {}
         /\ Run(first, n + 1) = Run(first, n) \cup {[pts |-> n, frame |-> first + n]}
<1>1. 0 .. (n + 1) - 1 = (0 .. n - 1) \cup {n}
  OBVIOUS
<1>. QED
  BY <1>1 DEF Run

\* The fields of a writer
LEMMA WriterFields ==
  ASSUME NEW w, w \in Writer
  PROVE  /\ w.fps_ \in Nat /\ w.frame_count_ \in Nat /\ w.encoded_frame_count_ \in Nat
         /\ w.codec \subseteq Packet /\ w.muxed \subseteq Packet /\ w.refused \subseteq Packet
         /\ w.avio_ctx_ \in {"open", "closed"}
  BY DEF Writer

\* A writer that has counted another frame
LEMMA WriterCounts ==
  ASSUME NEW w, w \in Writer, NEW k, k \in Nat, NEW e, e = [w EXCEPT !.frame_count_ = k]
  PROVE  /\ e \in Writer /\ e.frame_count_ = k /\ e.fps_ = w.fps_
         /\ e.codec = w.codec /\ e.muxed = w.muxed /\ e.refused = w.refused
         /\ e.avio_ctx_ = w.avio_ctx_
  BY DEF Writer

\* The count of frames after one more
Counted(w) == w.frame_count_ + 1

\* WriteFrame adds one packet to the window, wherever the encoder and av_write_frame
\* leave the others: the buffer is open.
LEMMA WriterEncodes ==
  ASSUME NEW w, w \in Writer, IsFiniteSet(w.codec), w.avio_ctx_ = "open", NEW f \in Nat,
         NEW out, out \subseteq w.codec \cup {FramePacket(w, f)}, NEW lost, lost \subseteq out
  PROVE  /\ WriteFrame(w, f, out, lost) \in Writer
         /\ WriteFrame(w, f, out, lost).frame_count_ = Counted(w)
         /\ WriteFrame(w, f, out, lost).fps_ = w.fps_
         /\ WriteFrame(w, f, out, lost).avio_ctx_ = "open"
         /\ Window(WriteFrame(w, f, out, lost)) = Window(w) \cup {FramePacket(w, f)}
<1>. PICK x, new, n : /\ x = WriteFrame(w, f, out, lost)
                      /\ new = FramePacket(w, f) /\ n = Counted(w)
  OBVIOUS
<1>1. new \in Packet /\ n \in Nat /\ n = w.frame_count_ + 1
  <2>1. w.frame_count_ \in Nat
    BY WriterFields
  <2>. QED
    BY <2>1 DEF Packet, FramePacket, Counted
<1>2. Cardinality(out) \in Nat
  <2>1. IsFiniteSet(w.codec \cup {new})
    BY FS_AddElement
  <2>. QED
    BY <2>1, FS_Subset, FS_CardinalityType
<1>3. PICK c, m, r, k :
        /\ c = (w.codec \cup {new}) \ out /\ m = w.muxed \cup (out \ lost)
        /\ r = w.refused \cup lost        /\ k = w.encoded_frame_count_ + Cardinality(out)
  OBVIOUS
<1>4. c \subseteq Packet /\ m \subseteq Packet /\ r \subseteq Packet /\ k \in Nat
  BY <1>1, <1>2, <1>3, WriterFields
<1>5. PICK e : e = [w EXCEPT !.codec = c, !.muxed = m, !.refused = r, !.encoded_frame_count_ = k]
  OBVIOUS
<1>6. /\ e \in Writer /\ e.frame_count_ = w.frame_count_ /\ e.fps_ = w.fps_
      /\ e.codec = c /\ e.muxed = m /\ e.refused = r /\ e.avio_ctx_ = "open"
  <2>1. e \in Writer
    BY <1>4, <1>5 DEF Writer
  <2>2. /\ e.codec = c /\ e.muxed = m /\ e.refused = r /\ e.avio_ctx_ = w.avio_ctx_
        /\ e.frame_count_ = w.frame_count_ /\ e.fps_ = w.fps_
    BY <1>5 DEF Writer
  <2>. QED
    BY <2>1, <2>2
<1>7. x = [e EXCEPT !.frame_count_ = n]
  <2>1. e = EncodeVideoFrame(w, {FramePacket(w, f)}, out, lost)
    BY <1>3, <1>5 DEF EncodeVideoFrame
  <2>. QED
    BY <1>1, <1>6, <2>1 DEF WriteFrame
<1>8. /\ x \in Writer /\ x.frame_count_ = n /\ x.fps_ = e.fps_
      /\ x.codec = e.codec /\ x.muxed = e.muxed /\ x.refused = e.refused
      /\ x.avio_ctx_ = "open"
  BY <1>1, <1>6, <1>7, WriterCounts
<1>9. c \cup m \cup r = w.codec \cup w.muxed \cup w.refused \cup {new}
  BY <1>3
<1>10. Window(x) = Window(w) \cup {new}
  BY <1>6, <1>8, <1>9 DEF Window
<1>. QED
  BY <1>6, <1>8, <1>10

\* GetMemoryBuffer flushes the encoder into the open buffer: the window stays what it
\* is, and nothing of it is left in the encoder.
LEMMA WriterCloses ==
  ASSUME NEW w, w \in Writer, IsFiniteSet(w.codec), w.avio_ctx_ = "open",
         NEW lost, lost \subseteq w.codec, NEW x, x = GetMemoryBuffer(w, lost)
  PROVE  /\ x \in Writer /\ x.frame_count_ = w.frame_count_ /\ x.fps_ = w.fps_
         /\ Window(x) = Window(w) /\ x.muxed \subseteq Packet /\ x.codec = {}
<1>1. PICK c, m, r, k :
        /\ c = (w.codec \cup {}) \ w.codec /\ m = w.muxed \cup (w.codec \ lost)
        /\ r = w.refused \cup lost /\ k = w.encoded_frame_count_ + Cardinality(w.codec)
  OBVIOUS
<1>2. c \subseteq Packet /\ m \subseteq Packet /\ r \subseteq Packet /\ k \in Nat
  BY <1>1, WriterFields, FS_CardinalityType
<1>3. PICK e : e = [w EXCEPT !.codec = c, !.muxed = m, !.refused = r, !.encoded_frame_count_ = k]
  OBVIOUS
<1>4. /\ e \in Writer /\ e.frame_count_ = w.frame_count_ /\ e.fps_ = w.fps_
      /\ e.codec = c /\ e.muxed = m /\ e.refused = r
  <2>1. e \in Writer
    BY <1>2, <1>3 DEF Writer
  <2>2. /\ e.codec = c /\ e.muxed = m /\ e.refused = r
        /\ e.frame_count_ = w.frame_count_ /\ e.fps_ = w.fps_
    BY <1>3 DEF Writer
  <2>. QED
    BY <2>1, <2>2
<1>5. x = [e EXCEPT !.avio_ctx_ = "closed", !.buffer_ = "live"]
  BY <1>1, <1>3 DEF EncodeVideoFrame, GetMemoryBuffer
<1>6. /\ x \in Writer /\ x.frame_count_ = e.frame_count_ /\ x.fps_ = e.fps_
      /\ x.codec = e.codec /\ x.muxed = e.muxed /\ x.refused = e.refused
  BY <1>4, <1>5 DEF Writer
<1>7. c \cup m \cup r = w.codec \cup w.muxed \cup w.refused /\ c = {}
  BY <1>1
<1>. QED
  BY <1>2, <1>4, <1>6, <1>7 DEF Window

\* Initialize starts an empty window at the rate the writer was given.
LEMMA WriterOpens ==
  ASSUME NEW w, w \in Writer, NEW x, x = Initialize(w)
  PROVE  /\ x \in Writer /\ Window(x) = {} /\ x.avio_ctx_ = "open"
         /\ x.fps_ = w.fps_ /\ x.frame_count_ = w.frame_count_
<1>1. x.codec = {} /\ x.muxed = {} /\ x.refused = {} /\ x.avio_ctx_ = "open"
  BY DEF Initialize, Writer
<1>2. x \in Writer /\ x.fps_ = w.fps_ /\ x.frame_count_ = w.frame_count_
  BY DEF Initialize, Writer
<1>. QED
  BY <1>1, <1>2 DEF Window

\* Reset counts from 0 and takes the new rate.
LEMMA WriterClears ==
  ASSUME NEW w, w \in Writer, NEW fps, fps \in Nat, NEW x, x = Cleared(w, fps)
  PROVE  x \in Writer /\ x.fps_ = fps /\ x.frame_count_ = 0
  BY DEF Cleared, Writer

-----------------------------------------------------------------------------

\* All that IInv speaks of, but for pc
sceneVars == <<memory_video_writer_, frame_count_, is_emergency_, frame_message_, shot, sent>>

\* What the counts range over
LEMMA Numbers ==
  ASSUME Types, Counts
  PROVE  /\ Len(shot) \in Nat /\ Filmed \in Nat /\ SentUpTo \in Nat
         /\ memory_video_writer_.frame_count_ \in Nat
<1>1. Len(shot) \in Nat /\ (shot # <<>> => Len(shot) > 0)
  BY DEF Types
<1>2. Filmed \in Nat
  BY <1>1 DEF Types, Filmed
<1>3. memory_video_writer_.frame_count_ \in Nat
  BY WriterFields DEF Types
<1>. QED
  BY <1>1, <1>2, <1>3 DEF Counts, SentUpTo

\* Steps that send nothing leave what was sent in order.
LEMMA SentKept ==
  ASSUME Types, Counts, Segments, Tiling, UNCHANGED sent, SentUpTo' = SentUpTo,
         \A f \in 1 .. SentUpTo : shot'[f] = shot[f]
  PROVE  Segments' /\ Tiling'
<1>1. SentUpTo \in Nat
  BY Numbers
<1>2. Tiling'
  BY DEF Tiling
<1>3. ASSUME NEW i \in DOMAIN sent
      PROVE  \E first, n \in 1 .. SentUpTo :
               /\ first + n - 1 <= SentUpTo
               /\ sent[i].window = Run(first, n)
               /\ sent[i].message.vision = CheckVisionEmergency(shot'[first + n - 1])
  <2>1. PICK first \in 1 .. SentUpTo, n \in 1 .. SentUpTo :
          /\ first + n - 1 <= SentUpTo
          /\ sent[i].window = Run(first, n)
          /\ Reports(sent[i].message.vision, first + n - 1)
    BY DEF Segments
  <2>2. first + n - 1 \in 1 .. SentUpTo
    BY <1>1, <2>1
  <2>. QED
    BY <2>1, <2>2 DEF Reports
<1>4. Segments'
  BY <1>3 DEF Segments, Reports
<1>. QED
  BY <1>2, <1>4

\* Steps of the connection, and of the main thread that touch nothing of the film
LEMMA SceneKept ==
  ASSUME IInv, UNCHANGED sceneVars,
         \/ pc' = pc
         \/ pc \in Starts /\ pc' \in Starts
         \/ pc = "check" /\ pc' = "encode"
  PROVE  IInv'
<1>. USE DEF IInv, sceneVars
<1>1. Types'
  BY DEF Types, Starts, Closing
<1>2. Filmed' = Filmed /\ SentUpTo' = SentUpTo
  BY DEF Filmed, SentUpTo, Starts
<1>3. Counts' /\ Held'
  BY <1>2 DEF Counts, Held, Closing, Starts
<1>4. Segments' /\ Tiling'
  BY <1>2, SentKept
<1>5. Rates' /\ Visions'
  BY DEF Rates, Visions, Starts, Reports
<1>6. Opened' /\ Handed'
  BY DEF Opened, Handed, Starts
<1>. QED
  BY <1>1, <1>3, <1>4, <1>5, <1>6

\* What the encoder holds is finite: it is part of the window.
LEMMA CodecIsFinite == ASSUME Types, Counts, Held PROVE IsFiniteSet(memory_video_writer_.codec)
<1>1. PICK r : r = Window(memory_video_writer_)
  OBVIOUS
<1>2. IsFiniteSet(r)
  <2>1. PICK first, n : /\ first = Filmed - memory_video_writer_.frame_count_ + 1
                        /\ n = memory_video_writer_.frame_count_
    OBVIOUS
  <2>2. first \in Int /\ n \in Nat
    BY <2>1, Numbers
  <2>. QED
    BY <1>1, <2>1, <2>2, RunFacts DEF Held
<1>3. memory_video_writer_.codec \subseteq r
  BY <1>1 DEF Window
<1>. QED
  BY <1>2, <1>3, FS_Subset

\* IInv holds at first.
LEMMA InitIInv == Init => IInv
<1>. SUFFICES ASSUME Init PROVE IInv
  OBVIOUS
<1>. USE DEF Init
<1>1. PICK w : w = Constructed(FirstFps)
  OBVIOUS
<1>2. w \in Writer /\ w.frame_count_ = 0 /\ Window(w) = {}
  BY <1>1, VideoStreamerAssumption DEF Constructed, Writer, Window
<1>3. Filmed = 0 /\ SentUpTo = 0
  BY <1>1, <1>2 DEF Filmed, SentUpTo
<1>4. Types
  <2>1. frame_message_ \in Message
    BY DEF Message, Clear
  <2>2. memory_video_writer_ \in Writer
    BY <1>1, <1>2
  <2>. QED
    BY <2>1, <2>2 DEF Types, Starts
<1>5. Counts
  BY <1>1, <1>2, <1>3 DEF Counts, Closing
<1>6. Held
  BY <1>1, <1>2, <1>3, RunGrows DEF Held
<1>7. Segments /\ Tiling
  BY <1>3 DEF Segments, Tiling
<1>8. Rates /\ Visions
  BY DEF Rates, Visions, Starts
<1>9. Opened /\ Handed
  BY DEF Opened, Handed
<1>. QED
  BY <1>4, <1>5, <1>6, <1>7, <1>8, <1>9 DEF IInv

\* IInv is kept when the camera and the encoder are opened ...
LEMMA OpenStep == ASSUME IInv, Open PROVE IInv'
<1>. USE DEF IInv
<1>1. CASE pc = "open" /\ Fail
  BY <1>1, SceneKept DEF Fail, filmVars, sceneVars
<1>2. CASE /\ Goto("open", "grab") /\ CanInitialize(memory_video_writer_)
           /\ memory_video_writer_' = Initialize(memory_video_writer_)
           /\ UNCHANGED <<frame_count_, is_emergency_, frame_message_, shot, sent>>
  <2>1. PICK w, x : w = memory_video_writer_ /\ x = memory_video_writer_'
    OBVIOUS
  <2>2. w \in Writer /\ w.frame_count_ = 0 /\ w.fps_ > 0 /\ pc = "open" /\ pc' = "grab"
    BY <1>2, <2>1 DEF Goto, Counts, Starts, Types, CanInitialize
  <2>3. /\ x \in Writer /\ Window(x) = {} /\ x.fps_ = w.fps_ /\ x.frame_count_ = 0
        /\ x.avio_ctx_ = "open"
    BY <1>2, <2>1, <2>2, WriterOpens
  <2>4. Types'
    BY <1>2, <2>1, <2>2, <2>3 DEF Types, Writer
  <2>5. Filmed' = Filmed /\ SentUpTo' = SentUpTo
    BY <1>2, <2>1, <2>2, <2>3 DEF Filmed, SentUpTo
  <2>6. Counts'
    BY <1>2, <2>1, <2>2, <2>3, <2>5 DEF Counts, Closing, Starts
  <2>7. Held'
    <3>1. Filmed' - 0 + 1 \in Int
      BY <2>5, Numbers
    <3>. QED
      BY <2>1, <2>3, <3>1, RunGrows DEF Held
  <2>8. Segments' /\ Tiling'
    BY <1>2, <2>5, SentKept
  <2>9. Rates' /\ Visions'
    BY <1>2, <2>1, <2>2, <2>3 DEF Rates, Visions, Starts
  <2>10. Opened' /\ Handed'
    BY <1>2, <2>1, <2>2, <2>3 DEF Opened, Handed
  <2>. QED
    BY <2>4, <2>6, <2>7, <2>8, <2>9, <2>10
<1>. QED
  BY <1>1, <1>2 DEF Open

\* ... when a frame is grabbed ...
LEMMA GrabStep == ASSUME IInv, Grab PROVE IInv'
<1>. USE DEF IInv
<1>1. CASE Goto("grab", "grab") /\ UNCHANGED <<is_emergency_, shot>>
  BY <1>1, SceneKept DEF Grab, Goto, sceneVars
<1>2. ASSUME Goto("grab", "check"), NEW red \in RedPercents,
             is_emergency_' = CheckVisionEmergency(red), shot' = Append(shot, red)
      PROVE  IInv'
  <2>1. UNCHANGED <<memory_video_writer_, frame_count_, frame_message_, sent>>
    BY DEF Grab
  <2>2. pc = "grab" /\ pc' = "check"
    BY <1>2 DEF Goto
  <2>3. /\ shot' \in Seq(RedPercents) /\ Len(shot') = Len(shot) + 1 /\ shot' # <<>>
        /\ shot'[Len(shot')] = red /\ \A f \in 1 .. Len(shot) : shot'[f] = shot[f]
    BY <1>2 DEF Types
  <2>4. Filmed' = Filmed /\ SentUpTo' = SentUpTo /\ SentUpTo <= Len(shot)
    BY <2>1, <2>2, <2>3, Numbers DEF Filmed, SentUpTo, Counts
  <2>5. is_emergency_' \in {"ok", "no"} /\ is_emergency_' = CheckVisionEmergency(red)
    BY <1>2 DEF CheckVisionEmergency
  <2>6. Types'
    BY <2>1, <2>2, <2>3, <2>5 DEF Types
  <2>7. Counts' /\ Held'
    BY <2>1, <2>2, <2>4 DEF Counts, Held, Closing, Starts
  <2>8. Segments' /\ Tiling'
    <3>1. \A f \in 1 .. SentUpTo : shot'[f] = shot[f]
      BY <2>3, <2>4, Numbers
    <3>. QED
      BY <2>1, <2>4, <3>1, SentKept
  <2>9. Rates' /\ Visions'
    BY <2>1, <2>2, <2>3, <2>5 DEF Rates, Visions, Starts, Reports
  <2>10. Opened' /\ Handed'
    BY <2>1, <2>2 DEF Opened, Handed
  <2>. QED
    BY <2>6, <2>7, <2>8, <2>9, <2>10
<1>. QED
  BY <1>1, <1>2 DEF Grab

\* ... when it is encoded ...
LEMMA EncodeFrameStep == ASSUME IInv, EncodeFrame PROVE IInv'
<1>. USE DEF IInv
<1>1. PICK w, x, f, n : /\ w = memory_video_writer_ /\ x = memory_video_writer_'
                         /\ f = Len(shot) /\ n = w.frame_count_
  OBVIOUS
<1>2. /\ pc = "encode" /\ UNCHANGED <<is_emergency_, frame_message_, shot, sent>>
      /\ \/ frame_count_' = frame_count_ + 1 /\ pc' = "grab"
         \/ UNCHANGED frame_count_ /\ pc' = "status"
  BY DEF EncodeFrame, Goto
<1>3. w \in Writer /\ IsFiniteSet(w.codec) /\ n \in Nat /\ w.avio_ctx_ = "open"
  BY <1>1, <1>2, CodecIsFinite, Numbers DEF Types, Opened
<1>4. f \in Nat /\ f > 0 /\ Filmed = f - 1 /\ Filmed' = f
  BY <1>1, <1>2 DEF Types, Filmed
<1>5. PICK new, out, lost : /\ new = FramePacket(w, f) /\ out \subseteq w.codec \cup {new}
                            /\ lost \subseteq out /\ x = WriteFrame(w, f, out, lost)
  BY <1>1 DEF EncodeFrame, Refusable
<1>. PICK next \in Nat : next = n + 1
  BY <1>3
<1>6. /\ x \in Writer /\ x.frame_count_ = next /\ x.fps_ = w.fps_ /\ x.avio_ctx_ = "open"
      /\ new = [pts |-> n, frame |-> f]
      /\ Window(x) = Window(w) \cup {new}
  <2>1. /\ w \in Writer /\ IsFiniteSet(w.codec) /\ w.avio_ctx_ = "open"
        /\ n \in Nat /\ n = w.frame_count_ /\ f \in Nat
    BY <1>1, <1>3, <1>4
  <2>2. /\ x \in Writer /\ x.frame_count_ = Counted(w) /\ x.fps_ = w.fps_
        /\ x.avio_ctx_ = "open"
        /\ Window(x) = Window(w) \cup {new}
    BY <1>5, <2>1, WriterEncodes
  <2>6. new = [pts |-> n, frame |-> f]
    BY <1>5, <2>1 DEF FramePacket
  <2>. QED
    BY <2>1, <2>2, <2>6 DEF Counted
<1>7. SentUpTo' = SentUpTo
  BY <1>1, <1>2, <1>3, <1>4, <1>6 DEF SentUpTo
<1>8. Types'
  BY <1>1, <1>2, <1>6 DEF Types, Closing
<1>9. Counts'
  BY <1>1, <1>2, <1>3, <1>4, <1>6 DEF Counts, Closing, Starts
<1>10. Held'
  <2>1. PICK first : first = f - 1 - n + 1
    OBVIOUS
  <2>2. first \in Int /\ first + n = f /\ f - (n + 1) + 1 = first
    BY <1>3, <1>4, <2>1
  <2>3. Window(w) = Run(first, n)
    BY <1>1, <1>4, <2>1 DEF Held
  <2>4. Window(x) = Run(first, n + 1)
    <3>1. Run(first, n + 1) = Run(first, n) \cup {[pts |-> n, frame |-> f]}
      BY <1>3, <2>2, RunGrows
    <3>. QED
      BY <1>6, <2>3, <3>1
  <2>. QED
    BY <1>1, <1>4, <1>6, <2>1, <2>2, <2>4 DEF Held
<1>11. Segments' /\ Tiling'
  BY <1>2, <1>7, SentKept
<1>12. Rates' /\ Visions'
  BY <1>1, <1>2, <1>6 DEF Rates, Visions, Starts, Reports
<1>13. Opened' /\ Handed'
  BY <1>1, <1>2, <1>6 DEF Opened, Handed
<1>. QED
  BY <1>8, <1>9, <1>10, <1>11, <1>12, <1>13

\* ... when the status and the vision are put in the message ...
LEMMA SetOtherStep == ASSUME IInv, SetOther PROVE IInv'
<1>. USE DEF IInv
<1>1. PICK status \in {"full", ""} :
        frame_message_' = [frame_message_ EXCEPT !.status = status, !.vision = is_emergency_]
  BY DEF SetOther
<1>2. /\ pc = "status" /\ pc' = "close"
      /\ UNCHANGED <<memory_video_writer_, frame_count_, is_emergency_, shot, sent>>
  BY DEF SetOther, Goto
<1>3. frame_message_' \in Message /\ frame_message_'.vision = is_emergency_
  BY <1>1 DEF Types, Message
<1>4. Types'
  BY <1>2, <1>3 DEF Types, Closing
<1>5. Filmed' = Filmed /\ SentUpTo' = SentUpTo
  BY <1>2 DEF Filmed, SentUpTo
<1>6. Counts' /\ Held'
  BY <1>2, <1>5 DEF Counts, Held, Closing, Starts
<1>7. Segments' /\ Tiling'
  BY <1>2, <1>5, SentKept
<1>8. Rates' /\ Visions'
  BY <1>2, <1>3 DEF Rates, Visions, Starts, Reports
<1>9. Opened' /\ Handed'
  BY <1>2 DEF Opened, Handed
<1>. QED
  BY <1>4, <1>6, <1>7, <1>8, <1>9

\* ... when the segment is closed ...
LEMMA CloseSegmentStep == ASSUME IInv, CloseSegment PROVE IInv'
<1>. USE DEF IInv
<1>1. PICK w, x : w = memory_video_writer_ /\ x = memory_video_writer_'
  OBVIOUS
<1>2. /\ pc = "close" /\ pc' = "write"
      /\ UNCHANGED <<frame_count_, is_emergency_, shot, sent>>
      /\ frame_message_' = [frame_message_ EXCEPT !.data = x.muxed]
  BY <1>1 DEF CloseSegment, Goto
<1>3. PICK lost : lost \subseteq w.codec /\ x = GetMemoryBuffer(w, lost)
  BY <1>1 DEF CloseSegment, Refusable
<1>4. w \in Writer /\ IsFiniteSet(w.codec) /\ w.avio_ctx_ = "open"
  BY <1>1, <1>2, CodecIsFinite DEF Types, Opened
<1>5. /\ x \in Writer /\ x.frame_count_ = w.frame_count_ /\ x.fps_ = w.fps_
      /\ Window(x) = Window(w) /\ x.muxed \subseteq Packet /\ x.codec = {}
  BY <1>3, <1>4, WriterCloses
<1>6. /\ frame_message_' \in Message /\ frame_message_'.vision = frame_message_.vision
      /\ frame_message_'.data = x.muxed
  BY <1>2, <1>5 DEF Types, Message
<1>7. Types'
  BY <1>1, <1>2, <1>5, <1>6 DEF Types, Closing
<1>8. Filmed' = Filmed /\ SentUpTo' = SentUpTo
  BY <1>1, <1>2, <1>5 DEF Filmed, SentUpTo
<1>9. Counts' /\ Held'
  BY <1>1, <1>2, <1>5, <1>8 DEF Counts, Held, Closing, Starts
<1>10. Segments' /\ Tiling'
  BY <1>2, <1>8, SentKept
<1>11. Rates' /\ Visions'
  BY <1>1, <1>2, <1>5, <1>6 DEF Rates, Visions, Starts, Reports
<1>12. Opened' /\ Handed'
  BY <1>1, <1>2, <1>5, <1>6 DEF Opened, Handed
<1>. QED
  BY <1>7, <1>9, <1>10, <1>11, <1>12

\* The union of one set more
LEMMA UnionGrows == \A A, B, f : A = B \cup {f} => UNION A = (UNION B) \cup f
  OBVIOUS

\* ... when it is sent ...
LEMMA WriteSegmentStep == ASSUME IInv, WriteSegment PROVE IInv'
<1>. USE DEF IInv
<1>1. CASE pc = "write" /\ UNCHANGED <<pc, filmVars>>
  BY <1>1, SceneKept DEF filmVars, sceneVars
<1>2. ASSUME pc = "write", pc' = "reset",
             sent' = Append(sent, [message |-> frame_message_,
                                   window |-> Window(memory_video_writer_),
                                   refused |-> memory_video_writer_.refused]),
             frame_message_' = Clear,
             UNCHANGED <<memory_video_writer_, frame_count_, is_emergency_, shot>>
      PROVE  IInv'
  <2>1. PICK w, m, first, n : /\ w = Window(memory_video_writer_)
                              /\ m = [message |-> frame_message_, window |-> w,
                                      refused |-> memory_video_writer_.refused]
                              /\ first = SentUpTo + 1 /\ n = memory_video_writer_.frame_count_
    OBVIOUS
  <2>2. /\ n \in Nat /\ n > 0 /\ first \in Nat /\ first > 0 /\ first + n - 1 = Len(shot)
        /\ SentUpTo \in Nat /\ SentUpTo' = Len(shot) /\ first <= Len(shot) /\ n <= Len(shot)
        /\ Filmed = Len(shot) /\ Filmed' = Len(shot) /\ Len(shot) \in Nat
    BY <1>2, <2>1, Numbers DEF Filmed, SentUpTo, Counts, Closing
  <2>3. w = Run(first, n)
    <3>1. Filmed - memory_video_writer_.frame_count_ + 1 = first
      BY <1>2, <2>1 DEF SentUpTo
    <3>. QED
      BY <2>1, <3>1 DEF Held
  <2>4. FramesOf(w) = first .. Len(shot)
    <3>1. first \in Int /\ n \in Nat
      BY <2>2
    <3>2. FramesOf(Run(first, n)) = first .. first + n - 1
      BY <3>1, RunFacts
    <3>. QED
      BY <2>2, <2>3, <3>2
  <2>5. Reports(frame_message_.vision, Len(shot))
    BY <1>2 DEF Visions
  <2>6. m.window = w /\ m.message = frame_message_ /\ m.refused = memory_video_writer_.refused
    BY <2>1
  <2>7. w \subseteq Packet /\ m \in [message : Message, window : SUBSET Packet, refused : SUBSET Packet]
    <3>1. w \subseteq Packet /\ memory_video_writer_.refused \subseteq Packet
      BY <2>1, WriterFields DEF Types, Window
    <3>. QED
      BY <2>1, <3>1 DEF Types
  <2>8. /\ sent \in Seq([message : Message, window : SUBSET Packet, refused : SUBSET Packet]) /\ Len(sent) \in Nat
        /\ sent' = Append(sent, m)
    BY <1>2, <2>1 DEF Types
  <2>9. /\ sent' \in Seq([message : Message, window : SUBSET Packet, refused : SUBSET Packet])
        /\ DOMAIN sent' = DOMAIN sent \cup {Len(sent) + 1} /\ sent' # <<>>
        /\ \A i \in DOMAIN sent : i \in 1 .. Len(sent) /\ sent'[i] = sent[i]
        /\ sent'[Len(sent) + 1] = m /\ Last(sent') = m
    BY <2>7, <2>8 DEF Last
  <2>10. Types'
    <3>1. Clear \in Message
      BY DEF Clear, Message
    <3>. QED
      BY <1>2, <2>9, <3>1 DEF Types, Closing
  <2>11. Counts' /\ Held'
    BY <1>2, <2>2 DEF Counts, Held, Closing, Starts
  <2>12. Segments'
    <3>1. ASSUME NEW i \in DOMAIN sent
          PROVE  \E a, b \in 1 .. Len(shot) :
                   /\ a + b - 1 <= Len(shot) /\ sent[i].window = Run(a, b)
                   /\ Reports(sent[i].message.vision, a + b - 1)
      <4>1. PICK a \in 1 .. SentUpTo, b \in 1 .. SentUpTo :
              /\ a + b - 1 <= SentUpTo /\ sent[i].window = Run(a, b)
              /\ Reports(sent[i].message.vision, a + b - 1)
        BY DEF Segments
      <4>2. SentUpTo <= Len(shot)
        BY <2>1, <2>2
      <4>3. a \in 1 .. Len(shot) /\ b \in 1 .. Len(shot) /\ a + b - 1 <= Len(shot)
        BY <2>2, <4>1, <4>2
      <4>. QED
        BY <4>1, <4>3
    <3>2. \E a, b \in 1 .. Len(shot) :
            /\ a + b - 1 <= Len(shot) /\ m.window = Run(a, b)
            /\ Reports(m.message.vision, a + b - 1)
      <4>1. first \in 1 .. Len(shot) /\ n \in 1 .. Len(shot) /\ first + n - 1 <= Len(shot)
        BY <2>2
      <4>2. Reports(m.message.vision, first + n - 1)
        BY <2>2, <2>5, <2>6
      <4>. QED
        BY <2>3, <2>6, <4>1, <4>2
    <3>3. \A i \in DOMAIN sent' : \E a, b \in 1 .. Len(shot) :
            /\ a + b - 1 <= Len(shot) /\ sent'[i].window = Run(a, b)
            /\ Reports(sent'[i].message.vision, a + b - 1)
      BY <2>9, <3>1, <3>2
    <3>. QED
      BY <1>2, <2>2, <3>3 DEF Segments, Reports
  <2>13. Tiling'
    <3>. DEFINE old == {FramesOf(sent[i].window) : i \in DOMAIN sent}
                all == {FramesOf(sent'[i].window) : i \in DOMAIN sent'}
    <3>1. all = old \cup {FramesOf(w)}
      <4>1. \A i \in DOMAIN sent : FramesOf(sent'[i].window) = FramesOf(sent[i].window)
        BY <2>9
      <4>2. FramesOf(sent'[Len(sent) + 1].window) = FramesOf(w)
        BY <2>6, <2>9
      <4>3. DOMAIN sent' = DOMAIN sent \cup {Len(sent) + 1}
        BY <2>9
      <4>4. \A i \in DOMAIN sent' : FramesOf(sent'[i].window) \in old \cup {FramesOf(w)}
        BY <4>1, <4>2, <4>3
      <4>5. \A i \in DOMAIN sent : FramesOf(sent[i].window) \in all
        BY <4>1, <4>3
      <4>6. FramesOf(w) \in all
        BY <4>2, <4>3
      <4>. QED
        BY <4>4, <4>5, <4>6
    <3>2. UNION old = 1 .. SentUpTo
      BY DEF Tiling
    <3>. HIDE DEF old, all
    <3>3. UNION all = (1 .. SentUpTo) \cup (first .. Len(shot))
      <4>1. UNION all = (UNION old) \cup FramesOf(w)
        BY <3>1, UnionGrows, Zenon
      <4>. QED
        BY <2>4, <3>2, <4>1
    <3>4. (1 .. SentUpTo) \cup (first .. Len(shot)) = 1 .. Len(shot)
      <4>1. \A a, l \in Nat : a + 1 <= l => (1 .. a) \cup (a + 1 .. l) = 1 .. l
        OBVIOUS
      <4>2. first = SentUpTo + 1
        BY <2>1
      <4>. QED
        BY <2>2, <4>1, <4>2
    <3>5. \A j \in DOMAIN sent : Before(sent[j].window, w)
      <4>1. \A k \in FramesOf(w) : k \in Nat /\ SentUpTo < k
        BY <2>1, <2>2, <2>4
      <4>2. \A j \in DOMAIN sent : FramesOf(sent[j].window) \subseteq 1 .. SentUpTo
        BY DEF Tiling
      <4>3. \A j \in DOMAIN sent : \A g \in FramesOf(sent[j].window), k \in FramesOf(w) : g < k
        <5>. TAKE j \in DOMAIN sent
        <5>. TAKE g \in FramesOf(sent[j].window), k \in FramesOf(w)
        <5>1. g \in 1 .. SentUpTo /\ k \in Nat /\ SentUpTo < k /\ SentUpTo \in Nat
          BY <2>2, <4>1, <4>2
        <5>. QED
          BY <5>1
      <4>. QED
        BY <4>3 DEF Before
    <3>6. ASSUME NEW i \in DOMAIN sent', NEW j \in 1 .. i - 1
          PROVE  Before(sent'[j].window, sent'[i].window)
      <4>1. j \in DOMAIN sent
        BY <2>8, <2>9
      <4>2. CASE i \in DOMAIN sent
        BY <2>9, <4>1, <4>2 DEF Tiling
      <4>3. CASE i = Len(sent) + 1
        BY <2>6, <2>9, <3>5, <4>1, <4>3
      <4>. QED
        BY <2>9, <4>2, <4>3
    <3>7. UNION all = 1 .. SentUpTo'
      BY <2>2, <3>3, <3>4
    <3>. QED
      BY <3>6, <3>7 DEF Tiling, all
  <2>14. Rates' /\ Visions'
    BY <1>2, <2>1, <2>6, <2>9 DEF Rates, Visions, Starts
  <2>15. Opened'
    BY <1>2 DEF Opened
  <2>16. Handed'
    <3>1. m.window = m.message.data \cup m.refused
      <4>1. /\ memory_video_writer_.codec = {}
            /\ frame_message_.data = memory_video_writer_.muxed
        BY <1>2 DEF Opened
      <4>. QED
        BY <2>1, <2>6, <4>1 DEF Window
    <3>. QED
      BY <2>9, <3>1 DEF Handed
  <2>. QED
    BY <2>10, <2>11, <2>12, <2>13, <2>14, <2>15, <2>16
<1>. QED
  BY <1>1, <1>2 DEF WriteSegment

\* ... and when the next window begins.
LEMMA ResetWriterStep == ASSUME IInv, ResetWriter PROVE IInv'
<1>. USE DEF IInv
<1>1. CASE pc = "reset" /\ Fail
  BY <1>1, SceneKept DEF Fail, filmVars, sceneVars
<1>2. ASSUME Goto("reset", "grab"), CanInitialize(Cleared(memory_video_writer_, Fps)),
             memory_video_writer_' = Initialize(Cleared(memory_video_writer_, Fps)),
             frame_count_' = 0 + 1,
             UNCHANGED <<is_emergency_, frame_message_, shot, sent>>
      PROVE  IInv'
  <2>1. PICK w, c, x, n, fps :
          /\ w = memory_video_writer_ /\ x = memory_video_writer_'
          /\ n = frame_count_ /\ fps = Fps /\ c = Cleared(w, fps)
    OBVIOUS
  <2>2. pc = "reset" /\ pc' = "grab"
    BY <1>2 DEF Goto
  <2>3. w \in Writer /\ n = w.frame_count_ /\ n \in Nat
    BY <2>1, <2>2, Numbers DEF Types, Counts, Closing
  <2>4. fps = n \div Duration /\ fps \in Nat
    BY <2>1, <2>3, VideoStreamerAssumption DEF Fps
  <2>5. c \in Writer /\ c.fps_ = fps /\ c.frame_count_ = 0
    BY <2>1, <2>3, <2>4, WriterClears
  <2>6. /\ x \in Writer /\ Window(x) = {} /\ x.fps_ = fps /\ x.frame_count_ = 0
        /\ x.avio_ctx_ = "open"
    BY <1>2, <2>1, <2>5, WriterOpens
  <2>7. fps > 0
    BY <1>2, <2>1, <2>5 DEF CanInitialize
  <2>8. Types'
    BY <1>2, <2>1, <2>2, <2>6 DEF Types
  <2>9. Filmed' = Filmed /\ SentUpTo' = SentUpTo
    BY <1>2, <2>1, <2>2, <2>6, Numbers DEF Filmed, SentUpTo, Types
  <2>10. Counts'
    BY <1>2, <2>1, <2>2, <2>6, <2>9, Numbers DEF Counts, Closing, Starts
  <2>11. Held'
    <3>1. Filmed' - 0 + 1 \in Int
      BY <2>9, Numbers
    <3>. QED
      BY <2>1, <2>6, <3>1, RunGrows DEF Held
  <2>12. Segments' /\ Tiling'
    BY <1>2, <2>9, SentKept
  <2>13. Cardinality(Last(sent).window) = n
    <3>1. PICK first : first = Filmed - n + 1
      OBVIOUS
    <3>2. first \in Int
      BY <2>3, <3>1, Numbers
    <3>3. Window(w) = Run(first, n)
      BY <2>1, <2>3, <3>1 DEF Held
    <3>. QED
      BY <2>1, <2>2, <2>3, <3>2, <3>3, RunFacts DEF Rates
  <2>14. Rates' /\ Visions'
    BY <1>2, <2>1, <2>2, <2>4, <2>6, <2>7, <2>13 DEF Rates, Visions, Starts
  <2>15. Opened' /\ Handed'
    BY <1>2, <2>1, <2>2, <2>6 DEF Opened, Handed
  <2>. QED
    BY <2>8, <2>10, <2>11, <2>12, <2>14, <2>15
<1>. QED
  BY <1>1, <1>2 DEF ResetWriter

\* So every step keeps IInv.
LEMMA NextIInv == IInv /\ [Next]_vars => IInv'
<1>. SUFFICES ASSUME IInv, [Next]_vars PROVE IInv'
  OBVIOUS
<1>1. CASE Construct
  <2>1. pc \in Starts /\ pc' \in Starts
    BY <1>1 DEF Construct, G!StartCall, G!InitFlag, GrpcMain, Starts, IInv, Types, Closing
  <2>. QED
    BY <1>1, <2>1, SceneKept DEF Construct, filmVars, sceneVars
<1>2. CASE Open
  BY <1>2, OpenStep
<1>3. CASE Grab
  BY <1>3, GrabStep
<1>4. CASE Check
  BY <1>4, SceneKept DEF Check, filmVars, sceneVars
<1>5. CASE EncodeFrame
  BY <1>5, EncodeFrameStep
<1>6. CASE SetOther
  BY <1>6, SetOtherStep
<1>7. CASE CloseSegment
  BY <1>7, CloseSegmentStep
<1>8. CASE WriteSegment
  BY <1>8, WriteSegmentStep
<1>9. CASE ResetWriter
  BY <1>9, ResetWriterStep
<1>10. CASE EncoderFails \/ GrpcSide \/ Ended \/ UNCHANGED vars
  BY <1>10, SceneKept DEF EncoderFails, Fail, GrpcSide, Ended, filmVars, sceneVars, vars
<1>. QED
  BY <1>1, <1>2, <1>3, <1>4, <1>5, <1>6, <1>7, <1>8, <1>9, <1>10 DEF Next

\* IInv holds in every state.
THEOREM Invariance == Spec => []IInv
  BY InitIInv, NextIInv, PTL DEF Spec

\* The window that is filmed, as a run
LEMMA OpenWindow ==
  ASSUME IInv
  PROVE  \E first, n \in Nat :
           /\ Window(memory_video_writer_) = Run(first, n)
           /\ first + n - 1 = Filmed /\ first > 0
           /\ pc # "reset" => first = SentUpTo + 1
<1>1. PICK n, first : /\ n = memory_video_writer_.frame_count_ /\ first = Filmed - n + 1
  OBVIOUS
<1>2. n \in Nat /\ first \in Nat /\ first > 0 /\ first + n - 1 = Filmed /\ Filmed \in Nat
  BY <1>1, Numbers DEF IInv, Counts
<1>3. Window(memory_video_writer_) = Run(first, n)
  BY <1>1 DEF IInv, Held
<1>4. pc # "reset" => first = SentUpTo + 1
  BY <1>1, <1>2 DEF SentUpTo
<1>. QED
  BY <1>2, <1>3, <1>4

\* The segments cut the stream of frames without a gap or an overlap, and the video
\* of each message holds all of its window that the muxer did not refuse, however many
\* frames are filmed, whichever packets the encoder holds back and the muxer refuses.
THEOREM FramesAreTiled == Spec => []SegmentsTile
<1>1. IInv => SegmentsTile
  <2>. SUFFICES ASSUME IInv PROVE SegmentsTile
    OBVIOUS
  <2>1. PICK first \in Nat, n \in Nat :
          /\ Window(memory_video_writer_) = Run(first, n)
          /\ first + n - 1 = Filmed /\ first > 0
          /\ pc # "reset" => first = SentUpTo + 1
    BY OpenWindow
  <2>2. FramesOf(Window(memory_video_writer_)) = first .. Filmed
    BY <2>1, RunFacts
  <2>3. Encoded = 1 .. Filmed
    BY DEF Encoded, Filmed
  <2>4. Filmed \in Nat /\ SentUpTo \in Nat
    BY Numbers DEF IInv
  <2>5. /\ UNION {FramesOf(sent[i].window) : i \in DOMAIN sent} = 1 .. SentUpTo
        /\ \A i \in DOMAIN sent : \A j \in 1 .. i - 1 : Before(sent[j].window, sent[i].window)
    BY DEF IInv, Tiling
  <2>6. (1 .. SentUpTo) \cup FramesOf(Unsent) = Encoded
    <3>1. CASE pc = "reset"
      BY <2>3, <2>4, <3>1 DEF Unsent, SentUpTo, FramesOf
    <3>2. CASE pc # "reset"
      <4>1. FramesOf(Unsent) = SentUpTo + 1 .. Filmed /\ SentUpTo <= Filmed
        BY <2>1, <2>2, <2>4, <3>2 DEF Unsent
      <4>. QED
        BY <2>3, <2>4, <4>1
    <3>. QED
      BY <3>1, <3>2
  <2>7. \A i \in DOMAIN sent : Before(sent[i].window, Unsent)
    <3>1. CASE pc = "reset"
      BY <3>1 DEF Before, Unsent, FramesOf
    <3>2. CASE pc # "reset"
      <4>1. \A g \in FramesOf(Unsent) : g \in Nat /\ SentUpTo < g
        BY <2>1, <2>2, <2>4, <3>2 DEF Unsent
      <4>2. \A i \in DOMAIN sent : FramesOf(sent[i].window) \subseteq 1 .. SentUpTo
        BY <2>5
      <4>. QED
        BY <2>4, <4>1, <4>2 DEF Before
    <3>. QED
      BY <3>1, <3>2
  <2>8. (UNION {FramesOf(sent[i].window) : i \in DOMAIN sent}) \cup FramesOf(Unsent) = Encoded
    <3>. DEFINE all == UNION {FramesOf(sent[i].window) : i \in DOMAIN sent}
    <3>1. all = 1 .. SentUpTo
      BY <2>5
    <3>. HIDE DEF all
    <3>2. all \cup FramesOf(Unsent) = Encoded
      BY <2>6, <3>1
    <3>. QED
      BY <3>2 DEF all
  <2>. QED
    BY <2>5, <2>7, <2>8 DEF SegmentsTile, IInv, Handed
<1>. QED
  BY Invariance, <1>1, PTL

\* The time stamps of a segment run from 0: no packet of an earlier window gets in.
THEOREM TimelinesAreWhole == Spec => []SegmentTimeline
<1>1. IInv => SegmentTimeline
  <2>. SUFFICES ASSUME IInv,
                       NEW P \in {sent[i].window : i \in DOMAIN sent} \cup {Window(memory_video_writer_)}
                PROVE  OneTimeline(P) /\ (P # {} => \E p \in P : p.pts = 0)
    BY DEF SegmentTimeline
  <2>1. \E first, n \in Nat : P = Run(first, n)
    <3>1. CASE P = Window(memory_video_writer_)
      BY <3>1, OpenWindow
    <3>2. ASSUME NEW i \in DOMAIN sent, P = sent[i].window
          PROVE  \E first, n \in Nat : P = Run(first, n)
      <4>1. PICK first \in 1 .. SentUpTo, n \in 1 .. SentUpTo : sent[i].window = Run(first, n)
        BY DEF IInv, Segments
      <4>2. first \in Nat /\ n \in Nat
        BY Numbers DEF IInv
      <4>. QED
        BY <3>2, <4>1, <4>2
    <3>. QED
      BY <3>1, <3>2
  <2>2. PICK first \in Nat, n \in Nat : P = Run(first, n)
    BY <2>1
  <2>3. P # {} => n > 0
    BY <2>2, RunGrows
  <2>4. OneTimeline(Run(first, n)) /\ (n > 0 => \E p \in Run(first, n) : p.pts = 0)
    BY RunFacts
  <2>. QED
    BY <2>2, <2>3, <2>4
<1>. QED
  BY Invariance, <1>1, PTL

\* The encoder is opened for the rate of the window before, and never for 0.
THEOREM RateIsOfPreviousWindow == Spec => []FpsOfPreviousWindow
<1>1. IInv => FpsOfPreviousWindow
  BY DEF IInv, Rates, FpsOfPreviousWindow, Starts
<1>. QED
  BY Invariance, <1>1, PTL

\* A segment carries the verdict on the last frame of its window, and that is right
\* where the declared ratio and the stored one agree.
THEOREM VisionIsOfLastFrame == Spec => []VisionOfLastFrame
<1>1. IInv => VisionOfLastFrame
  <2>. DEFINE red(i) == shot[LastFrame(sent[i].window)]
  <2>. SUFFICES ASSUME IInv, NEW i \in DOMAIN sent
                PROVE  /\ sent[i].message.vision = CheckVisionEmergency(red(i))
                       /\ red(i) > DeclaredRatio => sent[i].message.vision = "ok"
                       /\ red(i) = 0 => sent[i].message.vision = "no"
    BY DEF VisionOfLastFrame
  <2>1. PICK first \in 1 .. SentUpTo, n \in 1 .. SentUpTo :
          /\ first + n - 1 <= SentUpTo
          /\ sent[i].window = Run(first, n)
          /\ Reports(sent[i].message.vision, first + n - 1)
    BY DEF IInv, Segments
  <2>2. first \in Nat /\ n \in Nat /\ n > 0 /\ first > 0 /\ first + n - 1 <= SentUpTo
    BY <2>1, Numbers DEF IInv
  <2>3. FramesOf(sent[i].window) = first .. first + n - 1
    BY <2>1, <2>2, RunFacts
  <2>4. PICK F : F = first .. first + n - 1
    OBVIOUS
  <2>5. \A f \in F : (\A g \in F : g <= f) <=> f = first + n - 1
    BY <2>2, <2>4
  <2>6. first + n - 1 \in F
    BY <2>2, <2>4
  <2>7. (CHOOSE f \in F : \A g \in F : g <= f) = first + n - 1
    BY <2>5, <2>6
  <2>8. LastFrame(sent[i].window) = first + n - 1
    BY <2>3, <2>4, <2>7 DEF LastFrame
  <2>9. sent[i].message.vision = CheckVisionEmergency(red(i))
    BY <2>1, <2>8 DEF Reports
  <2>10. red(i) \in 0 .. 100
    <3>1. first + n - 1 \in 1 .. Len(shot)
      <4>1. /\ Len(shot) \in Nat /\ Filmed \in Nat /\ SentUpTo \in Nat
            /\ memory_video_writer_.frame_count_ \in Nat
        BY Numbers DEF IInv
      <4>2. SentUpTo <= Filmed
        BY <4>1 DEF SentUpTo
      <4>3. Filmed <= Len(shot)
        BY <4>1 DEF Filmed
      <4>4. first + n - 1 \in Nat /\ first + n - 1 > 0
        BY <2>2
      <4>5. first + n - 1 <= Len(shot)
        BY <2>1, <2>2, <4>1, <4>2, <4>3
      <4>. QED
        BY <4>1, <4>4, <4>5
    <3>2. shot \in Seq(RedPercents)
      BY DEF IInv, Types
    <3>3. shot[first + n - 1] \in RedPercents
      BY <3>1, <3>2
    <3>. QED
      BY <2>8, <3>3, VideoStreamerAssumption
  <2>11. PICK k \in 0 .. 100 : k = red(i)
    BY <2>10
  <2>12. /\ k > DeclaredRatio => CheckVisionEmergency(k) = "ok"
         /\ k = 0 => CheckVisionEmergency(k) = "no"
    BY DEF CheckVisionEmergency, DeclaredRatio, emergency_red_pixel_threshold_ratio_
  <2>. QED
    BY <2>9, <2>11, <2>12
<1>. QED
  BY Invariance, <1>1, PTL

=============================================================================
