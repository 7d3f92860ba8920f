------------------------------ MODULE VideoStreamer ------------------------------
(***************************************************************************)
(* The client process: VideoStreamer::StreamVideo of                       *)
(* lib/client/ClientVideoStreamer.cc on the main thread, with the encoder  *)
(* of MemoryVideoWriter and, through the instance G, the connection of     *)
(* Grpc, whose GrpcThread and library steps interleave with it.            *)
(*                                                                         *)
(* Frames are numbered from 1.  A frame carries what the checks look at:   *)
(* its share of red pixels, in percent.  Time is the number of whole       *)
(* seconds since start_tick_count_, up to Duration.                        *)
(***************************************************************************)
EXTENDS MemoryVideoWriter, Integers, Sequences, SequencesExt

CONSTANTS
  MaxEvents,   \* bound of Grpc
  MaxFrames,   \* bound: non-blank frames the camera delivers
  Duration,    \* kDurationSeconds
  FirstFps,    \* first_fps
  RedPercents, \* shares of red pixels a frame may have
  MuxFaults    \* bound: packets av_write_frame may refuse

ASSUME VideoStreamerAssumption ==
  /\ MaxEvents \in Nat \ {0} /\ Duration \in Nat \ {0} /\ FirstFps \in Nat \ {0}
  /\ MaxFrames \in Nat /\ MuxFaults \in Nat
  /\ RedPercents \subseteq 0..100

VARIABLES
  proc, is_connected_, call, pending, cq_, got, late_writes,   \* of Grpc
  pc,                    \* the main thread's next statement
  memory_video_writer_,
  frame_count_,          \* VideoStreamer's own count of frames
  elapsed,               \* seconds since start_tick_count_
  is_emergency_,
  frame_message_,        \* the message being filled
  shot,                  \* history: red percentage of every frame grabbed
  sent                   \* history: the messages given to writer_->Write, each with
                         \* all packets of its window and those the muxer refused

grpcVars == <<proc, is_connected_, call, pending, cq_, got, late_writes>>
filmVars == <<memory_video_writer_, frame_count_, elapsed, is_emergency_,
              frame_message_, shot, sent>>
vars == <<grpcVars, pc, filmVars>>

\* Where the main thread stands as Grpc sees it.
GrpcMain ==
  CASE pc \in {"ctor_writer", "ctor_flag"}             -> pc
    [] pc \in {"open", "grab", "check", "reset"}       -> "loop"
    [] pc \in {"encode", "status", "close", "write"}   -> "frame"

G == INSTANCE Grpc WITH main <- GrpcMain

Clear == [status |-> "", vision |-> "", data |-> {}]

-----------------------------------------------------------------------------

Init ==
  /\ pc = "ctor_writer"
  /\ G!Init
  /\ memory_video_writer_ = Constructed(FirstFps)
  /\ frame_count_ = 1
  /\ elapsed = 0
  /\ is_emergency_ = "ok"
  /\ frame_message_ = Clear
  /\ shot = <<>>
  /\ sent = <<>>

\* The steps of the Grpc constructor
Construct ==
  \/ pc' = "ctor_flag" /\ G!StartCall /\ UNCHANGED filmVars
  \/ pc' = "open" /\ G!InitFlag /\ UNCHANGED filmVars

Fail == UNCHANGED <<pc, filmVars>> /\ G!MainFails

Goto(from, to) == proc = "running" /\ pc = from /\ pc' = to

\* VideoStreamer::Initialize and the statements before the loop. The camera or
\* the encoder may fail to open.
Open ==
  \/ /\ Goto("open", "grab")
     /\ CanInitialize(memory_video_writer_)
     /\ memory_video_writer_' = Initialize(memory_video_writer_)
     /\ elapsed' = 0
     /\ UNCHANGED <<grpcVars, frame_count_, is_emergency_, frame_message_, shot, sent>>
  \/ pc = "open" /\ Fail

\* emergency_red_pixel_threshold_ratio_ is an int: 0.1 is stored as 0.
emergency_red_pixel_threshold_ratio_ == 10 \div 100

\* CheckVisionEmergency: "ok" reports a fire
AtThreshold(red) ==   \* mutant: >=
  IF red >= 100 * emergency_red_pixel_threshold_ratio_ THEN "ok" ELSE "no"

CheckVisionEmergency(red) ==
  IF red > 100 * emergency_red_pixel_threshold_ratio_ THEN "ok" ELSE "no"

\* cap.read(frame) some seconds later; a frame that is not blank is inspected.
Grab ==
  /\ \E seconds \in 0..Duration :
       elapsed' = IF elapsed + seconds < Duration THEN elapsed + seconds ELSE Duration
  /\ \/ Goto("grab", "grab") /\ UNCHANGED <<is_emergency_, shot>>
     \/ /\ Goto("grab", "check")
        /\ Len(shot) < MaxFrames
        /\ \E red \in RedPercents :
             /\ is_emergency_' = CheckVisionEmergency(red)
             /\ shot' = Append(shot, red)
  /\ UNCHANGED <<grpcVars, memory_video_writer_, frame_count_, frame_message_, sent>>

\* mutant: the connection is not checked
EncodeAnyway ==
  Goto("check", "encode") /\ UNCHANGED <<grpcVars, filmVars>>

\* if (grpc_.GetIsConnected()) ... else exit(1)
Check ==
  /\ pc = "check" /\ pc' = (IF is_connected_ THEN "encode" ELSE "check")
  /\ G!GetIsConnected
  /\ UNCHANGED filmVars

Refusable(packets) ==
  {lost \in SUBSET packets :
     Cardinality(lost) <= MuxFaults - Cardinality(memory_video_writer_.refused)}

\* WriteFrame(frame), then the test at the head of EncodeToMemory.
EncodeFrame ==
  LET w == memory_video_writer_
      f == Len(shot)
  IN /\ pc = "encode"
     /\ \E out \in SUBSET (w.codec \cup {FramePacket(w, f)}) :
        \E lost \in Refusable(out) :
          memory_video_writer_' = WriteFrame(w, f, out, lost)
     /\ \/ /\ elapsed < Duration
           /\ frame_count_' = frame_count_ + 1
           /\ pc' = "grab" /\ G!KeepFilming
        \/ /\ elapsed >= Duration
           /\ Goto("encode", "status")
           /\ UNCHANGED <<grpcVars, frame_count_>>
     /\ UNCHANGED <<elapsed, is_emergency_, frame_message_, shot, sent>>

\* SetOther(CheckPiStatus(), is_emergency_): the status is empty when one of the
\* commands threw.
SetOther ==
  /\ Goto("status", "close")
  /\ \E status \in {"full", ""} :
       frame_message_' = [frame_message_ EXCEPT !.status = status,
                                                !.vision = is_emergency_]
  /\ UNCHANGED <<grpcVars, memory_video_writer_, frame_count_, elapsed,
                 is_emergency_, shot, sent>>

\* GetMemoryBuffer, SetVideoFromMemory
CloseSegment ==
  /\ Goto("close", "write")
  /\ \E lost \in Refusable(memory_video_writer_.codec) :
       memory_video_writer_' = GetMemoryBuffer(memory_video_writer_, lost)
  /\ frame_message_' = [frame_message_ EXCEPT !.data = memory_video_writer_'.muxed]
  /\ UNCHANGED <<grpcVars, frame_count_, elapsed, is_emergency_, shot, sent>>

\* grpc_.Write(): hands the message over and clears it, or the library asserts.
WriteSegment ==
  \/ /\ pc = "write" /\ pc' = "reset" /\ G!Write
     /\ sent' = Append(sent, [message |-> frame_message_,
                              window  |-> Window(memory_video_writer_),
                              refused |-> memory_video_writer_.refused])
     /\ frame_message_' = Clear
     /\ UNCHANGED <<memory_video_writer_, frame_count_, elapsed, is_emergency_, shot>>
  \/ pc = "write" /\ UNCHANGED <<pc, filmVars>> /\ G!WriteWhileBusy

FpsRoundedUp == (frame_count_ + Duration - 1) \div Duration   \* mutant
Fps == frame_count_ \div Duration

\* Reset(frame_count_ / kDurationSeconds, buffer), the restart of the clock and
\* the frame_count_++ of the loop. The new encoder may fail to open.
ResetWriter ==
  LET w == Cleared(memory_video_writer_, Fps)
  IN \/ /\ Goto("reset", "grab")
        /\ CanInitialize(w)
        /\ memory_video_writer_' = Initialize(w)
        /\ elapsed' = 0
        /\ frame_count_' = 0 + 1
        /\ UNCHANGED <<grpcVars, is_emergency_, frame_message_, shot, sent>>
     \/ pc = "reset" /\ Fail

\* exit(1) in EncodeVideoFrame or GetMemoryBuffer
EncoderFails == pc \in {"encode", "close"} /\ Fail

GrpcSide ==
  /\ UNCHANGED <<pc, filmVars>>
  /\ G!NextEvent \/ G!HandleEvent \/ G!Complete \/ G!CallDies

Ended == UNCHANGED <<pc, filmVars>> /\ G!Ended

Next ==
  \/ Construct \/ Open \/ Grab \/ Check \/ EncodeFrame \/ SetOther
  \/ CloseSegment \/ WriteSegment \/ ResetWriter \/ EncoderFails
  \/ GrpcSide \/ Ended

Spec == Init /\ [][Next]_vars

-----------------------------------------------------------------------------
(***************************************************************************)
(* Properties                                                              *)
(***************************************************************************)

\* The client uses its Grpc object as the specification of Grpc says.
GrpcSpec == G!Spec

\* Frames that went through WriteFrame
Encoded == 1 .. (IF pc \in {"check", "encode"} THEN Len(shot) - 1 ELSE Len(shot))

\* Packets of the window that is not sent yet
Unsent == IF pc = "reset" THEN {} ELSE Window(memory_video_writer_)

Before(P, Q) == \A f \in FramesOf(P), g \in FramesOf(Q) : f < g

\* The segments cut the stream of frames without a gap or an overlap: a frame
\* grabbed while the client is connected is in exactly one window, windows are
\* sent in the order they were filmed, and the video of the message handed to
\* writer_->Write holds every packet of its window that av_write_frame took:
\* none stays in the encoder or goes to a buffer that is closed.
SegmentsTile ==
  /\ \A i \in DOMAIN sent : sent[i].window = sent[i].message.data \cup sent[i].refused
  /\ (UNION {FramesOf(sent[i].window) : i \in DOMAIN sent}) \cup FramesOf(Unsent) = Encoded
  /\ \A i \in DOMAIN sent :
       /\ Before(sent[i].window, Unsent)
       /\ \A j \in 1 .. i - 1 : Before(sent[j].window, sent[i].window)

OneTimeline(packets) ==
  \A p, q \in packets : p.frame - q.frame = p.pts - q.pts

\* Within a segment the time stamps run from 0 in the order of filming; no frame
\* of an earlier window, held back by the encoder, gets into a later segment.
SegmentTimeline ==
  \A P \in {sent[i].window : i \in DOMAIN sent} \cup {Window(memory_video_writer_)} :
    /\ OneTimeline(P)
    /\ P # {} => \E p \in P : p.pts = 0

\* A segment is encoded at the frame rate of the window before it: frames per
\* kDurationSeconds, never 0 (an encoder for 0 cannot be opened).
FpsOfPreviousWindow ==
  /\ pc \notin {"ctor_writer", "ctor_flag", "open"} => memory_video_writer_.fps_ > 0
  /\ sent # <<>> /\ pc # "reset" =>
       memory_video_writer_.fps_ = Cardinality(Last(sent).window) \div Duration

LastFrame(packets) == CHOOSE f \in FramesOf(packets) : \A g \in FramesOf(packets) : g <= f

\* The ratio of the declaration, 0.1, in percent
DeclaredRatio == 10

\* The vision field of a segment is the verdict on the last frame of its window,
\* never on an earlier one or on one of another window. A fire by the declared
\* ratio is reported, and none is where no pixel is red; in between the stored
\* ratio 0 reports what the declared one would not.
VisionOfLastFrame ==
  \A i \in DOMAIN sent :
    LET red    == shot[LastFrame(sent[i].window)]
        vision == sent[i].message.vision
    IN /\ vision = CheckVisionEmergency(red)
       /\ red > DeclaredRatio => vision = "ok"
       /\ red = 0 => vision = "no"

-----------------------------------------------------------------------------
(***************************************************************************)
(* What comments and names in the source say, and the code does not do     *)
(***************************************************************************)

\* "film for the given time, then send" (ClientVideoStreamer.cc:97): a closed
\* segment is handed to gRPC. If the write before it is still outstanding the
\* library aborts the client.
FilmedSegmentIsHandedOver == proc # "aborted"

=============================================================================
