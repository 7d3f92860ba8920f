---------------------------- MODULE MemoryVideoWriter ----------------------------
(***************************************************************************)
(* Class MemoryVideoWriter of lib/client/MemoryVideoWriter.cc: it encodes  *)
(* frames and muxes them into an mp4 held in memory, one mp4 per window of *)
(* filming.  The object is a record and its methods are operators on it;   *)
(* VideoStreamer holds the object and calls them.                          *)
(*                                                                         *)
(* A frame is its number since the start of the program.  libavcodec and   *)
(* libavformat are external: the encoder keeps frames back and hands out   *)
(* packets when it likes, all of them when it is flushed; av_write_frame   *)
(* may refuse a packet, and the code does not look at its result.          *)
(***************************************************************************)
EXTENDS Naturals, FiniteSets

(***************************************************************************)
(* A packet is [pts, frame].  Of the members, codec stands for what was    *)
(* sent to codec_ctx_ and not received, muxed for the packets of           *)
(* format_ctx_, refused for those av_write_frame did not take.             *)
(***************************************************************************)

\* Initialize(): a new dynamic buffer, format and codec context for fps_.
KeepFormatContext(w) == [w EXCEPT !.codec = {}, !.avio_ctx_ = "open"]   \* mutant

Initialize(w) ==
  [w EXCEPT !.codec = {}, !.muxed = {}, !.refused = {}, !.avio_ctx_ = "open"]

\* avcodec_open2 rejects the time base av_inv_q({0, 1}); Initialize exits.
CanInitialize(w) == w.fps_ > 0

\* MemoryVideoWriter(width, height, fps), before its call of Initialize
Constructed(fps) ==
  [fps_ |-> fps, frame_count_ |-> 0, encoded_frame_count_ |-> 0,
   codec |-> {}, muxed |-> {}, refused |-> {},
   avio_ctx_ |-> "closed", buffer_ |-> "null"]

\* Reset(fps, buffer), before its call of Initialize; buffer_ is not nulled.
KeepFrameCount(w, fps) ==   \* mutant
  [w EXCEPT !.buffer_ = "dangling", !.fps_ = fps, !.encoded_frame_count_ = 0]

Cleared(w, fps) ==
  [w EXCEPT !.buffer_ = "dangling", !.fps_ = fps,
            !.frame_count_ = 0, !.encoded_frame_count_ = 0]

\* EncodeVideoFrame: sends a frame (or, with {}, the flush), receives the
\* packets `out` and muxes them, except those in `lost`. A packet muxed into a
\* buffer that avio_close_dyn_buf has closed is in no segment.
EncodeVideoFrame(w, sent, out, lost) ==
  [w EXCEPT !.codec   = (@ \cup sent) \ out,
            !.muxed   = IF w.avio_ctx_ = "open" THEN @ \cup (out \ lost) ELSE @,
            !.refused = @ \cup lost,
            !.encoded_frame_count_ = @ + Cardinality(out)]

\* The frame WriteFrame sends: its pts is its number in the window.
FramePacket(w, frame) == [pts |-> w.frame_count_, frame |-> frame]

WriteFrame(w, frame, out, lost) ==
  [EncodeVideoFrame(w, {FramePacket(w, frame)}, out, lost)
     EXCEPT !.frame_count_ = @ + 1]

\* mutant: the encoder is not flushed
NotFlushed(w, lost) == [w EXCEPT !.avio_ctx_ = "closed", !.buffer_ = "live"]

\* GetMemoryBuffer: flush, trailer, avio_close_dyn_buf.
GetMemoryBuffer(w, lost) ==
  [EncodeVideoFrame(w, {}, w.codec, lost)
     EXCEPT !.avio_ctx_ = "closed", !.buffer_ = "live"]

-----------------------------------------------------------------------------

\* Every packet that entered the encoder since the last Initialize.
Window(w) == w.codec \cup w.muxed \cup w.refused

FramesOf(packets) == {p.frame : p \in packets}

=============================================================================
