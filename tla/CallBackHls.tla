------------------------------- MODULE CallBackHls -------------------------------
(***************************************************************************)
(* The reactors of CallBack, with their ffmpeg processes, implement the    *)
(* HLS files of Hls: for a pi, the mapping is its playlist and its         *)
(* segments, and what its process has cut and not listed.                  *)
(***************************************************************************)
EXTENDS CallBack

CONSTANT Pi   \* the pi whose files are looked at, any of Names

ASSUME PiAssumption == Pi \in Names

\* The segment a process of the pi has cut and will list
Fresh ==
  {Last(p.list) : p \in {q \in UNION {ffmpeg[s] : s \in {s \in Streams : NameOf[s] = Pi}} :
                           q.step = "publish"}}

H == INSTANCE Hls WITH
  Contents <- Part, Starting <- {c \in Part : c.video.seq = 1},
  playlist <- playlist[Pi], ts <- ts[Pi], fresh <- Fresh

\* What the streams of a pi do to its files is what Hls says: a playlist is only
\* extended at its end and shortened at its front, or started anew by the first
\* video of a stream; a segment is whole before it is listed; only segments that
\* are not listed are deleted.
ImplementsHls == H!Spec

=============================================================================
