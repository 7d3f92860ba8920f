----------------------------------- MODULE Hls -----------------------------------
(***************************************************************************)
(* The HLS files of one pi as the ones who read them may think of them: a  *)
(* playlist, output.m3u8, that moves along the numbered segments           *)
(* output<num>.ts.  CallBack, with its reactors and ffmpeg processes, is   *)
(* shown to implement it; ProgramServer serves these files.                *)
(***************************************************************************)
EXTENDS Integers, Sequences, SequencesExt

CONSTANTS
  Contents,   \* what a segment may hold
  Starting,   \* those of the first video of a stream
  ListSize    \* -hls_list_size

VARIABLES
  playlist,   \* entries of output.m3u8: number and content listed
  ts,         \* the segment files: number and content
  fresh       \* the segment that is written and not listed yet

hlsVars == <<playlist, ts, fresh>>

Init == playlist = <<>> /\ ts = {} /\ fresh = {}

Listed == {playlist[i].num : i \in DOMAIN playlist}

NextNum == IF playlist = <<>> THEN 0 ELSE Last(playlist).num + 1

\* A segment is written, under the next number, or under 0 by a stream that
\* starts. Segments that are not listed any more may be deleted.
Cut(c) ==
  /\ fresh = {}
  /\ UNCHANGED playlist
  /\ \E num \in {NextNum} \cup {n \in {0} : c \in Starting} :
       LET f == [num |-> num, content |-> c] IN
       /\ fresh' = {f}
       /\ \E gone \in SUBSET {g \in ts : g.num \notin Listed} :
            ts' = {g \in ts \ gone : g.num # num} \cup {f}

\* It is listed: at the end of the list, or in a new one.
Publish ==
  /\ \E f \in fresh :
       \/ /\ f.num = NextNum
          /\ playlist' = LET l == Append(playlist, f) IN
                         IF Len(l) > ListSize THEN Tail(l) ELSE l
       \/ f.num = 0 /\ f.content \in Starting /\ playlist' = <<f>>
  /\ fresh' = {}
  /\ UNCHANGED ts

\* Or never: ffmpeg ends before it has.
Forget == fresh' = {} /\ UNCHANGED <<playlist, ts>>

Next == (\E c \in Contents : Cut(c)) \/ Publish \/ Forget

Spec == Init /\ [][Next]_hlsVars

=============================================================================
