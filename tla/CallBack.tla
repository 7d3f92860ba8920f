--------------------------------- MODULE CallBack ---------------------------------
(***************************************************************************)
(* The server's end of the streams: class VideoStreamingImpl::CallBack of  *)
(* lib/server/ServerVideoStreamer.cc, one reactor per streamVideo call,    *)
(* with the functions of lib/server/directoryAPI.cc it calls and the files *)
(* it leaves under video/<pi name>/.                                       *)
(*                                                                         *)
(* The callbacks of one reactor come one after the other; those of         *)
(* different reactors run on different threads and share the disk, so a    *)
(* handler is cut into the steps that touch it.  Each video that is saved  *)
(* is given to an ffmpeg process (external) by system(), which waits for   *)
(* it; ffmpeg outlives the server should that die meanwhile.               *)
(***************************************************************************)
EXTENDS Integers, Sequences, SequencesExt

CONSTANTS
  Streams,      \* calls of streamVideo, one reactor each
  Names,        \* pi names
  NameOf,       \* the name the client of a stream was started with
  MaxFrames,    \* bound: messages a client sends on a stream
  MaxParts,     \* bound: HLS segments ffmpeg cuts one mp4 into
  ListSize,     \* -hls_list_size
  Exclusive     \* TRUE: a pi has one stream at a time (see StreamVideo)

ASSUME CallBackAssumption ==
  /\ NameOf \in [Streams -> Names]
  /\ MaxFrames \in Nat /\ MaxParts \in Nat \ {0} /\ ListSize \in Nat \ {0}
  /\ Exclusive \in BOOLEAN

VARIABLES
  alive,         \* the server process
  reactor,       \* what the reactor of each stream is doing
  index_name_,
  sent,          \* number of messages the client of a stream has sent
  inbox,         \* those of them the reactor has not read
  frame_,        \* number of the message in frame_, 0 if that is cleared
  ended,         \* the client has closed or lost the call
  dirs,          \* names whose directory exists
  mp4,           \* per name, the files <index>.mp4
  playlist,      \* per name, the entries of output.m3u8
  ts,            \* per name, the files output<num>.ts
  ffmpeg         \* per stream, the ffmpeg process it has started

clientVars == <<sent, ended>>
diskVars   == <<dirs, mp4, playlist, ts>>
vars       == <<alive, reactor, index_name_, clientVars, inbox, frame_, diskVars, ffmpeg>>

\* proto3 releases an empty field as nullptr: one of the texts (name, status and
\* vision), or the video.
Message == [seq : 1 .. MaxFrames, null : {"none", "text", "data"}]

\* The video of a message, and one HLS segment of it. A file is written once all
\* has been handed to it and it is closed; before, it is empty or in part there.
Video   == [stream : Streams, seq : 1 .. MaxFrames, written : BOOLEAN]
Part    == [video : Video, part : 1 .. MaxParts]
Mp4     == [num : Nat, content : Video]
Segment == [num : Nat, content : Part]

\* kDirectoryPath + *pi_name
PathWithoutName(s) == CHOOSE n \in Names : TRUE   \* mutant
Dir(s) == NameOf[s]

\* unsigned int index_name_ = 1
FirstIndexZero == 0   \* mutant
FirstIndex == 1

\* Where the handler goes on when a video could not be saved: the index counts it.
SkipIndex == "reading"   \* mutant: the failing branches start the next read
Failed == "next"

\* Write file number k of a directory, replacing the one of that number.
Put(files, k, c) == {f \in files : f.num # k} \cup {[num |-> k, content |-> c]}

ReactorStates == {"none", "reading", "saving", "emptying", "writing", "publishing",
                  "next", "finishing", "deleted", "lost"}
Over == {"deleted", "lost"}

\* An ffmpeg process: what it does next, the part of its input to cut next, the
\* playlist in its memory and the entries it has dropped from that.
Process ==
  [step : {"open", "cut", "publish"}, part : 1 .. MaxParts,
   list : Seq(Segment), old : Seq(Segment)]

\* At most one per stream: system() waits for it.
Started == [step |-> "open", part |-> 1, list |-> <<>>, old |-> <<>>]

Init ==
  /\ alive = TRUE
  /\ reactor = [s \in Streams |-> "none"]
  /\ index_name_ = [s \in Streams |-> FirstIndex]
  /\ sent = [s \in Streams |-> 0]
  /\ inbox = [s \in Streams |-> <<>>]
  /\ frame_ = [s \in Streams |-> 0]
  /\ ended = [s \in Streams |-> FALSE]
  /\ dirs = {}
  /\ mp4 = [n \in Names |-> {}]
  /\ playlist = [n \in Names |-> <<>>]
  /\ ts = [n \in Names |-> {}]
  /\ ffmpeg = [s \in Streams |-> {}]

-----------------------------------------------------------------------------
(***************************************************************************)
(* The clients                                                             *)
(***************************************************************************)

\* A pi opens a stream: a new reactor starts to read. If Exclusive, the pi is
\* down until the server has done with its previous stream.
StreamVideo(s) ==
  /\ alive /\ reactor[s] = "none"
  /\ Exclusive => \A t \in Streams \ {s} :
       NameOf[t] = NameOf[s] => reactor[t] \in {"none"} \cup Over /\ ffmpeg[t] = {}
  /\ reactor' = [reactor EXCEPT ![s] = "reading"]
  /\ UNCHANGED <<alive, index_name_, clientVars, inbox, frame_, diskVars, ffmpeg>>

Send(s) ==
  /\ alive /\ reactor[s] \notin {"none", "finishing"} \cup Over
  /\ ~ended[s] /\ sent[s] < MaxFrames
  /\ sent' = [sent EXCEPT ![s] = @ + 1]
  /\ \E null \in {"none", "text", "data"} :
       inbox' = [inbox EXCEPT ![s] = Append(@, [seq |-> sent'[s], null |-> null])]
  /\ UNCHANGED <<alive, reactor, index_name_, ended, frame_, diskVars, ffmpeg>>

\* The client exits or the network loses it.
EndStream(s) ==
  /\ alive /\ reactor[s] \notin {"none"} \cup Over
  /\ ~ended[s]
  /\ ended' = [ended EXCEPT ![s] = TRUE]
  /\ UNCHANGED <<alive, reactor, index_name_, sent, inbox, frame_, diskVars, ffmpeg>>

-----------------------------------------------------------------------------
(***************************************************************************)
(* The reactor                                                             *)
(***************************************************************************)

Goto(s, from, to) ==
  alive /\ reactor[s] = from /\ reactor' = [reactor EXCEPT ![s] = to]

\* The server process is gone, and with it every reactor. Its streams are not
\* taken up again: the clients exit, what they had sent is lost.
Crash ==
  /\ alive' = FALSE
  /\ reactor' = [s \in Streams |-> IF reactor[s] = "none" THEN "none" ELSE "lost"]
  /\ inbox' = [s \in Streams |-> <<>>]
  /\ frame_' = [s \in Streams |-> 0]
  /\ UNCHANGED <<index_name_, clientVars, diskVars, ffmpeg>>

\* OnReadDone(true): name, status and vision are released and printed, a null
\* pointer among them is dereferenced. Then CreateDirectoryIfNotExists.
OnReadDone(s) ==
  /\ alive /\ reactor[s] = "reading" /\ inbox[s] # <<>>
  /\ Head(inbox[s]).null # "text"
  /\ inbox' = [inbox EXCEPT ![s] = Tail(@)]
  /\ frame_' = [frame_ EXCEPT ![s] = Head(inbox[s]).seq]
  /\ \/ /\ Goto(s, "reading", IF Head(inbox[s]).null = "data" THEN "emptying" ELSE "saving")
        /\ dirs' = dirs \cup {Dir(s)}
     \/ Goto(s, "reading", Failed) /\ Dir(s) \notin dirs /\ UNCHANGED dirs
  /\ UNCHANGED <<alive, index_name_, clientVars, mp4, playlist, ts, ffmpeg>>

OnReadNull(s) ==
  /\ alive /\ reactor[s] = "reading" /\ inbox[s] # <<>>
  /\ Head(inbox[s]).null = "text"
  /\ Crash

Save(s, written) ==
  mp4' = [mp4 EXCEPT ![Dir(s)] =
    Put(@, index_name_[s], [stream |-> s, seq |-> frame_[s], written |-> written])]

\* WriteMsgToFile, the std::ofstream: the file is truncated, and left so if there
\* is no content, or it cannot be opened.
OpenFile(s) ==
  /\ \/ Goto(s, "saving", "writing") /\ Save(s, FALSE)
     \/ Goto(s, "emptying", Failed) /\ Save(s, FALSE)
     \/ (Goto(s, "saving", Failed) \/ Goto(s, "emptying", Failed)) /\ UNCHANGED mp4
  /\ UNCHANGED <<alive, index_name_, clientVars, inbox, frame_, dirs, playlist, ts, ffmpeg>>

\* ... the content and the close, then UpdateM3u8. The state of the file is not
\* looked at: a full disk has kept the beginning of the content only. `delete
\* content` comes after the returns.
WriteMsgToFile(s) ==
  /\ Goto(s, "writing", "publishing")
  /\ Save(s, TRUE)
  /\ ffmpeg' = [ffmpeg EXCEPT ![s] = {Started}]
  /\ UNCHANGED <<alive, index_name_, clientVars, inbox, frame_, dirs, playlist, ts>>

\* index_name_++, frame_.Clear(), StartRead
NextRead(s) ==
  /\ Goto(s, "next", "reading")
  /\ index_name_' = [index_name_ EXCEPT ![s] = @ + 1]
  /\ frame_' = [frame_ EXCEPT ![s] = 0]
  /\ UNCHANGED <<alive, clientVars, inbox, diskVars, ffmpeg>>

\* OnReadDone(false): "reboot", Finish. Messages of a broken call may be lost.
OnReadFailed(s) ==
  /\ ended[s]
  /\ Goto(s, "reading", "finishing")
  /\ inbox' = [inbox EXCEPT ![s] = <<>>]
  /\ UNCHANGED <<alive, index_name_, clientVars, frame_, diskVars, ffmpeg>>

NoOnDone(s) == reactor[s] = "deleted" /\ UNCHANGED vars   \* mutant: no Finish

OnDone(s) ==
  /\ Goto(s, "finishing", "deleted")
  /\ UNCHANGED <<alive, index_name_, clientVars, inbox, frame_, diskVars, ffmpeg>>

\* ServerDies for any other reason: stopped by hand, out of memory, reboot.
ServerDies == alive /\ Crash

Restart ==
  /\ ~alive
  /\ alive' = TRUE
  /\ UNCHANGED <<reactor, index_name_, clientVars, inbox, frame_, diskVars, ffmpeg>>

-----------------------------------------------------------------------------
(***************************************************************************)
(* ffmpeg, as UpdateM3u8 runs it (external)                                *)
(***************************************************************************)

\* -hls_flags: append_list for every index but 1
never_append(index) == index = 0   \* mutant: the first command for every index
append_list(index) == index # 1

delete_at_once == 0   \* mutant
hls_delete_threshold == 1

\* The process of stream s ends, and system() with it. Its result is printed.
Exit(s) ==
  /\ ffmpeg' = [ffmpeg EXCEPT ![s] = {}]
  /\ reactor' = [reactor EXCEPT ![s] = IF @ = "publishing" THEN "next" ELSE @]

\* -i <index_name>.mp4
PreviousIndex(s) == index_name_[s] - 1   \* mutant
InputIndex(s) == index_name_[s]

\* What it finds in its input file, whenever it looks
Read(s) == {f.content : f \in {g \in mp4[Dir(s)] : g.num = InputIndex(s)}}

\* It opens its input and reads the playlist it has to continue.
FfmpegOpen(s) ==
  /\ Read(s) # {}
  /\ \E p \in ffmpeg[s] :
       /\ p.step = "open"
       /\ ffmpeg' = [ffmpeg EXCEPT ![s] =
            {[p EXCEPT !.step = "cut", !.list = IF append_list(index_name_[s])
                                                THEN playlist[Dir(s)] ELSE <<>>]}]
  /\ UNCHANGED <<alive, reactor, index_name_, clientVars, inbox, frame_, diskVars>>

NextNum(list) == IF list = <<>> THEN 0 ELSE Last(list).num + 1

\* The oldest entry is dropped from a list that has grown too long.
NoTrim(list)  == list   \* mutant: without -hls_list_size
Trim(list)    == IF Len(list) > ListSize THEN Tail(list) ELSE list
Dropped(list) == IF Len(list) > ListSize THEN <<Head(list)>> ELSE <<>>

\* A segment is cut into its own file and entered in the list. Files of entries
\* this process has dropped are deleted, all but the newest of them.
FfmpegCut(s) ==
  \E p \in ffmpeg[s], v \in Read(s) :
    LET entry == [num |-> NextNum(p.list), content |-> [video |-> v, part |-> p.part]]
        list  == Append(p.list, entry)
        old   == p.old \o Dropped(list)
        keep  == IF Len(old) > hls_delete_threshold THEN Len(old) - hls_delete_threshold ELSE 0
        gone  == {old[i].num : i \in 1 .. keep}
    IN /\ p.step = "cut"
       /\ ts' = [ts EXCEPT ![Dir(s)] =
            {f \in Put(@, entry.num, entry.content) : f.num \notin gone}]
       /\ ffmpeg' = [ffmpeg EXCEPT ![s] =
            {[p EXCEPT !.step = "publish", !.list = Trim(list),
                       !.old = SubSeq(old, keep + 1, Len(old))]}]
       /\ UNCHANGED <<alive, reactor, index_name_, clientVars, inbox, frame_,
                      dirs, mp4, playlist>>

\* The list becomes output.m3u8; another part of the video follows, or the end.
FfmpegPublish(s) ==
  \E p \in ffmpeg[s] :
    /\ p.step = "publish"
    /\ playlist' = [playlist EXCEPT ![Dir(s)] = p.list]
    /\ \/ /\ p.part < MaxParts
          /\ ffmpeg' = [ffmpeg EXCEPT ![s] =
               {[p EXCEPT !.step = "cut", !.part = @ + 1]}]
          /\ UNCHANGED reactor
       \/ Exit(s)
    /\ UNCHANGED <<alive, index_name_, clientVars, inbox, frame_, dirs, mp4, ts>>

\* It gives up: a damaged input, no disk space, killed.
FfmpegFails(s) ==
  /\ ffmpeg[s] # {}
  /\ Exit(s)
  /\ UNCHANGED <<alive, index_name_, clientVars, inbox, frame_, diskVars>>

Ffmpeg(s) == FfmpegOpen(s) \/ FfmpegCut(s) \/ FfmpegPublish(s) \/ FfmpegFails(s)

-----------------------------------------------------------------------------

Reactor(s) ==
  \/ OnReadDone(s) \/ OnReadNull(s) \/ OpenFile(s) \/ WriteMsgToFile(s)
  \/ NextRead(s) \/ OnReadFailed(s) \/ OnDone(s)

Next ==
  \/ \E s \in Streams :
       StreamVideo(s) \/ Send(s) \/ EndStream(s) \/ Reactor(s) \/ Ffmpeg(s)
  \/ ServerDies \/ Restart

Spec == Init /\ [][Next]_vars

\* gRPC runs the callbacks that are due, ffmpeg ends.
Fairness == \A s \in Streams : WF_vars(Reactor(s)) /\ WF_vars(Ffmpeg(s))

FairSpec == Spec /\ Fairness

-----------------------------------------------------------------------------
(***************************************************************************)
(* Properties                                                              *)
(***************************************************************************)

\* Types: files and playlists hold videos and parts of videos, an index is never 0.
TypeOK ==
  /\ alive \in BOOLEAN
  /\ reactor \in [Streams -> ReactorStates]
  /\ index_name_ \in [Streams -> Nat \ {0}]
  /\ sent \in [Streams -> 0 .. MaxFrames]
  /\ inbox \in [Streams -> Seq(Message)]
  /\ frame_ \in [Streams -> 0 .. MaxFrames]
  /\ ended \in [Streams -> BOOLEAN]
  /\ dirs \in SUBSET Names
  /\ mp4 \in [Names -> SUBSET Mp4]
  /\ playlist \in [Names -> Seq(Segment)]
  /\ ts \in [Names -> SUBSET Segment]
  /\ ffmpeg \in [Streams -> SUBSET Process]

\* The k-th message of a stream goes to <k>.mp4 in the directory of its pi,
\* whatever failed for the messages before it, across restarts and overlapping
\* streams: a file never holds the video of another number or another pi.
FileIsNthFrame ==
  \A n \in Names : \A f \in mp4[n] :
    f.num = f.content.seq /\ NameOf[f.content.stream] = n

\* The same for what viewers see: the playlist of a pi and its segments come
\* from streams of that pi.
Isolation ==
  \A n \in Names :
    \A e \in ts[n] \cup ToSet(playlist[n]) : NameOf[e.content.video.stream] = n

\* From its start to its end, through every crash of the server, an ffmpeg process
\* finds one video in its input file, the one its stream has handed to the file and
\* closed: no left-over of another stream or message, no file that was emptied or
\* is still being written, nor is it replaced under the process. While the reactor
\* waits, it is the message in hand. (What a full disk kept of it is not told apart.)
InputIsCurrent ==
  \A s \in Streams : ffmpeg[s] # {} =>
    /\ Read(s) = {[stream |-> s, seq |-> index_name_[s], written |-> TRUE]}
    /\ reactor[s] = "publishing" => frame_[s] = index_name_[s]

\* A viewer's playlist is bounded and without gaps, and the parts of the videos of
\* one stream are in the order of filming, none twice.
PlaylistInOrder ==
  \A n \in Names : LET list == playlist[n] IN
    /\ Len(list) <= ListSize
    /\ \A i \in 1 .. Len(list) - 1 : list[i + 1].num = list[i].num + 1
    /\ \A i, j \in DOMAIN list :
         LET u == list[i].content v == list[j].content IN
         i < j /\ u.video.stream = v.video.stream =>
           \/ u.video.seq < v.video.seq
           \/ u.video.seq = v.video.seq /\ u.part < v.part

\* Every entry of the playlist has its file: segments are deleted only after the
\* playlist has let go of them, by whichever process.
SegmentOnDisk ==
  \A n \in Names : \A i \in DOMAIN playlist[n] :
    \E f \in ts[n] : f.num = playlist[n][i].num

\* An entry plays what it was listed for, except that the first video of a new
\* stream starts again at output0.ts, under viewers of the old playlist.
PlaylistPlays ==
  \A n \in Names : \A i \in DOMAIN playlist[n] : \A f \in ts[n] :
    LET e == playlist[n][i] IN
    f.num = e.num => f.content = e.content \/ f.content.video.seq = 1

\* A stream whose client is gone is always closed, and its reactor deleted.
StreamIsClosed == \A s \in Streams : ended[s] ~> reactor[s] \in Over

=============================================================================
