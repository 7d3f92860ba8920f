------------------------------ MODULE ProgramServer ------------------------------
(***************************************************************************)
(* program_server: app/server/server_main.cc with lib/server/              *)
(* ServerStartAPI.cc.  The main thread runs the HLS server, a detached     *)
(* thread the gRPC server, whose streams CallBack models; here their       *)
(* effect on the files is that of Hls.  Viewers (external) ask for the     *)
(* playlist and its segments; a handler opens the file, then reads it,     *)
(* while ffmpeg goes on.                                                   *)
(***************************************************************************)
EXTENDS Hls

CONSTANT Viewers

ASSUME ProgramServerAssumption ==
  /\ ListSize \in Nat \ {0}
  /\ Contents \subseteq Nat \ {0}   \* in the order of filming

VARIABLES
  argv,      \* one argument was given
  process,   \* "running" or "ended"
  main,      \* the main thread
  grpc,      \* the thread that runs RunServer
  list,      \* per viewer, the playlist it was sent last
  asked,     \* per viewer, what is asked for: PlaylistFile or an entry of its list
  handler,   \* per viewer, the worker that answers
  file,      \* per viewer, the entries of what the worker has opened
  res        \* per viewer, the last response: status, and content if that is a segment

processVars == <<argv, process, main, grpc>>
viewVars    == <<list, asked, handler, file, res>>
vars == <<hlsVars, processVars, viewVars>>

PlaylistFile == [num |-> -1, content |-> 0]
Text         == 0
NotFound     == [status |-> 404, content |-> Text]
Ok(content)  == [status |-> 200, content |-> content]
Entries(l)   == {l[i] : i \in DOMAIN l}

ServerInit ==
  /\ Init
  /\ argv \in BOOLEAN
  /\ process = "running" /\ main = "main" /\ grpc = "none"
  /\ list = [v \in Viewers |-> <<>>]
  /\ asked = [v \in Viewers |-> PlaylistFile]
  /\ handler = [v \in Viewers |-> "idle"]
  /\ file = [v \in Viewers |-> {}]
  /\ res = [v \in Viewers |-> NotFound]

Ends == process' = "ended" /\ UNCHANGED <<hlsVars, argv, main, grpc, viewVars>>

-----------------------------------------------------------------------------
(***************************************************************************)
(* The two threads                                                         *)
(***************************************************************************)

\* main: the number of arguments, and the thread for RunServer
Main ==
  /\ process = "running" /\ main = "main"
  /\ \/ ~argv /\ Ends
     \/ /\ argv
        /\ main' = "listen" /\ grpc' = "build"
        /\ UNCHANGED <<hlsVars, argv, process, viewVars>>

\* RunServer: BuildAndStart returns null if the port cannot be had.
BuildAndStart ==
  /\ process = "running" /\ grpc = "build"
  /\ grpc' \in {"wait", "null"}
  /\ UNCHANGED <<hlsVars, argv, process, main, viewVars>>

\* server->Wait() blocks for ever; of the null pointer it ends the process.
Wait == process = "running" /\ grpc = "null" /\ Ends

\* RunServerHLS: listen() binds, then serves until accept fails for good.
RunServerHLS ==
  /\ process = "running"
  /\ \/ main = "listen" /\ main' \in {"serving", "returned"}
     \/ main = "serving" /\ main' = "returned"
  /\ UNCHANGED <<hlsVars, argv, process, grpc, viewVars>>

RetryListen ==   \* mutant: main does not end with the HLS server
  /\ process = "running" /\ main = "returned"
  /\ UNCHANGED vars

\* When RunServerHLS returns, main does, and every thread ends with it.
Return == process = "running" /\ main = "returned" /\ Ends

-----------------------------------------------------------------------------
(***************************************************************************)
(* The files (what the streams of gRPC do) and the two handlers            *)
(***************************************************************************)

\* ffmpeg, started for the streams of the gRPC server, writes and lists what was
\* filmed next.
ffmpeg ==
  /\ \/ /\ process = "running" /\ grpc = "wait"
        /\ \E c \in Contents : (\A f \in ts : f.content < c) /\ Cut(c)
     \/ Publish
     \/ Forget
  /\ UNCHANGED <<processVars, viewVars>>

\* A viewer asks for the playlist, or for an entry of the one it has.
Get(v) ==
  /\ process = "running" /\ main = "serving"
  /\ handler[v] = "idle"
  /\ asked' \in {[asked EXCEPT ![v] = f] : f \in {PlaylistFile} \cup Entries(list[v])}
  /\ handler' = [handler EXCEPT ![v] = "open"]
  /\ UNCHANGED <<hlsVars, processVars, list, file, res>>

\* std::ifstream file(path); no file: 404
Open(v, found) ==
  /\ process = "running" /\ handler[v] = "open"
  /\ IF found = {}
     THEN /\ res' = [res EXCEPT ![v] = NotFound]
          /\ handler' = [handler EXCEPT ![v] = "idle"]
          /\ UNCHANGED <<file>>
     ELSE /\ file' = [file EXCEPT ![v] = found]
          /\ handler' = [handler EXCEPT ![v] = "read"]
          /\ UNCHANGED res
  /\ UNCHANGED <<hlsVars, processVars, list, asked>>

\* The playlist exists when there has been a segment to list.
OpenPlaylist(v) ==
  asked[v] = PlaylistFile /\ Open(v, {playlist} \ {<<>>})

NextSegment(v) ==   \* mutant: segments counted from 1
  asked[v] # PlaylistFile /\ Open(v, {<<f>> : f \in {g \in ts : g.num = asked[v].num + 1}})

LastSegment(v) ==   \* mutant: the newest file instead of output<num>.ts
  asked[v] # PlaylistFile /\ Open(v, {<<f>> : f \in {g \in ts : \A h \in ts : h.num <= g.num}})

\* wild_card_part: the number in the path
OpenSegment(v) ==
  asked[v] # PlaylistFile /\ Open(v, {<<f>> : f \in {g \in ts : g.num = asked[v].num}})

\* The content of the file opened: ffmpeg renames a playlist over the old one, and
\* deletes segments, which leaves an opened file alone. It rewrites a segment in
\* place when a new stream starts: what is read is then of either video.
ReadPlaylist(v) ==
  /\ process = "running" /\ handler[v] = "read" /\ asked[v] = PlaylistFile
  /\ \E l \in file[v] :
       /\ res' = [res EXCEPT ![v] = Ok(Text)]
       /\ list' = [list EXCEPT ![v] = l]
  /\ handler' = [handler EXCEPT ![v] = "idle"]
  /\ UNCHANGED <<hlsVars, processVars, asked, file>>

ReadSegment(v) ==
  /\ process = "running" /\ handler[v] = "read" /\ asked[v] # PlaylistFile
  /\ \E opened \in file[v] :
       \E f \in Entries(opened) \cup {g \in ts : g.num = asked[v].num} :
         res' = [res EXCEPT ![v] = Ok(f.content)]
  /\ handler' = [handler EXCEPT ![v] = "idle"]
  /\ UNCHANGED <<hlsVars, processVars, list, asked, file>>

Handler(v) == OpenPlaylist(v) \/ OpenSegment(v) \/ ReadPlaylist(v) \/ ReadSegment(v)

Threads == Main \/ BuildAndStart \/ Wait \/ RunServerHLS \/ Return

ServerNext ==
  \/ Threads \/ ffmpeg
  \/ \E v \in Viewers : Get(v) \/ Handler(v)

\* Threads run; a viewer that asks is answered.
ServerSpec ==
  /\ ServerInit /\ [][ServerNext]_vars
  /\ WF_vars(Main) /\ WF_vars(BuildAndStart) /\ WF_vars(Wait) /\ WF_vars(Return)
  /\ WF_vars(RunServerHLS /\ main = "listen")
  /\ \A v \in Viewers : WF_vars(Handler(v))

-----------------------------------------------------------------------------
(***************************************************************************)
(* Properties                                                              *)
(***************************************************************************)

\* There is no half server: whichever of the two servers fails, in whichever order
\* the threads come up, the program ends up with both serving or none.
BothServersOrNone ==
  <>[](process = "ended" \/ (main = "serving" /\ grpc = "wait"))

\* A segment is not found only by a viewer whose playlist has been replaced since:
\* one that keeps up gets all segments while ffmpeg cuts, publishes and deletes.
NotFoundOnlyBehind ==
  [][\A v \in Viewers :
       asked[v] # PlaylistFile /\ handler[v] = "open" /\ handler'[v] = "idle" =>
         list[v] # playlist]_vars

\* A segment plays what the playlist it was taken from listed, unless a new stream
\* has started since.
PlaysWhatWasListed ==
  \A v \in Viewers :
    asked[v] # PlaylistFile /\ handler[v] = "idle" /\ res[v].status = 200 =>
      \/ res[v].content = asked[v].content
      \/ \E c \in Starting : asked[v].content < c /\ c <= res[v].content

=============================================================================
