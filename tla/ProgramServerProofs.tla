-------------------------- MODULE ProgramServerProofs --------------------------
(***************************************************************************)
(* Proofs about ProgramServer, for any number of viewers, any length of    *)
(* the playlist and any number of streams: what a viewer is sent for an    *)
(* entry of its playlist is what was listed, however late it asks, unless  *)
(* a stream that started since has used the number again.                  *)
(***************************************************************************)
EXTENDS ProgramServer, TLAPS

Segment == [num : Nat, content : Contents]

\* The content an entry may play: the one listed, or one of a stream that started since
Plays(e, content) ==
  content = e.content \/ \E c \in Starting : e.content < c /\ c <= content

\* What is known of an entry that has been listed: something at least as new is on the disk,
\* what is not listed yet is newer, its number is used again after a new start only, and the
\* file of its number plays it.
Kept(e) ==
  /\ e \in Segment /\ playlist # <<>>
  /\ \E f \in ts : e.content <= f.content
  /\ \A f \in fresh : e.content < f.content
  /\ \/ e.num < NextNum
     \/ \E c \in Starting \cap Contents : e.content < c /\ c <= Last(playlist).content
  /\ \A f \in ts : f.num = e.num => Plays(e, f.content)

Files ==
  /\ playlist \in Seq(Segment) /\ ts \subseteq Segment /\ fresh \subseteq ts
  /\ \A f, g \in ts : f.num = g.num => f = g
  /\ \A e \in Entries(playlist) : Kept(e) /\ \E f \in ts : f.num = e.num

\* A viewer holds entries that were listed, and reads or has read what they may play.
Views(v) ==
  /\ \A e \in Entries(list[v]) : Kept(e)
  /\ asked[v] # PlaylistFile => Kept(asked[v]) /\ asked[v] \in Entries(list[v])
  /\ asked[v] = PlaylistFile /\ handler[v] = "read" =>
       \A l \in file[v] : \A e \in Entries(l) : Kept(e)
  /\ asked[v] # PlaylistFile /\ handler[v] = "read" =>
       \A l \in file[v] : \A e \in Entries(l) : Plays(asked[v], e.content)
  /\ asked[v] # PlaylistFile /\ handler[v] = "idle" /\ res[v].status = 200 =>
       Plays(asked[v], res[v].content)

ViewTypes ==
  /\ asked \in [Viewers -> {PlaylistFile} \cup Segment]
  /\ DOMAIN list = Viewers /\ DOMAIN handler = Viewers /\ DOMAIN file = Viewers /\ DOMAIN res = Viewers

IInv == Files /\ ViewTypes /\ \A v \in Viewers : Views(v)

-----------------------------------------------------------------------------

\* What is listed now and what one may still play of it: the content listed is the least.
LEMMA NumbersOfFiles ==
  ASSUME Files
  PROVE  /\ \A e \in Segment : e.num \in Nat /\ e.content \in Nat \ {0} /\ e.content \in Contents
         /\ \A f \in ts : f \in Segment /\ f.num \in Nat /\ f.content \in Nat
         /\ playlist # <<>> => Last(playlist) \in Entries(playlist) /\ Last(playlist) \in Segment
         /\ NextNum \in Nat
<1>1. \A e \in Segment : e.num \in Nat /\ e.content \in Contents
  BY DEF Segment
<1>2. \A e \in Segment : e.content \in Nat \ {0}
  BY <1>1, ProgramServerAssumption
<1>3. \A f \in ts : f \in Segment
  BY DEF Files
<1>4. ASSUME playlist # <<>>
      PROVE  Last(playlist) \in Entries(playlist) /\ Last(playlist) \in Segment
  <2>1. Len(playlist) \in 1 .. Len(playlist) /\ DOMAIN playlist = 1 .. Len(playlist)
    BY <1>4 DEF Files
  <2>2. Last(playlist) \in Segment
    BY <2>1 DEF Files, Last
  <2> QED
    BY <2>1, <2>2 DEF Entries, Last
<1>5. NextNum \in Nat
  BY <1>1, <1>4 DEF NextNum
<1> QED
  BY <1>1, <1>2, <1>3, <1>4, <1>5

\* A file that is newer than everything on the disk takes the number of an entry only if a
\* stream has started since the entry was listed.
LEMMA CutKeeps ==
  ASSUME Files, NEW c \in Contents, \A f \in ts : f.content < c, Cut(c)
  PROVE  Files' /\ \A e : Kept(e) => Kept(e)'
<1>1. fresh = {} /\ UNCHANGED playlist
  BY DEF Cut
<1>2. PICK num \in {NextNum} \cup {n \in {0} : c \in Starting} :
        /\ fresh' = {[num |-> num, content |-> c]}
        /\ \E gone \in SUBSET {g \in ts : g.num \notin Listed} :
             ts' = {g \in ts \ gone : g.num # num} \cup {[num |-> num, content |-> c]}
  BY DEF Cut
<1>3. PICK f : f = [num |-> num, content |-> c]
  OBVIOUS
<1>4. PICK gone \in SUBSET {g \in ts : g.num \notin Listed} : ts' = {g \in ts \ gone : g.num # num} \cup {f}
  BY <1>2, <1>3
<1>5. num \in Nat /\ c \in Nat /\ f \in Segment /\ f.num = num /\ f.content = c
  BY <1>3, NumbersOfFiles, ProgramServerAssumption DEF Segment
<1>6. ASSUME NEW e, Kept(e) PROVE Kept(e)'
  <2>1. PICK h \in ts : e.content <= h.content
    BY <1>6 DEF Kept
  <2>2. e.content \in Nat /\ e.num \in Nat /\ h.content < c /\ h.content \in Nat /\ e \in Segment
    BY <1>6, <2>1, NumbersOfFiles DEF Kept
  <2>3. e.content < c
    BY <1>5, <2>1, <2>2
  <2>4. e.num = num => Plays(e, c)
    <3>1. CASE e.num < NextNum
      <4>1. e.num = num => c \in Starting
        BY <1>2, <2>2, <3>1, NumbersOfFiles
      <4> QED
        BY <1>5, <2>3, <4>1 DEF Plays
    <3>2. CASE ~ (e.num < NextNum)
      <4>1. PICK s \in Starting \cap Contents : e.content < s /\ s <= Last(playlist).content
        BY <1>6, <3>2 DEF Kept
      <4>2. Kept(Last(playlist)) /\ Last(playlist) \in Segment
        BY <1>6, NumbersOfFiles DEF Kept, Files
      <4>3. PICK g \in ts : Last(playlist).content <= g.content
        BY <4>2 DEF Kept
      <4>4. s \in Nat /\ Last(playlist).content \in Nat /\ g.content \in Nat /\ g.content < c
        BY <4>1, <4>2, <4>3, NumbersOfFiles, ProgramServerAssumption
      <4>5. s <= c
        BY <1>5, <4>1, <4>3, <4>4
      <4> QED
        BY <4>1, <4>5 DEF Plays
    <3> QED
      BY <3>1, <3>2
  <2>5. f \in ts' /\ e.content <= f.content /\ \A g \in fresh' : e.content < g.content
    BY <1>2, <1>3, <1>4, <1>5, <2>2, <2>3
  <2>6. \A g \in ts' : g.num = e.num => Plays(e, g.content)
    BY <1>4, <1>5, <1>6, <2>4 DEF Kept
  <2>7. NextNum' = NextNum /\ Last(playlist)' = Last(playlist)
    BY <1>1 DEF NextNum
  <2> QED
    BY <1>1, <1>6, <2>5, <2>6, <2>7 DEF Kept
<1>7. Files'
  <2>1. playlist' \in Seq(Segment) /\ \A e \in Entries(playlist') : Kept(e)'
    BY <1>1, <1>6 DEF Files
  <2>3. ASSUME NEW e \in Entries(playlist) PROVE \E g \in ts' : g.num = e.num
    <3>1. PICK g \in ts : g.num = e.num
      BY DEF Files
    <3>2. e.num \in Listed
      BY DEF Entries, Listed
    <3> QED
      BY <1>4, <1>5, <3>1, <3>2
  <2>2. ts' \subseteq Segment /\ fresh' \subseteq ts' /\ \A g, h \in ts' : g.num = h.num => g = h
    BY <1>2, <1>3, <1>4, <1>5 DEF Files
  <2> QED
    BY <1>1, <2>1, <2>2, <2>3 DEF Files
<1> QED
  BY <1>6, <1>7

\* The entry that is listed is that of a file on the disk, and newer than all listed before.
LEMMA PublishKeeps ==
  ASSUME Files, Publish
  PROVE  Files' /\ \A e : Kept(e) => Kept(e)'
<1>1. fresh' = {} /\ UNCHANGED ts
  BY DEF Publish
<1>2. PICK f \in fresh :
        \/ /\ f.num = NextNum
           /\ playlist' = LET l == Append(playlist, f) IN IF Len(l) > ListSize THEN Tail(l) ELSE l
        \/ f.num = 0 /\ f.content \in Starting /\ playlist' = <<f>>
  BY DEF Publish
<1>3. f \in ts /\ f \in Segment /\ f.num \in Nat /\ f.content \in Nat /\ f.content \in Contents
  BY <1>2, NumbersOfFiles DEF Files
<1>4. /\ playlist' \in Seq(Segment) /\ playlist' # <<>> /\ Last(playlist)' = f
      /\ \A e \in Entries(playlist') : e = f \/ e \in Entries(playlist)
  <2>1. CASE f.num = 0 /\ f.content \in Starting /\ playlist' = <<f>>
    BY <1>3, <2>1 DEF Entries, Last
  <2>2. CASE playlist' = LET l == Append(playlist, f) IN IF Len(l) > ListSize THEN Tail(l) ELSE l
    <3> DEFINE l == Append(playlist, f)
    <3>1. /\ l \in Seq(Segment) /\ Len(l) = Len(playlist) + 1 /\ l[Len(l)] = f /\ Len(playlist) \in Nat
          /\ \A i \in 1 .. Len(playlist) : l[i] = playlist[i]
      BY <1>3 DEF Files
    <3>2. DOMAIN playlist = 1 .. Len(playlist)
      BY DEF Files
    <3>3. \A i \in 1 .. Len(l) : l[i] = f \/ l[i] \in Entries(playlist)
      BY <3>1, <3>2 DEF Entries
    <3>4. playlist' = IF Len(l) > ListSize THEN Tail(l) ELSE l
      BY <2>2
    <3> HIDE DEF l
    <3>5. CASE Len(l) > ListSize
      <4>1. /\ Tail(l) \in Seq(Segment) /\ Len(Tail(l)) = Len(l) - 1 /\ Len(l) \in Nat /\ Len(l) > 1
            /\ \A i \in 1 .. Len(Tail(l)) : Tail(l)[i] = l[i + 1]
        BY <3>1, <3>5, ProgramServerAssumption
      <4>2. DOMAIN Tail(l) = 1 .. Len(Tail(l)) /\ Tail(l) # <<>> /\ Tail(l)[Len(Tail(l))] = f
        BY <3>1, <4>1
      <4>3. \A i \in 1 .. Len(Tail(l)) : Tail(l)[i] = f \/ Tail(l)[i] \in Entries(playlist)
        BY <3>3, <4>1
      <4> QED
        BY <3>4, <3>5, <4>1, <4>2, <4>3 DEF Entries, Last
    <3>6. CASE ~ (Len(l) > ListSize)
      <4>1. DOMAIN l = 1 .. Len(l) /\ l # <<>>
        BY <3>1
      <4> QED
        BY <3>1, <3>3, <3>4, <3>6, <4>1 DEF Entries, Last
    <3> QED
      BY <3>5, <3>6
  <2> QED
    BY <1>2, <2>1, <2>2
<1>5. NextNum' = f.num + 1
  BY <1>4 DEF NextNum
<1>6. ASSUME NEW e, Kept(e) PROVE Kept(e)'
  <2>1. /\ e \in Segment /\ e.content \in Nat /\ e.num \in Nat /\ e.content < f.content
        /\ Last(playlist) \in Segment /\ Last(playlist).content \in Nat
        /\ Last(playlist).content < f.content
    BY <1>2, <1>6, NumbersOfFiles DEF Kept, Files
  <2>2. \/ e.num < NextNum'
        \/ \E c \in Starting \cap Contents : e.content < c /\ c <= f.content
    <3>1. CASE f.num = NextNum
      <4>1. CASE e.num < NextNum
        BY <1>3, <1>5, <2>1, <3>1, <4>1
      <4>2. CASE ~ (e.num < NextNum)
        <5>1. PICK c \in Starting \cap Contents : e.content < c /\ c <= Last(playlist).content
          BY <1>6, <4>2 DEF Kept
        <5>2. c \in Nat
          BY ProgramServerAssumption
        <5>3. c <= f.content
          BY <1>3, <2>1, <5>1, <5>2
        <5> QED
          BY <5>1, <5>3
      <4> QED
        BY <4>1, <4>2
    <3>2. CASE f.content \in Starting
      BY <1>3, <2>1, <3>2
    <3> QED
      BY <1>2, <3>1, <3>2
  <2> QED
    BY <1>1, <1>4, <1>6, <2>1, <2>2 DEF Kept
<1>7. Kept(f)'
  <2>1. f.num < NextNum'
    BY <1>3, <1>5
  <2>2. \A g \in ts' : g.num = f.num => Plays(f, g.content)
    BY <1>1, <1>3 DEF Files, Plays
  <2>3. f \in ts' /\ f.content <= f.content
    BY <1>1, <1>3
  <2> QED
    BY <1>1, <1>3, <1>4, <2>1, <2>2, <2>3 DEF Kept
<1>8. Files'
  BY <1>1, <1>3, <1>4, <1>6, <1>7 DEF Files
<1> QED
  BY <1>6, <1>8

\* ffmpeg keeps what is known of every entry.
LEMMA FfmpegKeeps ==
  ASSUME Files, ffmpeg
  PROVE  Files' /\ \A e : Kept(e) => Kept(e)'
<1>1. CASE \E c \in Contents : (\A f \in ts : f.content < c) /\ Cut(c)
  BY <1>1, CutKeeps
<1>2. CASE Publish
  BY <1>2, PublishKeeps
<1>3. CASE Forget
  <2>1. fresh' = {} /\ UNCHANGED <<playlist, ts>>
    BY <1>3 DEF Forget
  <2>2. NextNum' = NextNum
    BY <2>1 DEF NextNum
  <2>3. \A e : Kept(e) => Kept(e)'
    BY <2>1, <2>2 DEF Kept
  <2> QED
    BY <2>1, <2>3 DEF Files
<1> QED
  BY <1>1, <1>2, <1>3 DEF ffmpeg

\* Kept and Files speak of the files only.
LEMMA FilesSame ==
  ASSUME UNCHANGED hlsVars
  PROVE  (Files => Files') /\ \A e : Kept(e)' <=> Kept(e)
BY DEF hlsVars, Files, Kept, NextNum

\* Views is kept for a viewer whose own state is left alone.
LEMMA ViewsSame ==
  ASSUME NEW v, Views(v), \A e : Kept(e) => Kept(e)', UNCHANGED <<list, asked, handler, file, res>>
  PROVE  Views(v)'
BY DEF Views

-----------------------------------------------------------------------------

\* IInv holds at first.
LEMMA InitIInv == ServerInit => IInv
<1> SUFFICES ASSUME ServerInit PROVE IInv
  OBVIOUS
<1>1. Files
  BY DEF ServerInit, Init, Files, Entries
<1>2. ViewTypes
  BY DEF ServerInit, ViewTypes
<1>3. ASSUME NEW v \in Viewers PROVE Views(v)
  BY DEF ServerInit, Views, Entries
<1> QED
  BY <1>1, <1>2, <1>3 DEF IInv

\* A viewer asks for an entry it was listed.
LEMMA GetKeeps == ASSUME IInv, NEW v \in Viewers, Get(v) PROVE IInv'
<1>1. UNCHANGED hlsVars /\ UNCHANGED <<list, file, res>> /\ handler[v] = "idle"
  BY DEF Get
<1>2. Files' /\ \A e : Kept(e)' <=> Kept(e)
  BY <1>1, FilesSame DEF IInv
<1>3. PICK f \in {PlaylistFile} \cup Entries(list[v]) : asked' = [asked EXCEPT ![v] = f]
  BY DEF Get
<1>4. handler' = [handler EXCEPT ![v] = "open"]
  BY DEF Get
<1>5. f = PlaylistFile \/ (Kept(f) /\ f \in Segment)
  BY <1>3 DEF IInv, Views, Kept
<1>6. /\ asked'[v] = f /\ handler'[v] = "open"
      /\ \A x \in Viewers \ {v} : asked'[x] = asked[x] /\ handler'[x] = handler[x]
  BY <1>3, <1>4 DEF IInv, ViewTypes
<1>7. ViewTypes'
  BY <1>1, <1>3, <1>4, <1>5 DEF IInv, ViewTypes
<1>8. Views(v)'
  BY <1>1, <1>2, <1>5, <1>6 DEF IInv, Views
<1>9. ASSUME NEW x \in Viewers, x # v PROVE Views(x)'
  BY <1>1, <1>2, <1>6, <1>9 DEF IInv, Views
<1> QED
  BY <1>2, <1>7, <1>8, <1>9 DEF IInv

\* The file of the playlist, or of the entry's number, is opened.
LEMMA OpenKeeps ==
  ASSUME IInv, NEW v \in Viewers, OpenPlaylist(v) \/ OpenSegment(v) PROVE IInv'
<1>1. PICK found :
        /\ Open(v, found)
        /\ \/ asked[v] = PlaylistFile /\ found = {playlist} \ {<<>>}
           \/ asked[v] # PlaylistFile /\ found = {<<f>> : f \in {g \in ts : g.num = asked[v].num}}
  BY DEF OpenPlaylist, OpenSegment
<1>2. UNCHANGED hlsVars /\ UNCHANGED <<list, asked>> /\ handler[v] = "open"
  BY <1>1 DEF Open
<1>3. Files' /\ \A e : Kept(e)' <=> Kept(e)
  BY <1>2, FilesSame DEF IInv
<1>4. \/ /\ res' = [res EXCEPT ![v] = NotFound] /\ handler' = [handler EXCEPT ![v] = "idle"]
         /\ UNCHANGED file
      \/ /\ file' = [file EXCEPT ![v] = found] /\ handler' = [handler EXCEPT ![v] = "read"]
         /\ UNCHANGED res
  BY <1>1 DEF Open
<1>5. ViewTypes'
  BY <1>2, <1>4 DEF IInv, ViewTypes
<1>6. Views(v)'
  <2>1. CASE handler'[v] = "idle" /\ res'[v].status = 404
    BY <1>2, <1>3, <2>1 DEF IInv, Views
  <2>2. CASE handler'[v] = "read" /\ file'[v] = found
    <3>1. asked[v] = PlaylistFile => \A l \in found : \A e \in Entries(l) : Kept(e)
      BY <1>1 DEF IInv, Files
    <3>2. asked[v] # PlaylistFile => \A l \in found : \A e \in Entries(l) : Plays(asked[v], e.content)
      <4> SUFFICES ASSUME asked[v] # PlaylistFile, NEW l \in found, NEW e \in Entries(l)
                   PROVE  Plays(asked[v], e.content)
        OBVIOUS
      <4>1. PICK f \in ts : f.num = asked[v].num /\ l = <<f>>
        BY <1>1
      <4>2. e = f
        BY <4>1 DEF Entries
      <4>3. Kept(asked[v])
        BY DEF IInv, Views
      <4> QED
        BY <4>1, <4>2, <4>3 DEF Kept
    <3> QED
      BY <1>2, <1>3, <2>2, <3>1, <3>2 DEF IInv, Views
  <2>3. \/ handler'[v] = "idle" /\ res'[v].status = 404
        \/ handler'[v] = "read" /\ file'[v] = found
    BY <1>4 DEF IInv, ViewTypes, NotFound
  <2> QED
    BY <2>1, <2>2, <2>3
<1>7. ASSUME NEW x \in Viewers, x # v PROVE Views(x)'
  <2>1. handler'[x] = handler[x] /\ file'[x] = file[x] /\ res'[x] = res[x]
    BY <1>4, <1>7 DEF IInv, ViewTypes
  <2> QED
    BY <1>2, <1>3, <1>7, <2>1 DEF IInv, Views
<1> QED
  BY <1>3, <1>5, <1>6, <1>7 DEF IInv

\* The viewer gets the playlist that was opened.
LEMMA ReadPlaylistKeeps == ASSUME IInv, NEW v \in Viewers, ReadPlaylist(v) PROVE IInv'
<1>1. PICK l \in file[v] : res' = [res EXCEPT ![v] = Ok(Text)] /\ list' = [list EXCEPT ![v] = l]
  BY DEF ReadPlaylist
<1>2. /\ UNCHANGED hlsVars /\ UNCHANGED <<asked, file>> /\ handler[v] = "read"
      /\ asked[v] = PlaylistFile /\ handler' = [handler EXCEPT ![v] = "idle"]
  BY DEF ReadPlaylist
<1>3. Files' /\ \A e : Kept(e)' <=> Kept(e)
  BY <1>2, FilesSame DEF IInv
<1>4. ViewTypes'
  BY <1>1, <1>2 DEF IInv, ViewTypes
<1>5. /\ list'[v] = l /\ handler'[v] = "idle"
      /\ \A x \in Viewers \ {v} : list'[x] = list[x] /\ handler'[x] = handler[x] /\ res'[x] = res[x]
  BY <1>1, <1>2 DEF IInv, ViewTypes
<1>6. Views(v)'
  BY <1>1, <1>2, <1>3, <1>5 DEF IInv, Views
<1>7. ASSUME NEW x \in Viewers, x # v PROVE Views(x)'
  BY <1>2, <1>3, <1>5, <1>7 DEF IInv, Views
<1> QED
  BY <1>3, <1>4, <1>6, <1>7 DEF IInv

\* The viewer gets what it opened, or what a new stream has put in its place.
LEMMA ReadSegmentKeeps == ASSUME IInv, NEW v \in Viewers, ReadSegment(v) PROVE IInv'
<1>1. PICK opened \in file[v] :
        \E f \in Entries(opened) \cup {g \in ts : g.num = asked[v].num} :
          res' = [res EXCEPT ![v] = Ok(f.content)]
  BY DEF ReadSegment
<1>2. PICK f \in Entries(opened) \cup {g \in ts : g.num = asked[v].num} :
      res' = [res EXCEPT ![v] = Ok(f.content)]
  BY <1>1
<1>3. /\ UNCHANGED hlsVars /\ UNCHANGED <<list, asked, file>> /\ handler[v] = "read"
      /\ asked[v] # PlaylistFile /\ handler' = [handler EXCEPT ![v] = "idle"]
  BY DEF ReadSegment
<1>4. Files' /\ \A e : Kept(e)' <=> Kept(e)
  BY <1>3, FilesSame DEF IInv
<1>5. ViewTypes'
  BY <1>2, <1>3 DEF IInv, ViewTypes
<1>6. /\ res'[v] = Ok(f.content) /\ handler'[v] = "idle"
      /\ \A x \in Viewers \ {v} : handler'[x] = handler[x] /\ res'[x] = res[x]
  BY <1>2, <1>3 DEF IInv, ViewTypes
<1>7. Plays(asked[v], f.content)
  BY <1>2, <1>3 DEF IInv, Views, Kept
<1>8. Views(v)'
  BY <1>3, <1>4, <1>6, <1>7 DEF IInv, Views, Ok
<1>9. ASSUME NEW x \in Viewers, x # v PROVE Views(x)'
  BY <1>3, <1>4, <1>6, <1>9 DEF IInv, Views
<1> QED
  BY <1>4, <1>5, <1>8, <1>9 DEF IInv

\* ffmpeg goes on while viewers hold lists, ask and read.
LEMMA FfmpegStep == ASSUME IInv, ffmpeg PROVE IInv'
<1>1. UNCHANGED <<list, asked, handler, file, res>>
  BY DEF ffmpeg, viewVars
<1>2. Files' /\ \A e : Kept(e) => Kept(e)'
  BY FfmpegKeeps DEF IInv
<1>3. ASSUME NEW v \in Viewers PROVE Views(v)'
  BY <1>1, <1>2, ViewsSame DEF IInv
<1>4. ViewTypes'
  BY <1>1 DEF IInv, ViewTypes
<1> QED
  BY <1>2, <1>3, <1>4 DEF IInv

\* The threads of the process leave the files and the viewers alone.
LEMMA ThreadsKeep == ASSUME IInv, Threads \/ UNCHANGED vars PROVE IInv'
<1>1. UNCHANGED hlsVars /\ UNCHANGED <<list, asked, handler, file, res>>
  BY DEF Threads, Main, BuildAndStart, Wait, RunServerHLS, Return, Ends, vars, viewVars
<1>2. Files' /\ \A e : Kept(e)' <=> Kept(e)
  BY <1>1, FilesSame DEF IInv
<1>3. ASSUME NEW v \in Viewers PROVE Views(v)'
  BY <1>1, <1>2, ViewsSame DEF IInv
<1>4. ViewTypes'
  BY <1>1 DEF IInv, ViewTypes
<1> QED
  BY <1>2, <1>3, <1>4 DEF IInv

\* IInv holds in every state.
THEOREM Invariance == ServerSpec => []IInv
<1>1. IInv /\ [ServerNext]_vars => IInv'
  BY FfmpegStep, ThreadsKeep, GetKeeps, OpenKeeps, ReadPlaylistKeeps, ReadSegmentKeeps
     DEF ServerNext, Handler
<1> QED
  BY InitIInv, <1>1, PTL DEF ServerSpec

\* Whatever ffmpeg cuts, lists and deletes between the answer with the playlist, the request
\* for a segment, the opening of its file and the reading of it, for any number of viewers and
\* of streams: the content sent is the one listed, or of a stream that started since.
THEOREM ListedIsPlayed == ServerSpec => []PlaysWhatWasListed
<1>1. IInv => PlaysWhatWasListed
  BY DEF IInv, Views, Plays, PlaysWhatWasListed
<1> QED
  BY Invariance, <1>1, PTL

\* A viewer whose playlist is still the current one is never told that a segment of it is not
\* found: what is listed is on the disk, at the moment the file is opened.
THEOREM FoundUnlessBehind == ServerSpec => NotFoundOnlyBehind
<1> DEFINE Found(v) == asked[v] # PlaylistFile /\ handler[v] = "open" /\ handler'[v] = "idle" =>
                         list[v] # playlist
<1>1. ASSUME IInv, ServerNext, NEW v \in Viewers, asked[v] # PlaylistFile, handler[v] = "open",
             handler'[v] = "idle", list[v] = playlist
      PROVE  FALSE
  <2>1. PICK f \in ts : f.num = asked[v].num
    BY <1>1 DEF IInv, Views, Files
  <2>2. CASE OpenSegment(v)
    <3>1. {<<g>> : g \in {h \in ts : h.num = asked[v].num}} # {}
      BY <2>1
    <3>2. handler' = [handler EXCEPT ![v] = "read"]
      BY <2>2, <3>1 DEF OpenSegment, Open
    <3> QED
      BY <1>1, <3>2 DEF IInv, ViewTypes
  <2>3. ~ OpenSegment(v) => handler'[v] = handler[v] \/ handler[v] # "open" \/ asked[v] = PlaylistFile
    <3>1. ASSUME NEW x \in Viewers, x # v, Get(x) \/ Handler(x) PROVE handler'[v] = handler[v]
      <4>1. \E s : handler' = [handler EXCEPT ![x] = s]
        BY <3>1, Zenon DEF Get, Handler, OpenPlaylist, OpenSegment, ReadPlaylist, ReadSegment, Open
      <4> QED
        BY <1>1, <3>1, <4>1 DEF IInv, ViewTypes
    <3>2. Get(v) \/ OpenPlaylist(v) \/ ReadPlaylist(v) \/ ReadSegment(v) =>
            handler[v] # "open" \/ asked[v] = PlaylistFile
      BY DEF Get, OpenPlaylist, ReadPlaylist, ReadSegment
    <3>3. Threads \/ ffmpeg => UNCHANGED handler
      BY DEF Threads, Main, BuildAndStart, Wait, RunServerHLS, Return, Ends, ffmpeg, viewVars
    <3> QED
      BY <1>1, <3>1, <3>2, <3>3 DEF ServerNext, Handler
  <2> QED
    BY <1>1, <2>2, <2>3
<1>2. IInv /\ [ServerNext]_vars => [\A v \in Viewers : Found(v)]_vars
  BY <1>1
<1> QED
  BY <1>2, Invariance, PTL DEF ServerSpec, NotFoundOnlyBehind

=============================================================================
