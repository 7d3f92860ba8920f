------------------------------ MODULE CallBackProofs ------------------------------
(***************************************************************************)
(* Proofs about CallBack, for any number of streams and pis: what number   *)
(* the files have, what the disk and the ffmpeg processes hold, and that   *)
(* the files of a pi are those of Hls.                                     *)
(***************************************************************************)
EXTENDS CallBackHls, SequenceTheorems, TLAPS

(***************************************************************************)
(* The number of a file.                                                   *)
(*                                                                         *)
(* That file k holds the k-th message cannot be seen from the files alone: *)
(* index_name_ has to agree with the number of the message in hand while a *)
(* handler runs, and with the next one in the inbox between two handlers.  *)
(* Counting says so.                                                       *)
(***************************************************************************)

Handling == {"saving", "emptying", "writing", "publishing", "next"}

\* The messages of a stream that have left its inbox
Taken(s) == sent[s] - Len(inbox[s])

\* The part of TypeOK the argument needs.
CountersOK ==
  /\ reactor \in [Streams -> ReactorStates]
  /\ index_name_ \in [Streams -> Nat \ {0}]
  /\ sent \in [Streams -> 0 .. MaxFrames]
  /\ inbox \in [Streams -> Seq(Message)]
  /\ frame_ \in [Streams -> 0 .. MaxFrames]
  /\ mp4 \in [Names -> SUBSET Mp4]

\* An inbox holds the latest messages, in the order they were sent.
InboxInOrder ==
  \A s \in Streams : \A i \in DOMAIN inbox[s] : inbox[s][i].seq = Taken(s) + i

\* index_name_ of a reactor that waits is the number of the message it will read
\* next; of one that handles a message, the number of that message.
Counting ==
  \A s \in Streams :
    /\ reactor[s] \in {"none", "reading"} => index_name_[s] = Taken(s) + 1
    /\ reactor[s] = "none" => inbox[s] = <<>>
    /\ reactor[s] \in Handling => index_name_[s] = Taken(s) /\ frame_[s] = Taken(s)

\* The inductive invariant
IInv == CountersOK /\ InboxInOrder /\ Counting /\ FileIsNthFrame

-----------------------------------------------------------------------------

\* The invariant holds of the initial states: nothing sent, no file written.
LEMMA IInvInit == Init => IInv
<1>. SUFFICES ASSUME Init PROVE IInv
  OBVIOUS
<1>1. CountersOK
  BY CallBackAssumption DEF Init, CountersOK, ReactorStates, FirstIndex, Message
<1>2. InboxInOrder
  BY DEF Init, InboxInOrder
<1>3. Counting
  BY DEF Init, Counting, Taken, Handling, FirstIndex
<1>4. FileIsNthFrame
  BY DEF Init, FileIsNthFrame
<1>. QED
  BY <1>1, <1>2, <1>3, <1>4 DEF IInv

\* What the invariant reads of the files: only OpenFile and WriteMsgToFile change
\* them.
LEMMA FilesKept ==
  ASSUME FileIsNthFrame, UNCHANGED mp4
  PROVE  FileIsNthFrame'
  BY DEF FileIsNthFrame

\* A step that leaves the messages alone, and changes reactors only between
\* states of the same kind or to the end.
LEMMA CountingKept ==
  ASSUME CountersOK, InboxInOrder, Counting,
         UNCHANGED <<index_name_, sent, inbox, frame_>>,
         \A s \in Streams :
           \/ reactor'[s] = reactor[s]
           \/ reactor'[s] \in {"finishing", "deleted", "lost"}
           \/ reactor[s] \in Handling /\ reactor'[s] \in Handling
           \/ reactor[s] = "none" /\ reactor'[s] = "reading"
  PROVE  InboxInOrder' /\ Counting'
<1>1. InboxInOrder'
  BY DEF InboxInOrder, Taken
<1>2. Counting'
  BY DEF Counting, Taken, Handling
<1>. QED
  BY <1>1, <1>2

\* What Save leaves in the directories is files of videos.
LEMMA SaveTypes ==
  ASSUME CountersOK, Counting, NEW s \in Streams, reactor[s] \in Handling,
         NEW written \in BOOLEAN, Save(s, written)
  PROVE  mp4' \in [Names -> SUBSET Mp4]
<1>1. frame_[s] \in 1 .. MaxFrames /\ index_name_[s] \in Nat /\ Dir(s) \in Names
  BY CallBackAssumption DEF Counting, CountersOK, Dir
<1>. DEFINE v == [stream |-> s, seq |-> frame_[s], written |-> written]
<1>2. v \in Video
  BY <1>1 DEF Video
<1>3. Put(mp4[Dir(s)], index_name_[s], v) \in SUBSET Mp4
  <2>. HIDE DEF v
  <2>. QED
    BY <1>1, <1>2 DEF Put, Mp4, CountersOK
<1>. QED
  BY <1>1, <1>3 DEF Save, CountersOK

\* Every action keeps the types.
LEMMA CountersStep == CountersOK /\ Counting /\ [Next]_vars => CountersOK'
<1>. SUFFICES ASSUME CountersOK, Counting, [Next]_vars PROVE CountersOK'
  OBVIOUS
<1>. USE CallBackAssumption DEF CountersOK, ReactorStates, Goto, clientVars, diskVars
<1>1. ASSUME NEW s \in Streams, StreamVideo(s) PROVE CountersOK'
  BY <1>1 DEF StreamVideo
<1>2. ASSUME NEW s \in Streams, Send(s) PROVE CountersOK'
  <2>. DEFINE Count == 0 .. MaxFrames
  <2>1. sent' = [sent EXCEPT ![s] = @ + 1] /\ sent[s] < MaxFrames
    BY <1>2, Zenon DEF Send
  <2>2. sent \in [Streams -> Count] /\ sent[s] + 1 \in 1 .. MaxFrames
    BY <2>1
  <2>3. sent[s] + 1 \in Count /\ sent'[s] = sent[s] + 1
    BY <2>1, <2>2
  <2>4. sent' \in [Streams -> Count]
    <3>. HIDE DEF Count
    <3>. QED
      BY <2>1, <2>2, <2>3
  <2>5. PICK null \in {"none", "text", "data"} :
          inbox' = [inbox EXCEPT ![s] = Append(@, [seq |-> sent'[s], null |-> null])]
    BY <1>2, Zenon DEF Send
  <2>6. inbox' \in [Streams -> Seq(Message)]
    <3>. DEFINE m == [seq |-> sent'[s], null |-> null]
    <3>1. m \in Message
      BY <2>2, <2>3 DEF Message
    <3>2. Append(inbox[s], m) \in Seq(Message)
      <4>1. inbox[s] \in Seq(Message)
        OBVIOUS
      <4>. QED
        BY <3>1, <4>1, AppendProperties
    <3>. QED
      BY <2>5, <3>2
  <2>7. UNCHANGED <<reactor, index_name_, frame_, mp4>>
    BY <1>2 DEF Send
  <2>. QED
    BY <2>4, <2>6, <2>7
<1>3. ASSUME NEW s \in Streams, EndStream(s) PROVE CountersOK'
  BY <1>3 DEF EndStream
<1>4. ASSUME NEW s \in Streams, OnReadDone(s) PROVE CountersOK'
  <2>1. inbox[s] \in Seq(Message) /\ inbox[s] # <<>>
    BY <1>4 DEF OnReadDone
  <2>2. Head(inbox[s]) \in Message /\ Tail(inbox[s]) \in Seq(Message)
    BY <2>1
  <2>3. Head(inbox[s]).seq \in 0 .. MaxFrames
    <3>. DEFINE m == Head(inbox[s])
    <3>1. m \in Message
      BY <2>2
    <3>2. m.seq \in 1 .. MaxFrames
      <4>. HIDE DEF m
      <4>. QED
        BY <3>1 DEF Message
    <3>. QED
      BY <3>2
  <2>4. PICK to \in {"saving", "emptying", "next"} : reactor' = [reactor EXCEPT ![s] = to]
    BY <1>4 DEF OnReadDone, Failed
  <2>. QED
    BY <1>4, <2>2, <2>3, <2>4 DEF OnReadDone
<1>5. ASSUME Crash PROVE CountersOK'
  BY <1>5 DEF Crash
<1>6. ASSUME NEW s \in Streams, OpenFile(s) \/ WriteMsgToFile(s) PROVE CountersOK'
  <2>1. UNCHANGED <<index_name_, sent, inbox, frame_>>
    BY <1>6 DEF OpenFile, WriteMsgToFile
  <2>2. reactor' \in [Streams -> ReactorStates]
    BY <1>6 DEF OpenFile, WriteMsgToFile, Failed
  <2>3. CASE UNCHANGED mp4
    BY <2>1, <2>2, <2>3
  <2>4. CASE Save(s, FALSE) \/ Save(s, TRUE)
    <3>1. reactor[s] \in Handling
      BY <1>6 DEF OpenFile, WriteMsgToFile, Handling
    <3>2. mp4' \in [Names -> SUBSET Mp4]
      BY <2>4, <3>1, SaveTypes
    <3>. QED
      BY <2>1, <2>2, <3>2
  <2>. QED
    BY <1>6, <2>3, <2>4 DEF OpenFile, WriteMsgToFile
<1>7. ASSUME NEW s \in Streams, NextRead(s) PROVE CountersOK'
  BY <1>7 DEF NextRead
<1>8. ASSUME NEW s \in Streams, OnReadFailed(s) \/ OnDone(s) PROVE CountersOK'
  <2>1. UNCHANGED <<index_name_, sent, frame_, mp4>>
    BY <1>8 DEF OnReadFailed, OnDone
  <2>2. reactor' \in [Streams -> ReactorStates]
    BY <1>8 DEF OnReadFailed, OnDone
  <2>3. inbox' = inbox \/ inbox' = [inbox EXCEPT ![s] = <<>>]
    BY <1>8 DEF OnReadFailed, OnDone
  <2>4. <<>> \in Seq(Message)
    OBVIOUS
  <2>. QED
    BY <2>1, <2>2, <2>3, <2>4
<1>9. ASSUME NEW s \in Streams, Ffmpeg(s) PROVE CountersOK'
  <2>1. UNCHANGED <<index_name_, sent, inbox, frame_, mp4>>
    BY <1>9 DEF Ffmpeg, FfmpegOpen, FfmpegCut, FfmpegPublish, FfmpegFails, clientVars, diskVars
  <2>2. UNCHANGED reactor \/ Exit(s)
    BY <1>9 DEF Ffmpeg, FfmpegOpen, FfmpegCut, FfmpegPublish, FfmpegFails
  <2>. QED
    BY <2>1, <2>2 DEF Exit
<1>10. CASE Restart \/ UNCHANGED vars
  BY <1>10 DEF Restart, vars, clientVars, diskVars
<1>. QED
  BY <1>1, <1>2, <1>3, <1>4, <1>5, <1>6, <1>7, <1>8, <1>9, <1>10
     DEF Next, Reactor, OnReadNull, ServerDies

\* Sending: the newest message goes to the end of an inbox in order. (n is the
\* number of messages sent, q the inbox; k and r are what they become.)
LEMMA SendOne ==
  ASSUME NEW n \in Nat, NEW q \in Seq(Message), NEW m \in Message, m.seq = n + 1,
         \A i \in DOMAIN q : q[i].seq = n - Len(q) + i,
         NEW k, k = n + 1, NEW r, r = Append(q, m)
  PROVE  /\ k - Len(r) = n - Len(q)
         /\ \A i \in DOMAIN r : r[i].seq = n - Len(q) + i
<1>1. Len(q) \in Nat /\ Len(r) = Len(q) + 1 /\ DOMAIN q = 1 .. Len(q)
  BY AppendProperties, LenProperties
<1>2. DOMAIN r = 1 .. Len(q) + 1
  BY <1>1, AppendProperties, LenProperties
<1>3. ASSUME NEW i \in 1 .. Len(q) PROVE r[i].seq = n - Len(q) + i
  BY <1>1, <1>3, AppendProperties
<1>4. r[Len(q) + 1].seq = n - Len(q) + (Len(q) + 1)
  <2>1. r[Len(q) + 1] = m
    BY AppendProperties
  <2>. QED
    BY <1>1, <2>1
<1>5. ASSUME NEW i \in 1 .. Len(q) + 1 PROVE r[i].seq = n - Len(q) + i
  <2>1. i \in 1 .. Len(q) \/ i = Len(q) + 1
    BY <1>1, <1>5
  <2>. QED
    BY <1>3, <1>4, <2>1
<1>. QED
  BY <1>1, <1>2, <1>5

\* Reading: the oldest message leaves it.
LEMMA ReadOne ==
  ASSUME NEW n \in Nat, NEW q \in Seq(Message), q # <<>>,
         \A i \in DOMAIN q : q[i].seq = n - Len(q) + i
  PROVE  /\ Head(q).seq = n - Len(q) + 1
         /\ n - Len(Tail(q)) = n - Len(q) + 1
         /\ \A i \in DOMAIN Tail(q) : Tail(q)[i].seq = n - Len(Tail(q)) + i
<1>1. /\ Len(q) \in Nat /\ DOMAIN q = 1 .. Len(q) /\ Len(q) # 0
      /\ Head(q) = q[1]
  BY LenProperties, EmptySeq
<1>2. /\ Tail(q) \in Seq(Message) /\ Len(Tail(q)) = Len(q) - 1
      /\ \A i \in 1 .. Len(Tail(q)) : Tail(q)[i] = q[i + 1]
  BY HeadTailProperties
<1>3. DOMAIN Tail(q) = 1 .. Len(q) - 1
  BY <1>2, LenProperties
<1>4. ASSUME NEW i \in 1 .. Len(q) - 1 PROVE Tail(q)[i].seq = n - Len(q) + (i + 1)
  BY <1>1, <1>2, <1>4
<1>. QED
  BY <1>1, <1>2, <1>3, <1>4

\* Send adds the next message of a stream at the end of its inbox and moves
\* nothing else.
LEMMA SendCounts ==
  ASSUME CountersOK, InboxInOrder, Counting, NEW s \in Streams, Send(s)
  PROVE  InboxInOrder' /\ Counting'
<1>1. /\ UNCHANGED <<reactor, index_name_, frame_>>
      /\ reactor[s] # "none"
  BY DEF Send
<1>2. sent' = [sent EXCEPT ![s] = @ + 1]
  BY Zenon DEF Send
<1>3. sent[s] \in Nat /\ inbox[s] \in Seq(Message)
  BY CallBackAssumption DEF CountersOK
<1>4. sent'[s] = sent[s] + 1 /\ \A r \in Streams \ {s} : sent'[r] = sent[r]
  BY <1>2 DEF CountersOK
<1>5. sent'[s] \in 1 .. MaxFrames
  <2>1. sent[s] < MaxFrames /\ MaxFrames \in Nat
    BY CallBackAssumption DEF Send
  <2>. QED
    BY <1>3, <1>4, <2>1
<1>6. \E m \in Message :
        m.seq = sent[s] + 1 /\ inbox' = [inbox EXCEPT ![s] = Append(@, m)]
  <2>1. PICK null \in {"none", "text", "data"} :
          inbox' = [inbox EXCEPT ![s] = Append(@, [seq |-> sent'[s], null |-> null])]
    BY Zenon DEF Send
  <2>2. [seq |-> sent'[s], null |-> null] \in Message
    BY <1>5 DEF Message
  <2>. QED
    BY <1>4, <2>1, <2>2
<1>7. PICK m \in Message :
        m.seq = sent[s] + 1 /\ inbox' = [inbox EXCEPT ![s] = Append(@, m)]
  BY <1>6
<1>8. inbox'[s] = Append(inbox[s], m) /\ \A r \in Streams \ {s} : inbox'[r] = inbox[r]
  BY <1>7 DEF CountersOK
<1>9. \A i \in DOMAIN inbox[s] : inbox[s][i].seq = sent[s] - Len(inbox[s]) + i
  BY DEF InboxInOrder, Taken
<1>10. /\ sent'[s] - Len(inbox'[s]) = sent[s] - Len(inbox[s])
       /\ \A i \in DOMAIN inbox'[s] : inbox'[s][i].seq = sent[s] - Len(inbox[s]) + i
  <2>1. sent'[s] = sent[s] + 1 /\ inbox'[s] = Append(inbox[s], m)
    BY <1>4, <1>8
  <2>. QED
    BY <1>3, <1>7, <1>9, <2>1, SendOne
<1>11. \A r \in Streams : Taken(r)' = Taken(r)
  <2>1. Taken(s)' = Taken(s)
    BY <1>10 DEF Taken
  <2>2. ASSUME NEW r \in Streams \ {s} PROVE Taken(r)' = Taken(r)
    BY <1>4, <1>8 DEF Taken
  <2>. QED
    BY <2>1, <2>2
<1>12. InboxInOrder'
  <2>1. \A i \in DOMAIN inbox'[s] : inbox'[s][i].seq = Taken(s)' + i
    BY <1>10, <1>11 DEF Taken
  <2>2. ASSUME NEW r \in Streams \ {s}
        PROVE  \A i \in DOMAIN inbox'[r] : inbox'[r][i].seq = Taken(r)' + i
    BY <1>8, <1>11 DEF InboxInOrder
  <2>. QED
    BY <2>1, <2>2 DEF InboxInOrder
<1>13. Counting'
  BY <1>1, <1>8, <1>11 DEF Counting, Handling
<1>. QED
  BY <1>12, <1>13

\* OnReadDone takes the message whose number index_name_ was waiting for.
LEMMA ReadCounts ==
  ASSUME CountersOK, InboxInOrder, Counting, NEW s \in Streams, OnReadDone(s)
  PROVE  InboxInOrder' /\ Counting'
<1>1. /\ UNCHANGED <<index_name_, sent>>
      /\ reactor[s] = "reading" /\ inbox[s] # <<>>
      /\ inbox' = [inbox EXCEPT ![s] = Tail(@)]
      /\ frame_' = [frame_ EXCEPT ![s] = Head(inbox[s]).seq]
  BY DEF OnReadDone, clientVars
<1>2. /\ reactor'[s] \in Handling
      /\ \A r \in Streams \ {s} : reactor'[r] = reactor[r]
  BY DEF OnReadDone, Goto, Failed, Handling, CountersOK
<1>3. sent[s] \in Nat /\ inbox[s] \in Seq(Message)
  BY CallBackAssumption DEF CountersOK
<1>4. /\ inbox'[s] = Tail(inbox[s]) /\ frame_'[s] = Head(inbox[s]).seq
      /\ \A r \in Streams \ {s} : inbox'[r] = inbox[r] /\ frame_'[r] = frame_[r]
  BY <1>1 DEF CountersOK
<1>5. \A i \in DOMAIN inbox[s] : inbox[s][i].seq = sent[s] - Len(inbox[s]) + i
  BY DEF InboxInOrder, Taken
<1>6. /\ frame_'[s] = sent[s] - Len(inbox[s]) + 1
      /\ sent[s] - Len(inbox'[s]) = sent[s] - Len(inbox[s]) + 1
      /\ \A i \in DOMAIN inbox'[s] : inbox'[s][i].seq = sent[s] - Len(inbox'[s]) + i
  <2>1. /\ Head(inbox[s]).seq = sent[s] - Len(inbox[s]) + 1
        /\ sent[s] - Len(Tail(inbox[s])) = sent[s] - Len(inbox[s]) + 1
        /\ \A i \in DOMAIN Tail(inbox[s]) :
             Tail(inbox[s])[i].seq = sent[s] - Len(Tail(inbox[s])) + i
    BY <1>1, <1>3, <1>5, ReadOne
  <2>. QED
    BY <1>4, <2>1
<1>7. /\ Taken(s)' = Taken(s) + 1 /\ frame_'[s] = Taken(s) + 1
      /\ \A r \in Streams \ {s} : Taken(r)' = Taken(r)
  BY <1>1, <1>4, <1>6 DEF Taken
<1>. QED
  <2>1. InboxInOrder'
    BY <1>1, <1>4, <1>6, <1>7 DEF InboxInOrder, Taken
  <2>2. Counting'
    BY <1>1, <1>2, <1>4, <1>7 DEF Counting, Handling
  <2>. QED
    BY <2>1, <2>2

\* The next read: the index moves on to the first message in the inbox.
LEMMA NextCounts ==
  ASSUME CountersOK, InboxInOrder, Counting, NEW s \in Streams, NextRead(s)
  PROVE  InboxInOrder' /\ Counting'
<1>1. /\ UNCHANGED <<sent, inbox>>
      /\ reactor[s] = "next" /\ reactor' = [reactor EXCEPT ![s] = "reading"]
      /\ index_name_' = [index_name_ EXCEPT ![s] = @ + 1]
      /\ frame_' = [frame_ EXCEPT ![s] = 0]
  BY DEF NextRead, Goto, clientVars
<1>2. /\ reactor'[s] = "reading" /\ index_name_'[s] = index_name_[s] + 1
      /\ \A r \in Streams \ {s} : /\ reactor'[r] = reactor[r]
                                  /\ index_name_'[r] = index_name_[r]
                                  /\ frame_'[r] = frame_[r]
  BY <1>1 DEF CountersOK
<1>3. \A r \in Streams : Taken(r)' = Taken(r)
  BY <1>1 DEF Taken
<1>4. InboxInOrder'
  BY <1>1, <1>3 DEF InboxInOrder
<1>5. Counting'
  BY <1>1, <1>2, <1>3 DEF Counting, Handling
<1>. QED
  BY <1>4, <1>5

\* When the server is gone, or the call has failed, the inbox is dropped.
LEMMA DropCounts ==
  ASSUME CountersOK, InboxInOrder, Counting,
         Crash \/ \E s \in Streams : OnReadFailed(s)
  PROVE  InboxInOrder' /\ Counting'
<1>1. UNCHANGED <<index_name_, sent>>
  BY DEF Crash, OnReadFailed, clientVars
<1>2. \A r \in Streams :
        \/ inbox'[r] = inbox[r] /\ reactor'[r] = reactor[r] /\ frame_'[r] = frame_[r]
        \/ inbox'[r] = <<>> /\ reactor'[r] \in {"lost", "finishing"}
        \/ inbox'[r] = <<>> /\ reactor'[r] = "none" /\ reactor[r] = "none"
  <2>1. CASE Crash
    BY <2>1 DEF Crash
  <2>2. ASSUME NEW s \in Streams, OnReadFailed(s)
        PROVE  \A r \in Streams :
                 \/ inbox'[r] = inbox[r] /\ reactor'[r] = reactor[r] /\ frame_'[r] = frame_[r]
                 \/ inbox'[r] = <<>> /\ reactor'[r] = "finishing"
    BY <2>2 DEF OnReadFailed, Goto, CountersOK
  <2>. QED
    BY <2>1, <2>2
<1>3. InboxInOrder'
  BY <1>1, <1>2 DEF InboxInOrder, Taken
<1>4. Counting'
  <2>. SUFFICES ASSUME NEW r \in Streams
                PROVE  /\ reactor'[r] \in {"none", "reading"} => index_name_'[r] = Taken(r)' + 1
                       /\ reactor'[r] = "none" => inbox'[r] = <<>>
                       /\ reactor'[r] \in Handling =>
                            index_name_'[r] = Taken(r)' /\ frame_'[r] = Taken(r)'
    BY DEF Counting, Handling
  <2>1. CASE inbox'[r] = inbox[r] /\ reactor'[r] = reactor[r] /\ frame_'[r] = frame_[r]
    BY <1>1, <2>1 DEF Counting, Taken
  <2>2. CASE inbox'[r] = <<>> /\ reactor'[r] \in {"lost", "finishing"}
    BY <2>2 DEF Handling
  <2>3. CASE inbox'[r] = <<>> /\ reactor'[r] = "none" /\ reactor[r] = "none"
    BY <1>1, <2>3 DEF Counting, Taken, Handling
  <2>. QED
    BY <1>2, <2>1, <2>2, <2>3
<1>. QED
  BY <1>3, <1>4

\* A file is written under the number of the message in hand, in the directory of
\* the pi it comes from.
LEMMA SaveKeepsFiles ==
  ASSUME CountersOK, Counting, FileIsNthFrame, NEW s \in Streams, reactor[s] \in Handling,
         NEW written, Save(s, written)
  PROVE  FileIsNthFrame'
<1>1. index_name_[s] = frame_[s]
  BY DEF Counting
<1>. SUFFICES ASSUME NEW n \in Names, NEW f \in mp4'[n]
              PROVE  f.num = f.content.seq /\ NameOf[f.content.stream] = n
  BY DEF FileIsNthFrame
<1>2. CASE f \in mp4[n]
  BY <1>2 DEF FileIsNthFrame
<1>3. CASE f \notin mp4[n]
  <2>. DEFINE v == [stream |-> s, seq |-> frame_[s], written |-> written]
  <2>1. n = Dir(s) /\ f = [num |-> index_name_[s], content |-> v]
    BY <1>3 DEF Save, Put, CountersOK
  <2>. QED
    BY <1>1, <2>1 DEF Dir
<1>. QED
  BY <1>2, <1>3

\* So it stays when a message is saved, or its file emptied.
LEMMA WriteKeepsFiles ==
  ASSUME CountersOK, Counting, FileIsNthFrame,
         NEW s \in Streams, OpenFile(s) \/ WriteMsgToFile(s)
  PROVE  FileIsNthFrame'
<1>1. CASE UNCHANGED mp4
  BY <1>1, FilesKept
<1>2. CASE Save(s, FALSE) \/ Save(s, TRUE)
  <2>1. reactor[s] \in Handling
    BY DEF OpenFile, WriteMsgToFile, Goto, Handling
  <2>. QED
    BY <1>2, <2>1, SaveKeepsFiles
<1>. QED
  BY <1>1, <1>2 DEF OpenFile, WriteMsgToFile

\* Every step keeps the invariant.
LEMMA IInvStep == IInv /\ [Next]_vars => IInv'
<1>. SUFFICES ASSUME CountersOK, InboxInOrder, Counting, FileIsNthFrame, [Next]_vars
              PROVE  InboxInOrder' /\ Counting' /\ FileIsNthFrame'
  BY CountersStep DEF IInv
<1>1. ASSUME NEW s \in Streams, StreamVideo(s)
      PROVE  InboxInOrder' /\ Counting' /\ FileIsNthFrame'
  <2>1. UNCHANGED <<index_name_, sent, inbox, frame_, mp4>>
    BY <1>1 DEF StreamVideo, clientVars, diskVars
  <2>2. \A r \in Streams :
          reactor'[r] = reactor[r] \/ (reactor[r] = "none" /\ reactor'[r] = "reading")
    BY <1>1 DEF StreamVideo, CountersOK
  <2>. QED
    BY <2>1, <2>2, CountingKept, FilesKept
<1>2. ASSUME NEW s \in Streams, Send(s)
      PROVE  InboxInOrder' /\ Counting' /\ FileIsNthFrame'
  <2>1. UNCHANGED mp4
    BY <1>2 DEF Send, diskVars
  <2>. QED
    BY <1>2, <2>1, SendCounts, FilesKept
<1>3. ASSUME NEW s \in Streams, EndStream(s)
      PROVE  InboxInOrder' /\ Counting' /\ FileIsNthFrame'
  <2>1. UNCHANGED <<reactor, index_name_, sent, inbox, frame_, mp4>>
    BY <1>3 DEF EndStream, diskVars
  <2>. QED
    BY <2>1, CountingKept, FilesKept
<1>4. ASSUME NEW s \in Streams, OnReadDone(s)
      PROVE  InboxInOrder' /\ Counting' /\ FileIsNthFrame'
  <2>1. UNCHANGED mp4
    BY <1>4 DEF OnReadDone
  <2>. QED
    BY <1>4, <2>1, ReadCounts, FilesKept
<1>5. CASE Crash \/ \E s \in Streams : OnReadFailed(s)
  <2>1. UNCHANGED mp4
    BY <1>5 DEF Crash, OnReadFailed, diskVars
  <2>. QED
    BY <1>5, <2>1, DropCounts, FilesKept
<1>6. ASSUME NEW s \in Streams, OpenFile(s) \/ WriteMsgToFile(s)
      PROVE  InboxInOrder' /\ Counting' /\ FileIsNthFrame'
  <2>1. UNCHANGED <<index_name_, sent, inbox, frame_>>
    BY <1>6 DEF OpenFile, WriteMsgToFile, clientVars
  <2>2. \A r \in Streams :
          reactor'[r] = reactor[r] \/ (reactor[r] \in Handling /\ reactor'[r] \in Handling)
    BY <1>6 DEF OpenFile, WriteMsgToFile, Goto, Failed, Handling, CountersOK
  <2>3. InboxInOrder' /\ Counting'
    BY <2>1, <2>2, CountingKept
  <2>. QED
    BY <1>6, <2>3, WriteKeepsFiles
<1>7. ASSUME NEW s \in Streams, NextRead(s)
      PROVE  InboxInOrder' /\ Counting' /\ FileIsNthFrame'
  <2>1. UNCHANGED mp4
    BY <1>7 DEF NextRead, diskVars
  <2>. QED
    BY <1>7, <2>1, NextCounts, FilesKept
<1>8. ASSUME NEW s \in Streams, OnDone(s)
      PROVE  InboxInOrder' /\ Counting' /\ FileIsNthFrame'
  <2>1. UNCHANGED <<index_name_, sent, inbox, frame_, mp4>>
    BY <1>8 DEF OnDone, clientVars, diskVars
  <2>2. \A r \in Streams : reactor'[r] = reactor[r] \/ reactor'[r] = "deleted"
    BY <1>8 DEF OnDone, Goto, CountersOK
  <2>. QED
    BY <2>1, <2>2, CountingKept, FilesKept
<1>9. ASSUME NEW s \in Streams, Ffmpeg(s)
      PROVE  InboxInOrder' /\ Counting' /\ FileIsNthFrame'
  <2>1. UNCHANGED <<index_name_, sent, inbox, frame_, mp4>>
    BY <1>9 DEF Ffmpeg, FfmpegOpen, FfmpegCut, FfmpegPublish, FfmpegFails, clientVars, diskVars
  <2>2. UNCHANGED reactor \/ Exit(s)
    BY <1>9 DEF Ffmpeg, FfmpegOpen, FfmpegCut, FfmpegPublish, FfmpegFails
  <2>3. \A r \in Streams :
          reactor'[r] = reactor[r] \/ (reactor[r] \in Handling /\ reactor'[r] \in Handling)
    BY <2>2 DEF Exit, Handling, CountersOK
  <2>. QED
    BY <2>1, <2>3, CountingKept, FilesKept
<1>10. CASE Restart \/ UNCHANGED vars
  <2>1. UNCHANGED <<reactor, index_name_, sent, inbox, frame_, mp4>>
    BY <1>10 DEF Restart, vars, clientVars, diskVars
  <2>. QED
    BY <2>1, CountingKept, FilesKept
<1>. QED
  BY <1>1, <1>2, <1>3, <1>4, <1>5, <1>6, <1>7, <1>8, <1>9, <1>10
     DEF Next, Reactor, OnReadNull, ServerDies

\* File k of a pi holds the k-th message of one of its streams, at all times.
THEOREM FilesAreNthFrames == Spec => []FileIsNthFrame
<1>1. IInv => FileIsNthFrame
  BY DEF IInv
<1>. QED
  BY IInvInit, IInvStep, <1>1, PTL DEF Spec

-----------------------------------------------------------------------------
(***************************************************************************)
(* What the disk and the ffmpeg processes hold.                            *)
(*                                                                         *)
(* That a playlist is in order, that its segments are there and play what  *)
(* they were listed for cannot be seen from the disk alone: it depends on  *)
(* what the process that will publish next has in memory, how far the      *)
(* stream that started it has got, and which entries it may still delete.  *)
(* Shared says what holds whoever shares a name, Ordering what holds while *)
(* a pi has one stream at a time. With Pending, what a process has cut     *)
(* and not listed, its files then are those of Hls.                        *)
(***************************************************************************)

\* The rest of TypeOK
DiskOK ==
  /\ alive \in BOOLEAN
  /\ ended \in [Streams -> BOOLEAN]
  /\ dirs \in SUBSET Names
  /\ playlist \in [Names -> Seq(Segment)]
  /\ ts \in [Names -> SUBSET Segment]
  /\ ffmpeg \in [Streams -> SUBSET Process]

\* A process lists only videos of the pi whose directory it works in.
ListOf(list, n) == \A i \in DOMAIN list : NameOf[list[i].content.video.stream] = n

Sources ==
  /\ \A s \in Streams : \A p \in ffmpeg[s] : ListOf(p.list, NameOf[s])
  /\ \A n \in Names :
       /\ ListOf(playlist[n], n)
       /\ \A e \in ts[n] : NameOf[e.content.video.stream] = n

\* The predicates of PlaylistInOrder, SegmentOnDisk and PlaylistPlays, of a list
\* and the files of a directory
Window(list) ==
  /\ Len(list) <= ListSize
  /\ \A i \in DOMAIN list : list[i].num = list[1].num + i - 1

Earlier(u, v) ==
  u.video.stream = v.video.stream =>
    \/ u.video.seq < v.video.seq
    \/ u.video.seq = v.video.seq /\ u.part < v.part

Ordered(list) ==
  \A i, j \in DOMAIN list : i < j => Earlier(list[i].content, list[j].content)

OnDisk(list, files) ==
  \A i \in DOMAIN list : \E f \in files : f.num = list[i].num

Plays(list, files) ==
  \A i \in DOMAIN list : \A f \in files :
    f.num = list[i].num => f.content = list[i].content \/ f.content.video.seq = 1

\* Playlists and the lists of processes are windows on a run of numbers.
Windows ==
  /\ \A n \in Names : Window(playlist[n])
  /\ \A s \in Streams : \A p \in ffmpeg[s] : Window(p.list)

\* A process has at most its newest dropped entry still to delete, the one before
\* its list, and a stream at most one process, which its reactor waits for or died on.
Waits ==
  \A s \in Streams :
    /\ ffmpeg[s] # {} => reactor[s] \in {"publishing", "lost"}
    /\ \A p, q \in ffmpeg[s] : p = q
    /\ \A p \in ffmpeg[s] :
         /\ p.step = "open" => p = Started
         /\ Len(p.old) <= 1
         /\ p.old # <<>> => p.list # <<>> /\ p.old[1].num < p.list[1].num

\* A stream that has a reactor at work or a process
Busy(s) == reactor[s] \notin {"none"} \cup Over \/ ffmpeg[s] # {}

Alone ==
  \A s, t \in Streams : s # t /\ NameOf[s] = NameOf[t] => ~(Busy(s) /\ Busy(t))

\* The file a process reads holds the video its stream has saved, whole.
Current(s) == [stream |-> s, seq |-> index_name_[s], written |-> TRUE]
Inputs == \A s \in Streams : ffmpeg[s] # {} => Read(s) = {Current(s)}

\* Between two segments a process has published its list, except the first one.
Published ==
  \A s \in Streams : \A p \in ffmpeg[s] :
    p.step = "cut" => \/ p.list = playlist[Dir(s)]
                      \/ index_name_[s] = 1 /\ p.list = <<>> /\ p.old = <<>>

\* A reactor in these has not handed the video of its index to ffmpeg.
Unsaved == {"none", "reading", "saving", "emptying", "writing"}

\* Entries of a stream in a list are of videos the stream has saved.
Saved(list) ==
  \A i \in DOMAIN list :
    LET v == list[i].content.video IN
    /\ v.seq <= index_name_[v.stream]
    /\ reactor[v.stream] \in Unsaved => v.seq < index_name_[v.stream]

\* Entries of stream s are of parts before part k of its video in hand.
Before(list, s, k) ==
  \A i \in DOMAIN list :
    Earlier(list[i].content, [video |-> [stream |-> s, seq |-> index_name_[s]], part |-> k])

Progress ==
  /\ \A n \in Names : Saved(playlist[n]) /\ Ordered(playlist[n])
  /\ \A s \in Streams : \A p \in ffmpeg[s] :
       /\ Saved(p.list) /\ Ordered(p.list)
       /\ p.step = "open" => Before(playlist[Dir(s)], s, 1)
       /\ p.step = "cut" => Before(p.list, s, p.part)
       /\ p.step = "publish" => Before(p.list, s, p.part + 1)

Kept ==
  /\ \A n \in Names : OnDisk(playlist[n], ts[n]) /\ Plays(playlist[n], ts[n])
  /\ \A s \in Streams : \A p \in ffmpeg[s] :
       OnDisk(p.list, ts[Dir(s)]) /\ Plays(p.list, ts[Dir(s)])


\* The list of a process after it has cut a segment: the new entry is last, and
\* the first has gone if the list was full.
LEMMA ListAfterCut ==
  ASSUME NEW l \in Seq(Segment), NEW e \in Segment, Len(l) <= ListSize,
         NEW r, r = Trim(Append(l, e))
  PROVE  \E d \in {0, 1} :
           /\ d = 1 <=> Len(l) = ListSize
           /\ r \in Seq(Segment) /\ Len(r) = Len(l) + 1 - d
           /\ Dropped(Append(l, e)) = IF d = 1 THEN <<l[1]>> ELSE <<>>
           /\ \A i \in 1 .. Len(l) - d : r[i] = l[i + d]
           /\ r[Len(r)] = e
           /\ Len(r) >= 1 /\ Len(r) <= ListSize
<1>. DEFINE a == Append(l, e)
<1>1. /\ a \in Seq(Segment) /\ Len(l) \in Nat /\ Len(a) = Len(l) + 1
      /\ \A i \in 1 .. Len(l) : a[i] = l[i]
      /\ a[Len(l) + 1] = e
  BY AppendProperties, LenProperties
<1>2. ListSize \in Nat /\ ListSize > 0
  BY CallBackAssumption
<1>3. CASE Len(l) = ListSize
  <2>1. Len(a) > ListSize
    BY <1>1, <1>2, <1>3
  <2>2. r = Tail(a) /\ Dropped(a) = <<Head(a)>>
    BY <2>1 DEF Trim, Dropped
  <2>3. a # <<>>
    BY <1>1
  <2>. HIDE DEF a
  <2>4. /\ Tail(a) \in Seq(Segment) /\ Len(Tail(a)) = Len(a) - 1
        /\ \A i \in 1 .. Len(Tail(a)) : Tail(a)[i] = a[i + 1]
        /\ Head(a) = a[1]
    BY <1>1, <2>3, HeadTailProperties
  <2>5. r[Len(r)] = e /\ \A i \in 1 .. Len(l) - 1 : r[i] = l[i + 1]
    BY <1>1, <1>2, <1>3, <2>2, <2>4
  <2>6. Head(a) = l[1]
    BY <1>1, <1>2, <1>3, <2>4
  <2>7. r \in Seq(Segment) /\ Len(r) = Len(l) + 1 - 1 /\ Len(r) >= 1 /\ Len(r) <= ListSize
    BY <1>1, <1>2, <1>3, <2>2, <2>4
  <2>. QED
    BY <1>3, <2>2, <2>5, <2>6, <2>7 DEF a
<1>4. CASE Len(l) # ListSize
  <2>1. ~ (Len(a) > ListSize)
    BY <1>1, <1>2, <1>4
  <2>2. r = a /\ Dropped(a) = <<>>
    BY <2>1 DEF Trim, Dropped
  <2>. HIDE DEF a
  <2>3. \A i \in 1 .. Len(l) - 0 : r[i] = l[i + 0]
    BY <1>1, <2>2
  <2>4. r \in Seq(Segment) /\ Len(r) = Len(l) + 1 - 0 /\ r[Len(r)] = e
        /\ Len(r) >= 1 /\ Len(r) <= ListSize
    BY <1>1, <1>2, <1>4, <2>2
  <2>. QED
    BY <1>4, <2>2, <2>3, <2>4 DEF a
<1>. QED
  BY <1>3, <1>4

\* The number of the next segment follows the last one of the list.
LEMMA NextNumIsNat ==
  ASSUME NEW l \in Seq(Segment)
  PROVE  /\ NextNum(l) \in Nat
         /\ l = <<>> => NextNum(l) = 0
         /\ l # <<>> => Len(l) >= 1 /\ l[Len(l)] \in Segment /\ NextNum(l) = l[Len(l)].num + 1
<1>1. CASE l = <<>>
  BY <1>1 DEF NextNum
<1>2. CASE l # <<>>
  <2>1. Len(l) \in Nat /\ Len(l) >= 1 /\ l[Len(l)] \in Segment
    BY <1>2, EmptySeq, LenProperties, ElementOfSeq
  <2>2. l[Len(l)].num \in Nat
    <3>. DEFINE x == l[Len(l)]
    <3>1. x \in Segment
      BY <2>1
    <3>. HIDE DEF x
    <3>2. x.num \in Nat
      BY <3>1 DEF Segment
    <3>. QED
      BY <3>2 DEF x
  <2>. QED
    BY <1>2, <2>1, <2>2 DEF NextNum, Last
<1>. QED
  BY <1>1, <1>2
-----------------------------------------------------------------------------

\* What a process p with input v cuts, and what it becomes by it.
Entry(p, v)  == [num |-> NextNum(p.list), content |-> [video |-> v, part |-> p.part]]
AllOld(p, v) == p.old \o Dropped(Append(p.list, Entry(p, v)))
Keep(p, v)   == IF Len(AllOld(p, v)) > hls_delete_threshold
                THEN Len(AllOld(p, v)) - hls_delete_threshold ELSE 0
Gone(p, v)   == {AllOld(p, v)[i].num : i \in 1 .. Keep(p, v)}
AfterCut(p, v) ==
  [p EXCEPT !.step = "publish", !.list = Trim(Append(p.list, Entry(p, v))),
            !.old = SubSeq(AllOld(p, v), Keep(p, v) + 1, Len(AllOld(p, v)))]
FilesAfterCut(p, v, files) ==
  {f \in Put(files, NextNum(p.list), Entry(p, v).content) : f.num \notin Gone(p, v)}

\* What a process reads are videos, of its pi and of its index.
LEMMA ReadIs ==
  ASSUME CountersOK, NEW s \in Streams, NEW v \in Read(s)
  PROVE  v \in Video /\ (FileIsNthFrame => v.seq = index_name_[s] /\ NameOf[v.stream] = NameOf[s])
<1>1. Dir(s) = NameOf[s] /\ Dir(s) \in Names
  BY CallBackAssumption DEF Dir
<1>2. PICK f \in mp4[Dir(s)] : f.num = index_name_[s] /\ f.content = v
  BY DEF Read, InputIndex
<1>3. v \in Video
  <2>1. f \in Mp4
    BY <1>1 DEF CountersOK
  <2>. QED
    BY <1>2, <2>1 DEF Mp4
<1>. QED
  BY <1>1, <1>2, <1>3 DEF FileIsNthFrame

\* While Inputs holds, it is the video in hand.
LEMMA InputIs ==
  ASSUME Inputs, NEW s \in Streams, NEW p \in ffmpeg[s], NEW v \in Read(s)
  PROVE  v.stream = s /\ v.seq = index_name_[s]
  BY DEF Inputs, Current

\* FfmpegCut in these terms.
LEMMA CutIs ==
  ASSUME NEW s \in Streams, FfmpegCut(s)
  PROVE  /\ UNCHANGED <<alive, reactor, index_name_, clientVars, inbox, frame_,
                        dirs, mp4, playlist>>
         /\ \E p \in ffmpeg[s] : \E v \in Read(s) :
              /\ p.step = "cut"
              /\ ts' = [ts EXCEPT ![Dir(s)] = FilesAfterCut(p, v, @)]
              /\ ffmpeg' = [ffmpeg EXCEPT ![s] = {AfterCut(p, v)}]
  BY DEF FfmpegCut, Entry, AllOld, Keep, Gone, AfterCut, FilesAfterCut

\* The steps of a process keep it, its list and its segments well formed.
LEMMA ProcessTypes ==
  ASSUME NEW p \in Process
  PROVE  /\ p.step \in {"open", "cut", "publish"}
         /\ p.part \in 1 .. MaxParts /\ p.list \in Seq(Segment) /\ p.old \in Seq(Segment)
  BY DEF Process

\* What the forked ffmpeg starts with is a process.
LEMMA StartedType == Started \in Process
  BY CallBackAssumption DEF Started, Process

\* The entry made of a cut is an entry of a playlist.
LEMMA EntryType ==
  ASSUME NEW p \in Process, NEW v \in Video
  PROVE  /\ Entry(p, v) \in Segment
         /\ Entry(p, v).num = NextNum(p.list) /\ NextNum(p.list) \in Nat
         /\ Entry(p, v).content = [video |-> v, part |-> p.part]
         /\ Entry(p, v).content \in Part
<1>1. NextNum(p.list) \in Nat
  BY ProcessTypes, NextNumIsNat
<1>. QED
  BY <1>1, ProcessTypes DEF Entry, Segment, Part

\* What -hls_list_size drops from a list leaves a list.
LEMMA DroppedType ==
  ASSUME NEW l \in Seq(Segment)
  PROVE  Dropped(l) \in Seq(Segment) /\ Trim(l) \in Seq(Segment)
<1>1. CASE Len(l) > ListSize
  <2>1. l # <<>>
    BY <1>1, CallBackAssumption, EmptySeq
  <2>2. Head(l) \in Segment /\ Tail(l) \in Seq(Segment)
    BY <2>1, HeadTailProperties
  <2>. QED
    BY <1>1, <2>2 DEF Dropped, Trim
<1>2. CASE ~ (Len(l) > ListSize)
  BY <1>2 DEF Dropped, Trim
<1>. QED
  BY <1>1, <1>2

\* A process that has cut a segment is a process.
LEMMA AfterCutType ==
  ASSUME NEW p \in Process, NEW v \in Video
  PROVE  AfterCut(p, v) \in Process
<1>1. Append(p.list, Entry(p, v)) \in Seq(Segment)
  BY ProcessTypes, EntryType, AppendProperties
<1>2. AllOld(p, v) \in Seq(Segment)
  BY <1>1, DroppedType, ProcessTypes, ConcatProperties DEF AllOld
<1>3. SubSeq(AllOld(p, v), Keep(p, v) + 1, Len(AllOld(p, v))) \in Seq(Segment)
  <2>. DEFINE o == AllOld(p, v)
              k == Keep(p, v)
  <2>1. o \in Seq(Segment) /\ Len(o) \in Nat /\ k \in Nat
    BY <1>2, LenProperties DEF Keep, hls_delete_threshold
  <2>. HIDE DEF o, k
  <2>2. \A i \in k + 1 .. Len(o) : o[i] \in Segment
    BY <2>1, ElementOfSeq
  <2>3. SubSeq(o, k + 1, Len(o)) \in Seq(Segment)
    BY <2>1, <2>2, SubSeqProperties
  <2>. QED
    BY <2>3 DEF o, k
<1>4. Trim(Append(p.list, Entry(p, v))) \in Seq(Segment)
  BY <1>1, DroppedType
<1>. DEFINE a == Trim(Append(p.list, Entry(p, v)))
            b == SubSeq(AllOld(p, v), Keep(p, v) + 1, Len(AllOld(p, v)))
<1>5. AfterCut(p, v) = [p EXCEPT !.step = "publish", !.list = a, !.old = b]
  BY DEF AfterCut
<1>6. a \in Seq(Segment) /\ b \in Seq(Segment)
  BY <1>3, <1>4
<1>. HIDE DEF a, b
<1>. QED
  BY <1>5, <1>6 DEF Process

\* So is one that goes on to its next segment.
LEMMA NextPartType ==
  ASSUME NEW p \in Process, p.part < MaxParts
  PROVE  [p EXCEPT !.step = "cut", !.part = @ + 1] \in Process
<1>1. p.part \in 1 .. MaxParts /\ MaxParts \in Nat
  BY ProcessTypes, CallBackAssumption
<1>2. p.part + 1 \in 1 .. MaxParts
  BY <1>1
<1>. DEFINE k == p.part + 1
<1>3. [p EXCEPT !.step = "cut", !.part = @ + 1] = [p EXCEPT !.step = "cut", !.part = k]
  BY DEF Process
<1>4. k \in 1 .. MaxParts
  BY <1>2
<1>. HIDE DEF k
<1>5. [p EXCEPT !.step = "cut", !.part = k] \in Process
  BY <1>4 DEF Process
<1>. QED
  BY <1>3, <1>5

\* The segment files are files after a cut.
LEMMA FilesAfterCutType ==
  ASSUME NEW p \in Process, NEW v \in Video, NEW files \in SUBSET Segment
  PROVE  FilesAfterCut(p, v, files) \in SUBSET Segment
<1>1. [num |-> NextNum(p.list), content |-> Entry(p, v).content] \in Segment
  BY EntryType DEF Segment
<1>. QED
  BY <1>1 DEF FilesAfterCut, Put

\* The rest of the types is kept by every step.
LEMMA DiskStep == CountersOK /\ DiskOK /\ [Next]_vars => DiskOK'
<1>. SUFFICES ASSUME CountersOK, DiskOK, [Next]_vars PROVE DiskOK'
  OBVIOUS
<1>. USE DEF DiskOK
<1>1. ASSUME NEW s \in Streams, StreamVideo(s) \/ Send(s) \/ NextRead(s)
                                \/ OnReadFailed(s) \/ OnDone(s)
      PROVE  DiskOK'
  BY <1>1 DEF StreamVideo, Send, NextRead, OnReadFailed, OnDone, clientVars, diskVars
<1>2. ASSUME NEW s \in Streams, EndStream(s) PROVE DiskOK'
  BY <1>2 DEF EndStream, diskVars
<1>3. ASSUME NEW s \in Streams, OnReadDone(s) PROVE DiskOK'
  <2>1. Dir(s) \in Names
    BY CallBackAssumption DEF Dir
  <2>. QED
    BY <1>3, <2>1 DEF OnReadDone, clientVars
<1>4. CASE Crash \/ Restart
  BY <1>4 DEF Crash, Restart, clientVars, diskVars
<1>5. ASSUME NEW s \in Streams, OpenFile(s) \/ WriteMsgToFile(s) PROVE DiskOK'
  BY <1>5, StartedType DEF OpenFile, WriteMsgToFile, clientVars
<1>6. ASSUME NEW s \in Streams, FfmpegOpen(s) PROVE DiskOK'
  <2>1. PICK p \in ffmpeg[s] :
          ffmpeg' = [ffmpeg EXCEPT ![s] =
            {[p EXCEPT !.step = "cut", !.list = IF append_list(index_name_[s])
                                                THEN playlist[Dir(s)] ELSE <<>>]}]
    BY <1>6 DEF FfmpegOpen
  <2>. DEFINE l == IF append_list(index_name_[s]) THEN playlist[Dir(s)] ELSE <<>>
              q == [p EXCEPT !.step = "cut", !.list = l]
  <2>2. Dir(s) \in Names
    BY CallBackAssumption DEF Dir
  <2>3. l \in Seq(Segment)
    BY <2>2
  <2>5. p \in Process
    OBVIOUS
  <2>6. q \in Process
    <3>. HIDE DEF l
    <3>. QED
      BY <2>3, <2>5 DEF Process
  <2>7. ffmpeg' = [ffmpeg EXCEPT ![s] = {q}]
    BY <2>1
  <2>8. UNCHANGED <<alive, ended, dirs, playlist, ts>>
    BY <1>6 DEF FfmpegOpen, clientVars, diskVars
  <2>. HIDE DEF q
  <2>. QED
    BY <2>6, <2>7, <2>8
<1>7. ASSUME NEW s \in Streams, FfmpegCut(s) PROVE DiskOK'
  <2>1. PICK p \in ffmpeg[s], v \in Read(s) :
          /\ ts' = [ts EXCEPT ![Dir(s)] = FilesAfterCut(p, v, @)]
          /\ ffmpeg' = [ffmpeg EXCEPT ![s] = {AfterCut(p, v)}]
    BY <1>7, CutIs
  <2>2. Dir(s) \in Names
    BY CallBackAssumption DEF Dir
  <2>3. p \in Process /\ v \in Video
    BY ReadIs
  <2>4. AfterCut(p, v) \in Process /\ FilesAfterCut(p, v, ts[Dir(s)]) \in SUBSET Segment
    BY <2>2, <2>3, AfterCutType, FilesAfterCutType
  <2>5. UNCHANGED <<alive, ended, dirs, playlist>>
    BY <1>7, CutIs DEF clientVars
  <2>. QED
    BY <2>1, <2>2, <2>4, <2>5
<1>8. ASSUME NEW s \in Streams, FfmpegPublish(s) PROVE DiskOK'
  <2>1. PICK p \in ffmpeg[s] :
          /\ playlist' = [playlist EXCEPT ![Dir(s)] = p.list]
          /\ \/ /\ p.part < MaxParts
                /\ ffmpeg' = [ffmpeg EXCEPT ![s] = {[p EXCEPT !.step = "cut", !.part = @ + 1]}]
             \/ ffmpeg' = [ffmpeg EXCEPT ![s] = {}]
    BY <1>8 DEF FfmpegPublish, Exit
  <2>2. p \in Process /\ p.list \in Seq(Segment)
    BY ProcessTypes
  <2>3. p.part < MaxParts => [p EXCEPT !.step = "cut", !.part = @ + 1] \in Process
    BY <2>2, NextPartType
  <2>4. UNCHANGED <<alive, ended, dirs, ts>>
    BY <1>8 DEF FfmpegPublish, clientVars
  <2>5. ffmpeg' \in [Streams -> SUBSET Process]
    BY <2>1, <2>3
  <2>. QED
    BY <2>1, <2>2, <2>4, <2>5
<1>9. ASSUME NEW s \in Streams, FfmpegFails(s) PROVE DiskOK'
  BY <1>9 DEF FfmpegFails, Exit, clientVars, diskVars
<1>10. CASE UNCHANGED vars
  BY <1>10 DEF vars, clientVars, diskVars
<1>. QED
  BY <1>1, <1>2, <1>3, <1>4, <1>5, <1>6, <1>7, <1>8, <1>9, <1>10
     DEF Next, Reactor, OnReadNull, ServerDies, Ffmpeg

\* The disk and the processes are well formed at the start.
LEMMA DiskInit == Init => DiskOK
  BY DEF Init, DiskOK

\* Every variable keeps its type, and with it: an index is never 0, a file is
\* written only with a message in hand, a process never cuts more than MaxParts parts.
THEOREM TypesAreKept == Spec => []TypeOK
<1>1. Init => IInv /\ DiskOK
  BY IInvInit, DiskInit
<1>2. IInv /\ DiskOK /\ [Next]_vars => (IInv /\ DiskOK)'
  BY IInvStep, DiskStep DEF IInv
<1>3. IInv /\ DiskOK => TypeOK
  BY DEF IInv, CountersOK, DiskOK, TypeOK
<1>. QED
  BY <1>1, <1>2, <1>3, PTL DEF Spec

-----------------------------------------------------------------------------

\* The entries of a list, one by one.
LEMMA SegmentsOfList ==
  ASSUME NEW l \in Seq(Segment)
  PROVE  /\ Len(l) \in Nat /\ DOMAIN l = 1 .. Len(l)
         /\ l # <<>> <=> Len(l) >= 1
         /\ \A i \in 1 .. Len(l) : /\ l[i] \in Segment /\ l[i].num \in Nat
                                   /\ l[i].content \in Part
<1>1. Len(l) \in Nat /\ DOMAIN l = 1 .. Len(l)
  BY LenProperties
<1>2. l # <<>> <=> Len(l) >= 1
  BY <1>1, EmptySeq
<1>3. ASSUME NEW i \in 1 .. Len(l)
      PROVE  l[i] \in Segment /\ l[i].num \in Nat /\ l[i].content \in Part
  <2>. DEFINE x == l[i]
  <2>1. x \in Segment
    BY ElementOfSeq
  <2>. HIDE DEF x
  <2>2. x.num \in Nat /\ x.content \in Part
    BY <2>1 DEF Segment
  <2>. QED
    BY <2>1, <2>2 DEF x
<1>. QED
  BY <1>1, <1>2, <1>3

\* The fields of a process that has cut a segment.
LEMMA AfterCutFields ==
  ASSUME NEW p \in Process, NEW v
  PROVE  /\ AfterCut(p, v).step = "publish" /\ AfterCut(p, v).part = p.part
         /\ AfterCut(p, v).list = Trim(Append(p.list, Entry(p, v)))
         /\ AfterCut(p, v).old =
              SubSeq(AllOld(p, v), Keep(p, v) + 1, Len(AllOld(p, v)))
<1>. DEFINE a == Trim(Append(p.list, Entry(p, v)))
            b == SubSeq(AllOld(p, v), Keep(p, v) + 1, Len(AllOld(p, v)))
<1>1. AfterCut(p, v) = [p EXCEPT !.step = "publish", !.list = a, !.old = b]
  BY DEF AfterCut
<1>. HIDE DEF a, b
<1>2. /\ AfterCut(p, v).step = "publish" /\ AfterCut(p, v).part = p.part
      /\ AfterCut(p, v).list = a /\ AfterCut(p, v).old = b
  BY <1>1 DEF Process
<1>. QED
  BY <1>2 DEF a, b

\* The list of a process before and after a cut, entry by entry.
LEMMA ListOfCut ==
  ASSUME NEW p \in Process, NEW v \in Video, Window(p.list)
  PROVE  LET l == p.list
             r == AfterCut(p, v).list
         IN  \E d \in {0, 1} :
               /\ d = 1 <=> Len(l) = ListSize
               /\ r \in Seq(Segment) /\ Len(r) = Len(l) + 1 - d
               /\ Dropped(Append(l, Entry(p, v))) = IF d = 1 THEN <<l[1]>> ELSE <<>>
               /\ \A i \in 1 .. Len(l) - d : r[i] = l[i + d]
               /\ r[Len(r)] = Entry(p, v)
               /\ Len(r) >= 1 /\ Len(r) <= ListSize
<1>1. p.list \in Seq(Segment) /\ Entry(p, v) \in Segment /\ Len(p.list) <= ListSize
  BY ProcessTypes, EntryType DEF Window
<1>2. AfterCut(p, v).list = Trim(Append(p.list, Entry(p, v)))
  BY AfterCutFields
<1>. QED
  BY <1>1, <1>2, ListAfterCut

\* The numbers of a window of at least one entry, and the next one
LEMMA WindowNumbers ==
  ASSUME NEW l \in Seq(Segment), Window(l)
  PROVE  /\ \A i \in 1 .. Len(l) : l[i].num = l[1].num + i - 1
         /\ Len(l) >= 1 => l[1].num \in Nat /\ NextNum(l) = l[1].num + Len(l)
<1>1. \A i \in 1 .. Len(l) : l[i].num = l[1].num + i - 1
  BY SegmentsOfList DEF Window
<1>2. ASSUME Len(l) >= 1 PROVE l[1].num \in Nat /\ NextNum(l) = l[1].num + Len(l)
  <2>1. l # <<>> /\ Len(l) \in Nat /\ l[1].num \in Nat
    BY <1>2, SegmentsOfList
  <2>2. NextNum(l) = l[Len(l)].num + 1
    BY <2>1, NextNumIsNat
  <2>3. l[Len(l)].num = l[1].num + Len(l) - 1
    BY <1>1, <1>2, <2>1
  <2>. QED
    BY <2>1, <2>2, <2>3
<1>. QED
  BY <1>1, <1>2

\* The list a process has after a cut is a window again.
LEMMA WindowAfterCut ==
  ASSUME NEW p \in Process, NEW v \in Video, Window(p.list)
  PROVE  /\ Window(AfterCut(p, v).list)
         /\ Len(p.list) >= 1 =>
              AfterCut(p, v).list[1].num =
                IF Len(p.list) = ListSize THEN p.list[1].num + 1 ELSE p.list[1].num
<1>. DEFINE l == p.list
            r == AfterCut(p, v).list
            e == Entry(p, v)
<1>1. PICK d \in {0, 1} :
        /\ d = 1 <=> Len(l) = ListSize
        /\ r \in Seq(Segment) /\ Len(r) = Len(l) + 1 - d
        /\ \A i \in 1 .. Len(l) - d : r[i] = l[i + d]
        /\ r[Len(r)] = e
        /\ Len(r) >= 1 /\ Len(r) <= ListSize
  BY ListOfCut
<1>2. /\ l \in Seq(Segment) /\ Len(l) \in Nat /\ e.num = NextNum(l) /\ NextNum(l) \in Nat
      /\ ListSize \in Nat \ {0}
  BY ProcessTypes, SegmentsOfList, EntryType, CallBackAssumption
<1>3. /\ \A i \in 1 .. Len(l) : l[i].num = l[1].num + i - 1
      /\ Len(l) >= 1 => l[1].num \in Nat /\ NextNum(l) = l[1].num + Len(l)
  <2>. HIDE DEF l
  <2>. QED
    BY <1>2, WindowNumbers DEF l
<1>4. DOMAIN r = 1 .. Len(r)
  BY <1>1, SegmentsOfList
<1>. HIDE DEF l, r, e
<1>5. CASE Len(l) = 0
  <2>1. Len(r) = 1
    BY <1>1, <1>2, <1>5
  <2>. QED
    BY <1>1, <1>2, <1>4, <1>5, <2>1 DEF Window, l, r, e
<1>6. CASE Len(l) >= 1
  <2>1. r[1].num = l[1].num + d
    <3>1. CASE Len(r) = 1
      <4>1. Len(l) = d
        BY <1>1, <1>2, <3>1
      <4>2. r[1].num = l[1].num + Len(l)
        BY <1>1, <1>2, <1>3, <1>6, <3>1
      <4>. QED
        BY <4>1, <4>2
    <3>2. CASE Len(r) > 1
      <4>1. 1 \in 1 .. Len(l) - d /\ 1 + d \in 1 .. Len(l)
        BY <1>1, <1>2, <3>2
      <4>2. r[1] = l[1 + d] /\ l[1 + d].num = l[1].num + (1 + d) - 1
        BY <1>1, <1>3, <4>1
      <4>3. l[1].num \in Nat
        BY <1>3, <1>6
      <4>4. l[1].num + (1 + d) - 1 = l[1].num + d
        BY <4>3
      <4>. QED
        BY <4>2, <4>4
    <3>. QED
      BY <1>1, <1>2, <3>1, <3>2
  <2>2. ASSUME NEW i \in 1 .. Len(r) PROVE r[i].num = r[1].num + i - 1
    <3>1. CASE i = Len(r)
      <4>1. r[i].num = l[1].num + Len(l) /\ l[1].num \in Nat
        BY <1>1, <1>2, <1>3, <1>6, <3>1
      <4>2. i = Len(l) + 1 - d
        BY <1>1, <3>1
      <4>3. Len(l) \in Int /\ l[1].num \in Int /\ d \in Int
        BY <1>2, <4>1
      <4>4. \A x, y \in Int : x + y = x + d + (y + 1 - d) - 1
        BY <4>3
      <4>5. l[1].num + Len(l) = l[1].num + d + i - 1
        BY <4>2, <4>3, <4>4
      <4>. QED
        BY <2>1, <4>1, <4>5
    <3>2. CASE i < Len(r)
      <4>1. i \in 1 .. Len(l) - d /\ i + d \in 1 .. Len(l)
        BY <1>1, <1>2, <2>2, <3>2
      <4>2. r[i] = l[i + d] /\ l[i + d].num = l[1].num + (i + d) - 1
        BY <1>1, <1>3, <4>1
      <4>3. l[1].num \in Nat /\ i \in Int
        BY <1>3, <1>6, <2>2
      <4>4. l[1].num + (i + d) - 1 = l[1].num + d + i - 1
        BY <4>3
      <4>. QED
        BY <2>1, <4>2, <4>4
    <3>. QED
      BY <1>1, <1>2, <3>1, <3>2
  <2>3. Window(r)
    BY <1>1, <1>4, <2>2 DEF Window
  <2>4. r[1].num = IF Len(l) = ListSize THEN l[1].num + 1 ELSE l[1].num
    BY <1>1, <1>3, <1>6, <2>1
  <2>. QED
    BY <2>3, <2>4 DEF l, r, e
<1>. QED
  BY <1>2, <1>5, <1>6

\* What a process has left to delete after a cut, and what it deletes by it.
LEMMA OldAfterCut ==
  ASSUME NEW p \in Process, NEW v \in Video, Window(p.list), Len(p.old) <= 1,
         p.old # <<>> => p.list # <<>> /\ p.old[1].num < p.list[1].num
  PROVE  /\ Len(AfterCut(p, v).old) <= 1
         /\ AfterCut(p, v).old # <<>> =>
              /\ AfterCut(p, v).list # <<>>
              /\ AfterCut(p, v).old[1].num < AfterCut(p, v).list[1].num
         /\ \A g \in Gone(p, v) : p.old # <<>> /\ g = p.old[1].num
<1>. DEFINE l == p.list
            r == AfterCut(p, v).list
            o == AllOld(p, v)
            n == AfterCut(p, v).old
            x == p.old
            k == Keep(p, v)
<1>1. PICK d \in {0, 1} :
        /\ d = 1 <=> Len(l) = ListSize
        /\ r \in Seq(Segment) /\ Len(r) = Len(l) + 1 - d
        /\ Dropped(Append(l, Entry(p, v))) = IF d = 1 THEN <<l[1]>> ELSE <<>>
        /\ Len(r) >= 1
  BY ListOfCut
<1>2. /\ l \in Seq(Segment) /\ Len(l) \in Nat /\ x \in Seq(Segment) /\ Len(x) \in Nat
      /\ ListSize \in Nat \ {0} /\ r # <<>> /\ (l # <<>> <=> Len(l) >= 1)
  BY <1>1, ProcessTypes, SegmentsOfList, CallBackAssumption
<1>3. /\ n = SubSeq(o, k + 1, Len(o)) /\ k = IF Len(o) > 1 THEN Len(o) - 1 ELSE 0
      /\ Gone(p, v) = {o[i].num : i \in 1 .. k}
  BY AfterCutFields DEF Keep, Gone, hls_delete_threshold
<1>4. o = x \o (IF d = 1 THEN <<l[1]>> ELSE <<>>)
  BY <1>1 DEF AllOld
<1>5. Len(l) >= 1 => r[1].num = IF Len(l) = ListSize THEN l[1].num + 1 ELSE l[1].num
  BY WindowAfterCut
<1>6. Len(x) <= 1 /\ (x # <<>> => l # <<>> /\ x[1].num < l[1].num)
  OBVIOUS
<1>. HIDE DEF l, r, o, n, x, k
<1>7. SUFFICES /\ Len(n) <= 1
               /\ n # <<>> => n[1].num < r[1].num
               /\ \A g \in Gone(p, v) : x # <<>> /\ g = x[1].num
  BY <1>2 DEF l, r, o, n, x, k
<1>8. CASE d = 0
  <2>1. o = x
    BY <1>2, <1>4, <1>8, ConcatEmptySeq
  <2>2. k = 0 /\ Gone(p, v) = {}
    BY <1>2, <1>3, <1>6, <2>1
  <2>3. n = x
    <3>1. n = SubSeq(x, 1, Len(x))
      <4>1. n = SubSeq(o, k + 1, Len(o)) /\ k + 1 = 1
        BY <1>3, <2>2
      <4>. QED
        BY <2>1, <4>1, Zenon
    <3>. QED
      BY <1>2, <3>1, SubSeqFull
  <2>4. n # <<>> => r[1].num = l[1].num
    BY <1>1, <1>2, <1>5, <1>6, <1>8, <2>3
  <2>. QED
    BY <1>6, <2>2, <2>3, <2>4
<1>9. CASE d = 1
  <2>1. Len(l) >= 1 /\ l[1] \in Segment /\ l[1].num \in Nat
    BY <1>1, <1>2, <1>9, SegmentsOfList
  <2>2. r[1].num = l[1].num + 1
    BY <1>1, <1>5, <1>9, <2>1
  <2>3. /\ o \in Seq(Segment) /\ Len(o) = Len(x) + 1 /\ o[Len(x) + 1] = l[1]
        /\ \A i \in 1 .. Len(x) : o[i] = x[i]
    <3>1. o = Append(x, l[1])
      BY <1>2, <1>4, <1>9, <2>1, AppendIsConcat
    <3>. QED
      BY <1>2, <2>1, <3>1, AppendProperties
  <2>4. k = Len(x) /\ k \in Nat
    BY <1>2, <1>3, <1>6, <2>3
  <2>5. Len(n) = 1 /\ n[1] = l[1]
    <3>1. \A i \in k + 1 .. Len(o) : o[i] \in Segment
      BY <2>3, <2>4, ElementOfSeq
    <3>2. /\ Len(n) = IF k + 1 <= Len(o) THEN Len(o) - (k + 1) + 1 ELSE 0
          /\ \A i \in 1 .. Len(o) - (k + 1) + 1 : n[i] = o[k + 1 + i - 1]
      <4>1. n = SubSeq(o, k + 1, Len(o)) /\ k + 1 \in Int /\ Len(o) \in Int
        BY <1>2, <1>3, <2>3, <2>4
      <4>. QED
        BY <3>1, <4>1, SubSeqProperties
    <3>3. n[1] = o[k + 1]
      BY <1>2, <2>3, <2>4, <3>2
    <3>. QED
      BY <1>2, <2>3, <2>4, <3>2, <3>3
  <2>6. \A g \in Gone(p, v) : x # <<>> /\ g = x[1].num
    <3>. SUFFICES ASSUME NEW i \in 1 .. k PROVE x # <<>> /\ o[i].num = x[1].num
      BY <1>3
    <3>1. i = 1 /\ Len(x) = 1
      BY <1>2, <1>6, <2>4
    <3>2. o[1] = x[1]
      BY <2>3, <3>1
    <3>3. x # <<>>
      BY <1>2, <3>1, SegmentsOfList
    <3>. QED
      BY <3>1, <3>2, <3>3
  <2>. QED
    BY <2>1, <2>2, <2>5, <2>6
<1>. QED
  BY <1>8, <1>9
-----------------------------------------------------------------------------
(***************************************************************************)
(* The steps, as the disk and the processes see them.                      *)
(***************************************************************************)

\* What a process becomes when it opens its input, and when it goes on to its next
\* part
FirstList(s) == IF append_list(index_name_[s]) THEN playlist[Dir(s)] ELSE <<>>
AfterOpen(s, p) == [p EXCEPT !.step = "cut", !.list = FirstList(s)]
NextPart(p) == [p EXCEPT !.step = "cut", !.part = @ + 1]

\* A reactor moves, and of the disk at most the file it is about to write is emptied.
Moves(r) ==
  \/ reactor'[r] = reactor[r] /\ index_name_'[r] = index_name_[r]
  \/ /\ index_name_'[r] = index_name_[r]
     /\ \/ reactor[r] = "none" /\ reactor'[r] = "reading" /\ StreamVideo(r)
        \/ reactor[r] = "reading" /\ reactor'[r] \in {"saving", "emptying", "next", "finishing"}
        \/ reactor[r] = "saving" /\ reactor'[r] \in {"writing", "next"}
        \/ reactor[r] = "emptying" /\ reactor'[r] = "next"
        \/ reactor[r] = "finishing" /\ reactor'[r] = "deleted"
        \/ reactor[r] # "none" /\ reactor'[r] = "lost"
  \/ /\ reactor[r] = "next" /\ reactor'[r] = "reading"
     /\ index_name_'[r] = index_name_[r] + 1

Truncates(s) == reactor[s] \in {"saving", "emptying"} /\ Save(s, FALSE)

Quiet ==
  /\ UNCHANGED <<playlist, ts, ffmpeg>> /\ \A r \in Streams : Moves(r)
  /\ UNCHANGED mp4 \/ \E s \in Streams : Truncates(s)

\* WriteMsgToFile, to its end
Saves(s) ==
  /\ reactor[s] = "writing" /\ reactor' = [reactor EXCEPT ![s] = "publishing"]
  /\ UNCHANGED <<index_name_, playlist, ts>>
  /\ ffmpeg' = [ffmpeg EXCEPT ![s] = {Started}]
  /\ Save(s, TRUE)

\* A process opens its input.
Opens(s) ==
  /\ UNCHANGED <<reactor, index_name_, mp4, playlist, ts>>
  /\ \E p \in ffmpeg[s] :
       /\ p.step = "open"
       /\ ffmpeg' = [ffmpeg EXCEPT ![s] = {AfterOpen(s, p)}]

\* A process cuts a segment.
Cuts(s) ==
  /\ UNCHANGED <<reactor, index_name_, mp4, playlist>>
  /\ \E p \in ffmpeg[s] : \E v \in Read(s) :
       /\ p.step = "cut"
       /\ ts' = [ts EXCEPT ![Dir(s)] = FilesAfterCut(p, v, @)]
       /\ ffmpeg' = [ffmpeg EXCEPT ![s] = {AfterCut(p, v)}]

\* A process publishes its list and goes on, or ends.
Publishes(s) ==
  /\ UNCHANGED <<reactor, index_name_, mp4, ts>>
  /\ \E p \in ffmpeg[s] :
       /\ p.step = "publish" /\ p.part < MaxParts
       /\ playlist' = [playlist EXCEPT ![Dir(s)] = p.list]
       /\ ffmpeg' = [ffmpeg EXCEPT ![s] = {NextPart(p)}]

\* A process ends, having published its list or not.
Ends(s) ==
  /\ UNCHANGED <<index_name_, mp4, ts>>
  /\ Exit(s)
  /\ \/ UNCHANGED playlist
     \/ \E p \in ffmpeg[s] : p.step = "publish" /\ playlist' = [playlist EXCEPT ![Dir(s)] = p.list]

\* Every step is one of these.
LEMMA Shapes ==
  ASSUME CountersOK, [Next]_vars
  PROVE  \/ Quiet
         \/ \E s \in Streams : Saves(s) \/ Opens(s) \/ Cuts(s) \/ Publishes(s) \/ Ends(s)
<1>. USE DEF CountersOK
<1>1. ASSUME NEW s \in Streams, StreamVideo(s) PROVE Quiet
  BY <1>1 DEF StreamVideo, Quiet, Moves, diskVars
<1>2. ASSUME NEW s \in Streams, Send(s) \/ EndStream(s) PROVE Quiet
  BY <1>2 DEF Send, EndStream, Quiet, Moves, diskVars
<1>3. ASSUME NEW s \in Streams, OnReadDone(s) PROVE Quiet
  BY <1>3 DEF OnReadDone, Goto, Failed, Quiet, Moves
<1>4. ASSUME NEW s \in Streams, NextRead(s) PROVE Quiet
  BY <1>4 DEF NextRead, Goto, Quiet, Moves, diskVars
<1>5. ASSUME NEW s \in Streams, OnReadFailed(s) \/ OnDone(s) PROVE Quiet
  BY <1>5 DEF OnReadFailed, OnDone, Goto, Quiet, Moves, diskVars
<1>6. CASE Crash
  BY <1>6 DEF Crash, Quiet, Moves, diskVars
<1>7. CASE Restart \/ UNCHANGED vars
  BY <1>7 DEF Restart, vars, Quiet, Moves, diskVars
<1>8. ASSUME NEW s \in Streams, OpenFile(s) \/ WriteMsgToFile(s) PROVE Quiet \/ Saves(s)
  <2>1. ASSUME OpenFile(s) PROVE Quiet
    <3>1. UNCHANGED <<index_name_, playlist, ts, ffmpeg>>
      BY <2>1 DEF OpenFile
    <3>2. \A r \in Streams : Moves(r)
      BY <2>1, <3>1 DEF OpenFile, Goto, Failed, Moves
    <3>3. UNCHANGED mp4 \/ Truncates(s)
      BY <2>1 DEF OpenFile, Goto, Truncates
    <3>. QED
      BY <3>1, <3>2, <3>3 DEF Quiet
  <2>2. ASSUME WriteMsgToFile(s) PROVE Saves(s)
    BY <2>2 DEF WriteMsgToFile, Goto, Saves
  <2>. QED
    BY <1>8, <2>1, <2>2
<1>9. ASSUME NEW s \in Streams, FfmpegOpen(s) PROVE Opens(s)
  BY <1>9 DEF FfmpegOpen, Opens, AfterOpen, FirstList, diskVars
<1>10. ASSUME NEW s \in Streams, FfmpegCut(s) PROVE Cuts(s)
  BY <1>10, CutIs DEF Cuts
<1>11. ASSUME NEW s \in Streams, FfmpegPublish(s) PROVE Publishes(s) \/ Ends(s)
  BY <1>11 DEF FfmpegPublish, Publishes, Ends, NextPart
<1>12. ASSUME NEW s \in Streams, FfmpegFails(s) PROVE Ends(s)
  BY <1>12 DEF FfmpegFails, Ends, diskVars
<1>. QED
  BY <1>1, <1>2, <1>3, <1>4, <1>5, <1>6, <1>7, <1>8, <1>9, <1>10, <1>11, <1>12
     DEF Next, Reactor, OnReadNull, ServerDies, Ffmpeg

\* What a process knows once it has opened its input.
LEMMA AfterOpenFields ==
  ASSUME NEW p \in Process, NEW s
  PROVE  /\ AfterOpen(s, p).step = "cut"
         /\ AfterOpen(s, p).part = p.part /\ AfterOpen(s, p).old = p.old
         /\ AfterOpen(s, p).list = FirstList(s)
<1>. DEFINE l == FirstList(s)
<1>1. AfterOpen(s, p) = [p EXCEPT !.step = "cut", !.list = l]
  BY DEF AfterOpen
<1>. HIDE DEF l
<1>2. /\ AfterOpen(s, p).step = "cut"
      /\ AfterOpen(s, p).part = p.part /\ AfterOpen(s, p).old = p.old
      /\ AfterOpen(s, p).list = l
  BY <1>1 DEF Process
<1>. QED
  BY <1>2 DEF l

\* What it keeps when it goes on to its next segment.
LEMMA NextPartFields ==
  ASSUME NEW p \in Process
  PROVE  /\ NextPart(p).step = "cut"
         /\ NextPart(p).part = p.part + 1 /\ NextPart(p).old = p.old
         /\ NextPart(p).list = p.list
  BY DEF NextPart, Process

\* What it has before it opens anything.
LEMMA StartedFields ==
  /\ Started.step = "open" /\ Started.part = 1
  /\ Started.list = <<>> /\ Started.old = <<>>
  BY DEF Started
-----------------------------------------------------------------------------
(***************************************************************************)
(* What holds of the disk and the processes whoever shares a name.         *)
(***************************************************************************)

\* A cut lists a segment of the video the process reads.
LEMMA CutKeepsSource ==
  ASSUME NEW p \in Process, NEW v \in Video, NEW n, NEW files \in SUBSET Segment,
         Window(p.list), ListOf(p.list, n), NameOf[v.stream] = n,
         \A e \in files : NameOf[e.content.video.stream] = n
  PROVE  /\ ListOf(AfterCut(p, v).list, n)
         /\ \A e \in FilesAfterCut(p, v, files) : NameOf[e.content.video.stream] = n
<1>. DEFINE l == p.list
            r == AfterCut(p, v).list
<1>1. PICK d \in {0, 1} :
        /\ r \in Seq(Segment) /\ Len(r) = Len(l) + 1 - d
        /\ \A i \in 1 .. Len(l) - d : r[i] = l[i + d]
        /\ r[Len(r)] = Entry(p, v)
  BY ListOfCut
<1>2. /\ DOMAIN r = 1 .. Len(r) /\ DOMAIN l = 1 .. Len(l) /\ Len(l) \in Nat /\ Len(r) \in Nat
  BY <1>1, ProcessTypes, SegmentsOfList
<1>3. Entry(p, v).content.video = v
  BY DEF Entry
<1>4. \A i \in DOMAIN l : NameOf[l[i].content.video.stream] = n
  BY DEF ListOf
<1>. HIDE DEF l, r
<1>5. ASSUME NEW i \in DOMAIN r PROVE NameOf[r[i].content.video.stream] = n
  <2>1. CASE i = Len(r)
    BY <1>1, <1>3, <2>1
  <2>2. CASE i # Len(r)
    <3>1. i \in 1 .. Len(l) - d /\ i + d \in DOMAIN l
      BY <1>1, <1>2, <1>5, <2>2
    <3>. QED
      BY <1>1, <1>4, <3>1
  <2>. QED
    BY <2>1, <2>2
<1>6. ListOf(r, n)
  BY <1>5 DEF ListOf
<1>7. \A e \in FilesAfterCut(p, v, files) : e \in files \/ e.content = Entry(p, v).content
  BY DEF FilesAfterCut, Put
<1>. QED
  BY <1>3, <1>6, <1>7 DEF r

\* The list a process starts from is empty, or the playlist on disk (append_list).
LEMMA FirstListIs == ASSUME NEW s PROVE FirstList(s) = <<>> \/ FirstList(s) = playlist[Dir(s)]
  BY DEF FirstList

\* Nothing is listed in an empty list.
LEMMA EmptyList ==
  /\ <<>> \in Seq(Segment) /\ Len(<<>>) = 0 /\ DOMAIN <<>> = {}
  /\ Window(<<>>) /\ \A n : ListOf(<<>>, n)
  BY CallBackAssumption DEF Window, ListOf

\* The directory of a stream is that of its pi.
LEMMA DirIs == \A s \in Streams : Dir(s) = NameOf[s] /\ Dir(s) \in Names
  BY CallBackAssumption DEF Dir

\* What a step of one process leaves of the others
LEMMA ProcessesAfter ==
  ASSUME DiskOK, NEW s \in Streams, NEW P, ffmpeg' = [ffmpeg EXCEPT ![s] = P]
  PROVE  /\ ffmpeg'[s] = P
         /\ \A r \in Streams \ {s} : ffmpeg'[r] = ffmpeg[r]
         /\ \A r \in Streams : \A q \in ffmpeg'[r] :
              (r = s /\ q \in P) \/ (r # s /\ q \in ffmpeg[r])
  BY DEF DiskOK

\* Sources is inductive: no step brings a video of one pi to the directory of another.
LEMMA SourcesStep ==
  ASSUME CountersOK, DiskOK, FileIsNthFrame, Windows, Sources,
         \/ Quiet
         \/ \E s \in Streams : Saves(s) \/ Opens(s) \/ Cuts(s) \/ Publishes(s) \/ Ends(s)
  PROVE  Sources'
<1>. USE DirIs
<1>1. CASE Quiet
  BY <1>1 DEF Quiet, Sources, ListOf
<1>2. ASSUME NEW s \in Streams, Saves(s) PROVE Sources'
  <2>1. UNCHANGED <<playlist, ts>> /\ ffmpeg' = [ffmpeg EXCEPT ![s] = {Started}]
    BY <1>2 DEF Saves
  <2>. QED
    BY <2>1, StartedFields, EmptyList DEF Sources, ListOf, DiskOK
<1>3. ASSUME NEW s \in Streams, Opens(s) PROVE Sources'
  <2>1. PICK p \in ffmpeg[s] : ffmpeg' = [ffmpeg EXCEPT ![s] = {AfterOpen(s, p)}]
    BY <1>3 DEF Opens
  <2>2. UNCHANGED <<playlist, ts>>
    BY <1>3 DEF Opens
  <2>3. p \in Process
    BY DEF DiskOK
  <2>. DEFINE q == AfterOpen(s, p)
  <2>4. q.list = FirstList(s)
    BY <2>3, AfterOpenFields
  <2>5. ListOf(q.list, NameOf[s])
    BY <2>4, FirstListIs, EmptyList DEF Sources
  <2>. HIDE DEF q
  <2>7. ffmpeg' = [ffmpeg EXCEPT ![s] = {q}]
    BY <2>1 DEF q
  <2>. QED
    BY <2>2, <2>5, <2>7 DEF Sources, ListOf, DiskOK
<1>4. ASSUME NEW s \in Streams, Cuts(s) PROVE Sources'
  <2>1. PICK p \in ffmpeg[s] : \E v \in Read(s) :
          /\ ts' = [ts EXCEPT ![Dir(s)] = FilesAfterCut(p, v, @)]
          /\ ffmpeg' = [ffmpeg EXCEPT ![s] = {AfterCut(p, v)}]
    BY <1>4 DEF Cuts
  <2>2. PICK v \in Read(s) :
          /\ ts' = [ts EXCEPT ![Dir(s)] = FilesAfterCut(p, v, @)]
          /\ ffmpeg' = [ffmpeg EXCEPT ![s] = {AfterCut(p, v)}]
    BY <2>1
  <2>3. UNCHANGED playlist
    BY <1>4 DEF Cuts
  <2>4. p \in Process /\ v \in Video /\ Window(p.list) /\ ts[Dir(s)] \in SUBSET Segment
    BY ReadIs DEF DiskOK, Windows
  <2>5. ListOf(p.list, NameOf[s]) /\ NameOf[v.stream] = NameOf[s]
    BY ReadIs DEF Sources
  <2>. DEFINE q == AfterCut(p, v)
              fs == FilesAfterCut(p, v, ts[Dir(s)])
  <2>6. \A e \in ts[Dir(s)] : NameOf[e.content.video.stream] = NameOf[s]
    BY DEF Sources
  <2>7. /\ ListOf(q.list, NameOf[s])
        /\ \A e \in fs : NameOf[e.content.video.stream] = NameOf[s]
    BY <2>4, <2>5, <2>6, CutKeepsSource
  <2>9. ts' = [ts EXCEPT ![Dir(s)] = fs] /\ ffmpeg' = [ffmpeg EXCEPT ![s] = {q}]
    BY <2>2
  <2>. HIDE DEF q, fs
  <2>10. ffmpeg'[s] = {q} /\ \A r \in Streams \ {s} : ffmpeg'[r] = ffmpeg[r]
    BY <2>9, ProcessesAfter
  <2>11. ts'[Dir(s)] = fs /\ \A n \in Names \ {Dir(s)} : ts'[n] = ts[n]
    BY <2>9 DEF DiskOK
  <2>12. \A r \in Streams : \A p1 \in ffmpeg'[r] : ListOf(p1.list, NameOf[r])
    BY <2>7, <2>10 DEF Sources
  <2>13. \A n \in Names : \A e \in ts'[n] : NameOf[e.content.video.stream] = n
    BY <2>7, <2>11 DEF Sources
  <2>. QED
    BY <2>3, <2>12, <2>13 DEF Sources, ListOf
<1>5. ASSUME NEW s \in Streams, Publishes(s) PROVE Sources'
  <2>1. PICK p \in ffmpeg[s] :
          /\ playlist' = [playlist EXCEPT ![Dir(s)] = p.list]
          /\ ffmpeg' = [ffmpeg EXCEPT ![s] = {NextPart(p)}]
    BY <1>5 DEF Publishes
  <2>2. UNCHANGED ts
    BY <1>5 DEF Publishes
  <2>3. p \in Process
    BY DEF DiskOK
  <2>4. NextPart(p).list = p.list
    BY <2>3, NextPartFields
  <2>5. \A n \in Names : ListOf(playlist'[n], n)
    <3>1. \A n \in Names : playlist'[n] = playlist[n] \/ (n = NameOf[s] /\ playlist'[n] = p.list)
      BY <2>1 DEF DiskOK
    <3>. QED
      BY <3>1 DEF Sources
  <2>6. \A r \in Streams : \A q \in ffmpeg'[r] : ListOf(q.list, NameOf[r])
    <3>1. \A r \in Streams : \A q \in ffmpeg'[r] :
            q \in ffmpeg[r] \/ (r = s /\ q.list = p.list)
      BY <2>1, <2>4 DEF DiskOK
    <3>. QED
      BY <3>1 DEF Sources
  <2>. QED
    BY <2>2, <2>5, <2>6 DEF Sources, ListOf
<1>6. ASSUME NEW s \in Streams, Ends(s) PROVE Sources'
  <2>1. UNCHANGED ts /\ \A r \in Streams : \A q \in ffmpeg'[r] : q \in ffmpeg[r]
    BY <1>6 DEF Ends, Exit, DiskOK
  <2>2. \A n \in Names : \/ playlist'[n] = playlist[n]
                         \/ \E p \in ffmpeg[s] : n = NameOf[s] /\ playlist'[n] = p.list
    BY <1>6 DEF Ends, DiskOK
  <2>3. \A n \in Names : ListOf(playlist'[n], n)
    BY <2>2 DEF Sources
  <2>. QED
    BY <2>1, <2>3 DEF Sources, ListOf
<1>. QED
  BY <1>1, <1>2, <1>3, <1>4, <1>5, <1>6

\* Windows is inductive: a list is contiguous and not too long.
LEMMA WindowsStep ==
  ASSUME CountersOK, DiskOK, Windows,
         \/ Quiet
         \/ \E s \in Streams : Saves(s) \/ Opens(s) \/ Cuts(s) \/ Publishes(s) \/ Ends(s)
  PROVE  Windows'
<1>. USE DirIs
<1>1. CASE Quiet
  BY <1>1 DEF Quiet, Windows
<1>2. ASSUME NEW s \in Streams, Saves(s) PROVE Windows'
  BY <1>2, StartedFields, EmptyList DEF Saves, Windows, DiskOK
<1>3. ASSUME NEW s \in Streams, Opens(s) PROVE Windows'
  <2>1. PICK p \in ffmpeg[s] : ffmpeg' = [ffmpeg EXCEPT ![s] = {AfterOpen(s, p)}]
    BY <1>3 DEF Opens
  <2>2. UNCHANGED playlist /\ p \in Process
    BY <1>3 DEF Opens, DiskOK
  <2>3. Window(AfterOpen(s, p).list)
    BY <2>2, AfterOpenFields, FirstListIs, EmptyList DEF Windows
  <2>. QED
    BY <2>1, <2>2, <2>3 DEF Windows, DiskOK
<1>4. ASSUME NEW s \in Streams, Cuts(s) PROVE Windows'
  <2>1. PICK p \in ffmpeg[s] : \E v \in Read(s) :
          ffmpeg' = [ffmpeg EXCEPT ![s] = {AfterCut(p, v)}]
    BY <1>4 DEF Cuts
  <2>2. PICK v \in Read(s) :
          ffmpeg' = [ffmpeg EXCEPT ![s] = {AfterCut(p, v)}]
    BY <2>1
  <2>3. UNCHANGED playlist /\ p \in Process /\ v \in Video /\ Window(p.list)
    BY <1>4, ReadIs DEF Cuts, DiskOK, Windows
  <2>4. Window(AfterCut(p, v).list)
    BY <2>3, WindowAfterCut
  <2>. QED
    BY <2>2, <2>3, <2>4 DEF Windows, DiskOK
<1>5. ASSUME NEW s \in Streams, Publishes(s) PROVE Windows'
  <2>1. PICK p \in ffmpeg[s] :
          /\ playlist' = [playlist EXCEPT ![Dir(s)] = p.list]
          /\ ffmpeg' = [ffmpeg EXCEPT ![s] = {NextPart(p)}]
    BY <1>5 DEF Publishes
  <2>2. NextPart(p).list = p.list
    BY NextPartFields DEF DiskOK
  <2>. QED
    BY <2>1, <2>2 DEF Windows, DiskOK
<1>6. ASSUME NEW s \in Streams, Ends(s) PROVE Windows'
  BY <1>6 DEF Ends, Exit, Windows, DiskOK
<1>. QED
  BY <1>1, <1>2, <1>3, <1>4, <1>5, <1>6

\* Waits is inductive: a stream waits for the ffmpeg it has called.
LEMMA WaitsStep ==
  ASSUME CountersOK, DiskOK, Windows, Waits,
         \/ Quiet
         \/ \E s \in Streams : Saves(s) \/ Opens(s) \/ Cuts(s) \/ Publishes(s) \/ Ends(s)
  PROVE  Waits'
<1>1. CASE Quiet
  <2>1. \A r \in Streams : reactor[r] \in {"publishing", "lost"} => reactor'[r] \in {"publishing", "lost"}
    BY <1>1 DEF Quiet, Moves, StreamVideo
  <2>. QED
    BY <1>1, <2>1 DEF Quiet, Waits
<1>2. ASSUME NEW s \in Streams, Saves(s) PROVE Waits'
  BY <1>2, StartedFields, EmptyList DEF Saves, Waits, DiskOK, CountersOK
<1>3. ASSUME NEW s \in Streams, Opens(s) PROVE Waits'
  <2>1. PICK p \in ffmpeg[s] :
          p.step = "open" /\ ffmpeg' = [ffmpeg EXCEPT ![s] = {AfterOpen(s, p)}]
    BY <1>3 DEF Opens
  <2>2. UNCHANGED reactor /\ p \in Process /\ p.old = <<>>
    BY <1>3, <2>1, StartedFields DEF Opens, DiskOK, Waits
  <2>3. AfterOpen(s, p).step = "cut" /\ AfterOpen(s, p).old = <<>>
    BY <2>2, AfterOpenFields
  <2>. QED
    BY <2>1, <2>2, <2>3, EmptyList DEF Waits, DiskOK
<1>4. ASSUME NEW s \in Streams, Cuts(s) PROVE Waits'
  <2>1. PICK p \in ffmpeg[s] : \E v \in Read(s) :
          ffmpeg' = [ffmpeg EXCEPT ![s] = {AfterCut(p, v)}]
    BY <1>4 DEF Cuts
  <2>2. PICK v \in Read(s) :
          ffmpeg' = [ffmpeg EXCEPT ![s] = {AfterCut(p, v)}]
    BY <2>1
  <2>3. UNCHANGED reactor /\ p \in Process /\ v \in Video /\ Window(p.list)
    BY <1>4, ReadIs DEF Cuts, DiskOK, Windows
  <2>4. Len(p.old) <= 1 /\ (p.old # <<>> => p.list # <<>> /\ p.old[1].num < p.list[1].num)
    BY DEF Waits
  <2>. DEFINE q == AfterCut(p, v)
  <2>5. /\ Len(q.old) <= 1 /\ q.step = "publish"
        /\ q.old # <<>> => q.list # <<>> /\ q.old[1].num < q.list[1].num
    BY <2>3, <2>4, OldAfterCut, AfterCutFields
  <2>6. ffmpeg' = [ffmpeg EXCEPT ![s] = {q}]
    BY <2>2
  <2>. HIDE DEF q
  <2>. QED
    BY <2>3, <2>5, <2>6 DEF Waits, DiskOK
<1>5. ASSUME NEW s \in Streams, Publishes(s) PROVE Waits'
  <2>1. PICK p \in ffmpeg[s] : ffmpeg' = [ffmpeg EXCEPT ![s] = {NextPart(p)}]
    BY <1>5 DEF Publishes
  <2>2. UNCHANGED reactor /\ p \in Process
    BY <1>5 DEF Publishes, DiskOK
  <2>3. NextPart(p).list = p.list /\ NextPart(p).old = p.old /\ NextPart(p).step = "cut"
    BY <2>2, NextPartFields
  <2>. QED
    BY <2>1, <2>2, <2>3 DEF Waits, DiskOK
<1>6. ASSUME NEW s \in Streams, Ends(s) PROVE Waits'
  BY <1>6 DEF Ends, Exit, Waits, DiskOK, CountersOK
<1>. QED
  BY <1>1, <1>2, <1>3, <1>4, <1>5, <1>6

Shared == IInv /\ DiskOK /\ Windows /\ Sources /\ Waits

\* Shared holds at first.
LEMMA SharedInit == Init => Shared
<1>. SUFFICES ASSUME Init PROVE Shared
  OBVIOUS
<1>1. IInv /\ DiskOK
  BY IInvInit, DiskInit
<1>2. /\ \A n \in Names : playlist[n] = <<>> /\ ts[n] = {}
      /\ \A s \in Streams : ffmpeg[s] = {}
  BY DEF Init
<1>3. Windows /\ Sources /\ Waits
  BY <1>2, EmptyList DEF Windows, Sources, Waits
<1>. QED
  BY <1>1, <1>3 DEF Shared

\* Shared is kept by every step.
LEMMA SharedStep == Shared /\ [Next]_vars => Shared'
<1>. SUFFICES ASSUME Shared, [Next]_vars PROVE Shared'
  OBVIOUS
<1>1. IInv /\ CountersOK /\ DiskOK /\ Windows /\ Sources /\ Waits /\ FileIsNthFrame
  BY DEF Shared, IInv
<1>2. IInv' /\ DiskOK'
  BY <1>1, IInvStep, DiskStep
<1>3. \/ Quiet
      \/ \E s \in Streams : Saves(s) \/ Opens(s) \/ Cuts(s) \/ Publishes(s) \/ Ends(s)
  BY <1>1, Shapes
<1>4. Windows' /\ Sources' /\ Waits'
  BY <1>1, <1>3, WindowsStep, SourcesStep, WaitsStep
<1>. QED
  BY <1>2, <1>4 DEF Shared

\* Viewers of a pi never see the video of another one, in the segments or in the
\* playlist, whatever crashes, restarts and overlapping streams there were.
THEOREM PisAreIsolated == Spec => []Isolation
<1>1. Shared => Isolation
  <2>. SUFFICES ASSUME Shared, NEW n \in Names, NEW e \in ts[n] \cup ToSet(playlist[n])
                PROVE  NameOf[e.content.video.stream] = n
    BY DEF Isolation
  <2>1. ListOf(playlist[n], n) /\ \A x \in ts[n] : NameOf[x.content.video.stream] = n
    BY DEF Shared, Sources
  <2>. QED
    BY <2>1 DEF ToSet, ListOf
<1>. QED
  BY SharedInit, SharedStep, <1>1, PTL DEF Spec

-----------------------------------------------------------------------------
(***************************************************************************)
(* One stream of a pi at a time                                            *)
(***************************************************************************)

\* Another stream with a process works in another directory.
LEMMA OtherDir ==
  ASSUME Alone, NEW s \in Streams, Busy(s), NEW r \in Streams, r # s, ffmpeg[r] # {}
  PROVE  Dir(r) # Dir(s)
  BY DirIs DEF Alone, Busy

\* While a pi has one stream at a time, one process at most works in its directory.
LEMMA AloneStep ==
  ASSUME Exclusive, CountersOK, DiskOK, Alone,
         \/ Quiet
         \/ \E s \in Streams : Saves(s) \/ Opens(s) \/ Cuts(s) \/ Publishes(s) \/ Ends(s)
  PROVE  Alone'
<1>1. CASE Quiet
  <2>1. \A r \in Streams : Busy(r)' => Busy(r) \/ StreamVideo(r)
    BY <1>1 DEF Quiet, Moves, Busy, Over
  <2>2. ASSUME NEW s \in Streams, NEW t \in Streams, s # t, NameOf[s] = NameOf[t],
               Busy(s)', Busy(t)', StreamVideo(s)
        PROVE  FALSE
    <3>1. reactor[t] \in {"none"} \cup Over /\ ffmpeg[t] = {}
      BY <2>2 DEF StreamVideo
    <3>2. reactor'[t] = reactor[t] /\ ffmpeg'[t] = ffmpeg[t]
      BY <2>2 DEF StreamVideo, CountersOK
    <3>. QED
      BY <2>2, <3>1, <3>2 DEF Busy
  <2>. QED
    BY <2>1, <2>2 DEF Alone
<1>2. ASSUME NEW s \in Streams, Saves(s) \/ Opens(s) \/ Cuts(s) \/ Publishes(s) \/ Ends(s)
      PROVE  Alone'
  <2>1. Busy(s)' => Busy(s)
    <3>1. CASE Saves(s)
      BY <3>1 DEF Saves, Busy, Over
    <3>2. CASE Opens(s) \/ Cuts(s) \/ Publishes(s)
      BY <3>2 DEF Opens, Cuts, Publishes, Busy
    <3>3. CASE Ends(s)
      BY <3>3 DEF Ends, Exit, Busy, Over, CountersOK, DiskOK
    <3>. QED
      BY <1>2, <3>1, <3>2, <3>3
  <2>2. \A r \in Streams \ {s} : reactor'[r] = reactor[r] /\ ffmpeg'[r] = ffmpeg[r]
    BY <1>2 DEF Saves, Opens, Cuts, Publishes, Ends, Exit, CountersOK, DiskOK
  <2>3. \A r \in Streams : Busy(r)' => Busy(r)
    BY <2>1, <2>2 DEF Busy
  <2>. QED
    BY <2>3 DEF Alone
<1>. QED
  BY <1>1, <1>2

\* A stream with a process keeps its index.
LEMMA IndexKept ==
  ASSUME Waits, Quiet, NEW r \in Streams, ffmpeg[r] # {}
  PROVE  index_name_'[r] = index_name_[r]
  BY DEF Waits, Quiet, Moves

\* What a process reads changes with its file and its index only.
LEMMA ReadKept ==
  ASSUME NEW r, mp4'[Dir(r)] = mp4[Dir(r)], index_name_'[r] = index_name_[r]
  PROVE  Read(r)' = Read(r) /\ Current(r)' = Current(r)
  BY DEF Read, InputIndex, Dir, Current

\* Then nobody touches a file while a process reads it.
LEMMA InputsStep ==
  ASSUME CountersOK, Counting, DiskOK, Waits, Alone, Inputs,
         \/ Quiet
         \/ \E s \in Streams : Saves(s) \/ Opens(s) \/ Cuts(s) \/ Publishes(s) \/ Ends(s)
  PROVE  Inputs'
<1>. USE DirIs
<1>1. CASE Quiet
  <2>1. \A r \in Streams : ffmpeg[r] # {} => index_name_'[r] = index_name_[r]
    BY <1>1, IndexKept
  <2>2. ASSUME NEW r \in Streams, ffmpeg[r] # {} PROVE mp4'[Dir(r)] = mp4[Dir(r)]
    <3>1. CASE UNCHANGED mp4
      BY <3>1
    <3>2. ASSUME NEW s \in Streams, Truncates(s) PROVE mp4'[Dir(r)] = mp4[Dir(r)]
      <4>1. Busy(s) /\ r # s
        BY <2>2, <3>2 DEF Truncates, Busy, Over, Waits
      <4>2. Dir(r) # Dir(s)
        BY <2>2, <4>1, OtherDir
      <4>. QED
        BY <3>2, <4>2 DEF Truncates, Save, CountersOK
    <3>. QED
      BY <1>1, <3>1, <3>2 DEF Quiet
  <2>3. \A r \in Streams : ffmpeg[r] # {} => Read(r)' = {Current(r)}'
    BY <2>1, <2>2, ReadKept DEF Inputs
  <2>. QED
    BY <1>1, <2>3 DEF Quiet, Inputs
<1>2. ASSUME NEW s \in Streams, Saves(s) PROVE Inputs'
  <2>1. /\ ffmpeg' = [ffmpeg EXCEPT ![s] = {Started}] /\ UNCHANGED index_name_ /\ Busy(s)
        /\ frame_[s] = index_name_[s]
    BY <1>2 DEF Saves, Busy, Over, Counting, Handling
  <2>2. mp4'[Dir(s)] = Put(mp4[Dir(s)], index_name_[s], Current(s))
    BY <1>2, <2>1 DEF Saves, Save, Current, CountersOK
  <2>3. Read(s)' = {Current(s)}
    <3>1. PICK c : c = Current(s)
      OBVIOUS
    <3>2. {g \in mp4'[Dir(s)] : g.num = index_name_[s]} = {[num |-> index_name_[s], content |-> c]}
      BY <2>2, <3>1 DEF Put
    <3>3. Read(s)' = {f.content : f \in {g \in mp4'[Dir(s)] : g.num = index_name_[s]}}
      BY <2>1 DEF Read, InputIndex, Dir
    <3>4. PICK x : x = [num |-> index_name_[s], content |-> c]
      OBVIOUS
    <3>5. {f.content : f \in {x}} = {x.content} /\ x.content = c
      BY <3>4
    <3>6. Read(s)' = {c}
      BY <3>2, <3>3, <3>4, <3>5, Zenon
    <3>. QED
      BY <3>1, <3>6
  <2>4. ASSUME NEW r \in Streams, r # s, ffmpeg[r] # {} PROVE mp4'[Dir(r)] = mp4[Dir(r)]
    <3>1. Dir(r) # Dir(s)
      BY <2>1, <2>4, OtherDir
    <3>. QED
      BY <1>2, <3>1 DEF Saves, Save, CountersOK
  <2>5. \A r \in Streams \ {s} : ffmpeg'[r] = ffmpeg[r]
    BY <2>1 DEF DiskOK
  <2>6. ASSUME NEW r \in Streams, ffmpeg'[r] # {} PROVE Read(r)' = {Current(r)}'
    <3>1. CASE r = s
      BY <2>1, <2>3, <3>1 DEF Current
    <3>2. CASE r # s
      <4>1. ffmpeg[r] # {} /\ Read(r) = {Current(r)}
        BY <2>5, <2>6, <3>2 DEF Inputs
      <4>. QED
        BY <2>1, <2>4, <3>2, <4>1, ReadKept
    <3>. QED
      BY <3>1, <3>2
  <2>. QED
    BY <2>6 DEF Inputs
<1>3. ASSUME NEW s \in Streams, Opens(s) \/ Cuts(s) \/ Publishes(s) \/ Ends(s) PROVE Inputs'
  <2>1. UNCHANGED <<index_name_, mp4>>
    BY <1>3 DEF Opens, Cuts, Publishes, Ends
  <2>2. \A r \in Streams : ffmpeg'[r] # {} => ffmpeg[r] # {}
    BY <1>3 DEF Opens, Cuts, Publishes, Ends, Exit, DiskOK
  <2>3. \A r \in Streams : Read(r)' = Read(r) /\ Current(r)' = Current(r)
    BY <2>1, ReadKept DEF Dir
  <2>. QED
    BY <2>2, <2>3 DEF Inputs
<1>. QED
  BY <1>1, <1>2, <1>3

\* And what a process lists goes on from the playlist on disk.
LEMMA PublishedStep ==
  ASSUME CountersOK, DiskOK, Waits, Alone, Published,
         \/ Quiet
         \/ \E s \in Streams : Saves(s) \/ Opens(s) \/ Cuts(s) \/ Publishes(s) \/ Ends(s)
  PROVE  Published'
<1>. USE DirIs
<1>1. CASE Quiet
  <2>1. \A r \in Streams : ffmpeg[r] # {} => index_name_'[r] = index_name_[r]
    BY <1>1, IndexKept
  <2>. QED
    BY <1>1, <2>1 DEF Quiet, Published, Dir
<1>2. ASSUME NEW s \in Streams, Saves(s) PROVE Published'
  BY <1>2, StartedFields DEF Saves, Published, Dir, DiskOK
<1>3. ASSUME NEW s \in Streams, Opens(s) PROVE Published'
  <2>1. PICK p \in ffmpeg[s] :
          p.step = "open" /\ ffmpeg' = [ffmpeg EXCEPT ![s] = {AfterOpen(s, p)}]
    BY <1>3 DEF Opens
  <2>2. UNCHANGED <<index_name_, playlist>> /\ p \in Process /\ p.old = <<>>
    BY <1>3, <2>1, StartedFields DEF Opens, DiskOK, Waits
  <2>3. AfterOpen(s, p).list = FirstList(s) /\ AfterOpen(s, p).old = <<>>
    BY <2>2, AfterOpenFields
  <2>4. FirstList(s) = playlist[Dir(s)] \/ (index_name_[s] = 1 /\ FirstList(s) = <<>>)
    BY DEF FirstList, append_list
  <2>. QED
    BY <2>1, <2>2, <2>3, <2>4 DEF Published, Dir, DiskOK
<1>4. ASSUME NEW s \in Streams, Cuts(s) PROVE Published'
  BY <1>4, AfterCutFields DEF Cuts, Published, Dir, DiskOK
<1>5. ASSUME NEW s \in Streams, Publishes(s) \/ Ends(s), NEW r \in Streams, NEW q \in ffmpeg'[r],
             q.step = "cut"
      PROVE  \/ q.list = playlist'[Dir(r)]
             \/ index_name_'[r] = 1 /\ q.list = <<>> /\ q.old = <<>>
  <2>1. UNCHANGED index_name_ /\ \A n \in Names \ {Dir(s)} : playlist'[n] = playlist[n]
    BY <1>5 DEF Publishes, Ends, DiskOK
  <2>2. CASE r = s
    <3>1. Publishes(s)
      BY <1>5, <2>2 DEF Ends, Exit, DiskOK
    <3>. QED
      BY <1>5, <2>2, <3>1, NextPartFields DEF Publishes, DiskOK
  <2>3. CASE r # s
    <3>1. ffmpeg'[r] = ffmpeg[r]
      BY <1>5, <2>3 DEF Publishes, Ends, Exit, DiskOK
    <3>2. CASE Busy(s)
      <4>1. Dir(r) # Dir(s)
        BY <1>5, <2>3, <3>1, <3>2, OtherDir
      <4>. QED
        BY <1>5, <2>1, <3>1, <4>1 DEF Published
    <3>3. CASE ~Busy(s)
      <4>1. UNCHANGED playlist
        BY <1>5, <3>3 DEF Publishes, Ends, Busy
      <4>. QED
        BY <1>5, <2>1, <3>1, <4>1 DEF Published
    <3>. QED
      BY <3>2, <3>3
  <2>. QED
    BY <2>2, <2>3
<1>6. ASSUME NEW s \in Streams, Publishes(s) \/ Ends(s) PROVE Published'
  BY <1>5, <1>6 DEF Published, Dir
<1>. QED
  BY <1>1, <1>2, <1>3, <1>4, <1>6
-----------------------------------------------------------------------------

\* The video and the part of a segment
LEMMA PartFields ==
  ASSUME NEW c \in Part
  PROVE  /\ c.video \in Video /\ c.part \in 1 .. MaxParts /\ c.part \in Int
         /\ c.video.stream \in Streams /\ c.video.seq \in Nat /\ c.video.seq >= 1
<1>1. c.video \in Video /\ c.part \in 1 .. MaxParts
  BY DEF Part
<1>2. c.video.stream \in Streams /\ c.video.seq \in 1 .. MaxFrames
  <2>. DEFINE v == c.video
  <2>1. v \in Video
    BY <1>1
  <2>. HIDE DEF v
  <2>2. v.stream \in Streams /\ v.seq \in 1 .. MaxFrames
    BY <2>1 DEF Video
  <2>. QED
    BY <2>2 DEF v
<1>. QED
  BY <1>1, <1>2, CallBackAssumption

\* What an entry of a list and a position of a stream have to say to each other
LEMMA EarlierThan ==
  ASSUME NEW c \in Part, NEW s, NEW n \in Int, NEW k \in Int
  PROVE  /\ Earlier(c, [video |-> [stream |-> s, seq |-> n], part |-> k]) <=>
              (c.video.stream = s =>
                 c.video.seq < n \/ (c.video.seq = n /\ c.part < k))
         /\ Earlier(c, [video |-> [stream |-> s, seq |-> n], part |-> k]) =>
              Earlier(c, [video |-> [stream |-> s, seq |-> n], part |-> k + 1])
<1>1. c.part \in Int /\ c.video.seq \in Int
  BY PartFields
<1>. QED
  BY <1>1 DEF Earlier

\* The entries a process lists after a cut: those it had, and the new one.
LEMMA EntriesAfterCut ==
  ASSUME NEW p \in Process, NEW v \in Video, Window(p.list)
  PROVE  \A i \in DOMAIN AfterCut(p, v).list :
           \/ AfterCut(p, v).list[i] = Entry(p, v)
           \/ \E j \in DOMAIN p.list : AfterCut(p, v).list[i] = p.list[j]
<1>. DEFINE l == p.list
            r == AfterCut(p, v).list
<1>1. PICK d \in {0, 1} :
        /\ r \in Seq(Segment) /\ Len(r) = Len(l) + 1 - d
        /\ \A i \in 1 .. Len(l) - d : r[i] = l[i + d]
        /\ r[Len(r)] = Entry(p, v)
  BY ListOfCut
<1>2. /\ DOMAIN r = 1 .. Len(r) /\ DOMAIN l = 1 .. Len(l) /\ Len(l) \in Nat /\ Len(r) \in Nat
  BY <1>1, ProcessTypes, SegmentsOfList
<1>. HIDE DEF l, r
<1>3. ASSUME NEW i \in DOMAIN r, i # Len(r) PROVE r[i] = l[i + d] /\ i + d \in DOMAIN l
  <2>1. i \in 1 .. Len(l) - d /\ i + d \in 1 .. Len(l)
    BY <1>1, <1>2, <1>3
  <2>. QED
    BY <1>1, <1>2, <2>1
<1>4. \A i \in DOMAIN r : r[i] = Entry(p, v) \/ \E j \in DOMAIN l : r[i] = l[j]
  BY <1>1, <1>3
<1>. QED
  BY <1>4 DEF l, r

\* The new entry comes after all others.
LEMMA OrderedAfterCut ==
  ASSUME NEW p \in Process, NEW v \in Video, Window(p.list), Ordered(p.list),
         \A i \in DOMAIN p.list : Earlier(p.list[i].content, Entry(p, v).content)
  PROVE  Ordered(AfterCut(p, v).list)
<1>. DEFINE l == p.list
            r == AfterCut(p, v).list
<1>1. PICK d \in {0, 1} :
        /\ r \in Seq(Segment) /\ Len(r) = Len(l) + 1 - d
        /\ \A i \in 1 .. Len(l) - d : r[i] = l[i + d]
        /\ r[Len(r)] = Entry(p, v)
  BY ListOfCut
<1>2. /\ DOMAIN r = 1 .. Len(r) /\ DOMAIN l = 1 .. Len(l) /\ Len(l) \in Nat /\ Len(r) \in Nat
  BY <1>1, ProcessTypes, SegmentsOfList
<1>3. Ordered(l) /\ \A i \in DOMAIN l : Earlier(l[i].content, Entry(p, v).content)
  OBVIOUS
<1>. HIDE DEF l, r
<1>4. ASSUME NEW i \in DOMAIN r, i # Len(r) PROVE r[i] = l[i + d] /\ i + d \in DOMAIN l
  <2>1. i \in 1 .. Len(l) - d /\ i + d \in 1 .. Len(l)
    BY <1>1, <1>2, <1>4
  <2>. QED
    BY <1>1, <1>2, <2>1
<1>5. ASSUME NEW i \in DOMAIN r, NEW j \in DOMAIN r, i < j
      PROVE  Earlier(r[i].content, r[j].content)
  <2>1. i \in Int /\ j \in Int /\ i # Len(r)
    BY <1>2, <1>5
  <2>2. CASE j = Len(r)
    BY <1>1, <1>3, <1>4, <2>1, <2>2
  <2>3. CASE j # Len(r)
    <3>1. i + d < j + d
      BY <1>5, <2>1
    <3>2. Earlier(l[i + d].content, l[j + d].content)
      BY <1>3, <1>4, <2>1, <2>3, <3>1 DEF Ordered
    <3>. QED
      BY <1>4, <2>1, <2>3, <3>2
  <2>. QED
    BY <2>2, <2>3
<1>6. Ordered(r)
  BY <1>5 DEF Ordered
<1>. QED
  BY <1>6 DEF r

\* Saved survives what a step does to reactors and indices.
LEMMA SavedKept ==
  ASSUME NEW l \in Seq(Segment), CountersOK, Saved(l),
         \A r \in Streams :
           \/ /\ index_name_'[r] = index_name_[r]
              /\ reactor'[r] \in Unsaved =>
                   reactor[r] \in Unsaved
           \/ index_name_'[r] = index_name_[r] + 1
  PROVE  Saved(l)'
<1>. SUFFICES ASSUME NEW i \in DOMAIN l
              PROVE  LET v == l[i].content.video IN
                     /\ v.seq <= index_name_'[v.stream]
                     /\ reactor'[v.stream] \in Unsaved =>
                          v.seq < index_name_'[v.stream]
  BY DEF Saved
<1>. DEFINE v == l[i].content.video
<1>1. v.seq \in Nat /\ v.stream \in Streams
  BY SegmentsOfList, PartFields
<1>2. /\ v.seq <= index_name_[v.stream]
      /\ reactor[v.stream] \in Unsaved => v.seq < index_name_[v.stream]
  BY DEF Saved
<1>. HIDE DEF v
<1>3. index_name_[v.stream] \in Nat
  BY <1>1 DEF CountersOK
<1>4. /\ v.seq <= index_name_'[v.stream]
      /\ reactor'[v.stream] \in Unsaved => v.seq < index_name_'[v.stream]
  BY <1>1, <1>2, <1>3
<1>. QED
  BY <1>4 DEF v

\* Progress without its quantifier over the processes
ProcessProgress(r, q) ==
  /\ Saved(q.list) /\ Ordered(q.list)
  /\ q.step = "open" => Before(playlist[Dir(r)], r, 1)
  /\ q.step = "cut" => Before(q.list, r, q.part)
  /\ q.step = "publish" => Before(q.list, r, q.part + 1)

\* Progress of one stream, in terms of its process and its playlist.
LEMMA ProgressIs ==
  Progress <=> /\ \A n \in Names : Saved(playlist[n]) /\ Ordered(playlist[n])
               /\ \A r \in Streams : \A q \in ffmpeg[r] : ProcessProgress(r, q)
  BY DEF Progress, ProcessProgress

\* A step that changes no index keeps what is said of another stream's process.
LEMMA ProcessProgressKept ==
  ASSUME CountersOK, DiskOK, NEW r \in Streams, NEW q \in ffmpeg[r], ProcessProgress(r, q),
         index_name_'[r] = index_name_[r], playlist'[Dir(r)] = playlist[Dir(r)],
         \A t \in Streams :
           \/ /\ index_name_'[t] = index_name_[t]
              /\ reactor'[t] \in Unsaved =>
                   reactor[t] \in Unsaved
           \/ index_name_'[t] = index_name_[t] + 1
  PROVE  ProcessProgress(r, q)'
<1>1. q \in Process /\ q.list \in Seq(Segment)
  BY ProcessTypes DEF DiskOK
<1>2. Saved(q.list)'
  BY <1>1, SavedKept DEF ProcessProgress
<1>3. /\ q.step = "open" => Before(playlist[Dir(r)], r, 1)'
      /\ q.step = "cut" => Before(q.list, r, q.part)'
      /\ q.step = "publish" => Before(q.list, r, q.part + 1)'
  BY DEF ProcessProgress, Before, Dir
<1>. QED
  BY <1>2, <1>3 DEF ProcessProgress

\* Two lists of nothing
LEMMA EmptyProgress == Saved(<<>>) /\ Ordered(<<>>) /\ \A s, k : Before(<<>>, s, k)
  BY EmptyList DEF Saved, Ordered, Before

\* Progress is inductive: what is listed comes before what is cut next.
LEMMA ProgressStep ==
  ASSUME CountersOK, DiskOK, Windows, Waits, Alone, Inputs, Progress,
         \/ Quiet
         \/ \E s \in Streams : Saves(s) \/ Opens(s) \/ Cuts(s) \/ Publishes(s) \/ Ends(s)
  PROVE  Progress'
<1>. USE DirIs
<1>. DEFINE Turn == \A t \in Streams :
              \/ /\ index_name_'[t] = index_name_[t]
                 /\ reactor'[t] \in Unsaved =>
                      reactor[t] \in Unsaved
              \/ index_name_'[t] = index_name_[t] + 1
<1>1. Turn
  <2>1. CASE Quiet
    BY <2>1 DEF Quiet, Moves, Unsaved
  <2>2. ASSUME NEW s \in Streams, Saves(s) \/ Opens(s) \/ Cuts(s) \/ Publishes(s) \/ Ends(s)
        PROVE  Turn
    BY <2>2 DEF Saves, Opens, Cuts, Publishes, Ends, Exit, CountersOK, Unsaved
  <2>. QED
    BY <2>1, <2>2
<1>2. ASSUME NEW n \in Names, playlist'[n] = playlist[n]
      PROVE  (Saved(playlist[n]) /\ Ordered(playlist[n]))'
  <2>1. PICK l \in Seq(Segment) : l = playlist[n]
    BY DEF DiskOK
  <2>2. Saved(l) /\ Ordered(l)
    BY <2>1 DEF Progress
  <2>3. Saved(l)'
    BY <1>1, <2>2, SavedKept
  <2>. QED
    BY <1>2, <2>1, <2>2, <2>3 DEF Saved, Ordered
<1>3. ASSUME NEW r \in Streams, NEW q \in ffmpeg[r], index_name_'[r] = index_name_[r],
             playlist'[Dir(r)] = playlist[Dir(r)]
      PROVE  ProcessProgress(r, q)'
  <2>1. ProcessProgress(r, q)
    BY ProgressIs
  <2>. QED
    BY <1>1, <1>3, <2>1, ProcessProgressKept
<1>4. CASE Quiet
  <2>1. \A r \in Streams : ffmpeg[r] # {} => index_name_'[r] = index_name_[r]
    BY <1>4, IndexKept
  <2>2. UNCHANGED <<playlist, ffmpeg>>
    BY <1>4 DEF Quiet
  <2>3. \A n \in Names : (Saved(playlist[n]) /\ Ordered(playlist[n]))'
    BY <1>2, <2>2
  <2>4. \A r \in Streams : \A q \in ffmpeg'[r] : ProcessProgress(r, q)'
    BY <1>3, <2>1, <2>2
  <2>. QED
    BY <2>3, <2>4 DEF Progress, ProcessProgress
<1>5. ASSUME NEW s \in Streams, Saves(s) PROVE Progress'
  <2>1. /\ UNCHANGED <<index_name_, playlist>> /\ ffmpeg' = [ffmpeg EXCEPT ![s] = {Started}]
        /\ reactor[s] = "writing"
    BY <1>5 DEF Saves
  <2>2. \A n \in Names : (Saved(playlist[n]) /\ Ordered(playlist[n]))'
    BY <1>2, <2>1
  <2>3. Before(playlist[Dir(s)], s, 1)
    <3>1. PICK l \in Seq(Segment) : l = playlist[Dir(s)]
      BY DEF DiskOK
    <3>2. Saved(l)
      BY <3>1 DEF Progress
    <3>3. ASSUME NEW i \in DOMAIN l
          PROVE  Earlier(l[i].content, [video |-> [stream |-> s, seq |-> index_name_[s]], part |-> 1])
      <4>1. l[i].content \in Part /\ index_name_[s] \in Int
        BY SegmentsOfList DEF CountersOK
      <4>2. l[i].content.video.stream = s => l[i].content.video.seq < index_name_[s]
        BY <2>1, <3>2 DEF Saved, Unsaved
      <4>. QED
        BY <4>1, <4>2 DEF Earlier
    <3>. QED
      BY <3>1, <3>3 DEF Before
  <2>4. ProcessProgress(s, Started)'
    BY <2>1, <2>3, StartedFields, EmptyProgress DEF ProcessProgress, Before, Saved, Dir
  <2>5. \A r \in Streams : \A q \in ffmpeg'[r] : ProcessProgress(r, q)'
    BY <1>3, <2>1, <2>4, ProcessesAfter
  <2>. QED
    BY <2>2, <2>5 DEF Progress, ProcessProgress
<1>6. ASSUME NEW s \in Streams, Opens(s) PROVE Progress'
  <2>1. PICK p \in ffmpeg[s] :
          p.step = "open" /\ ffmpeg' = [ffmpeg EXCEPT ![s] = {AfterOpen(s, p)}]
    BY <1>6 DEF Opens
  <2>2. UNCHANGED <<index_name_, playlist>> /\ p \in Process /\ p.part = 1
    BY <1>6, <2>1, StartedFields DEF Opens, DiskOK, Waits
  <2>3. PICK q : q = AfterOpen(s, p)
    OBVIOUS
  <2>4. PICK l : l = FirstList(s)
    OBVIOUS
  <2>5. q.step = "cut" /\ q.list = l /\ q.part = 1
    BY <2>2, <2>3, <2>4, AfterOpenFields
  <2>6. /\ l \in Seq(Segment) /\ Saved(l) /\ Ordered(l) /\ Before(l, s, 1)
    <3>1. ProcessProgress(s, p)
      BY ProgressIs
    <3>2. Before(playlist[Dir(s)], s, 1)
      BY <2>1, <3>1 DEF ProcessProgress
    <3>3. CASE l = playlist[Dir(s)]
      <4>1. Saved(playlist[Dir(s)]) /\ Ordered(playlist[Dir(s)])
        BY DEF Progress
      <4>. QED
        BY <3>2, <3>3, <4>1 DEF DiskOK
    <3>4. CASE l = <<>>
      BY <3>4, EmptyProgress, EmptyList
    <3>. QED
      BY <2>4, <3>3, <3>4, FirstListIs
  <2>7. ProcessProgress(s, q)'
    <3>1. Saved(l)'
      BY <1>1, <2>6, SavedKept
    <3>. QED
      BY <2>2, <2>5, <2>6, <3>1 DEF ProcessProgress, Before
  <2>8. \A n \in Names : (Saved(playlist[n]) /\ Ordered(playlist[n]))'
    BY <1>2, <2>2
  <2>9. \A r \in Streams : \A x \in ffmpeg'[r] : ProcessProgress(r, x)'
    BY <1>3, <2>1, <2>2, <2>3, <2>7, ProcessesAfter
  <2>. QED
    BY <2>8, <2>9 DEF Progress, ProcessProgress
<1>7. ASSUME NEW s \in Streams, Cuts(s) PROVE Progress'
  <2>1. PICK p \in ffmpeg[s] : \E v \in Read(s) :
          p.step = "cut" /\ ffmpeg' = [ffmpeg EXCEPT ![s] = {AfterCut(p, v)}]
    BY <1>7 DEF Cuts
  <2>2. PICK v \in Read(s) :
          ffmpeg' = [ffmpeg EXCEPT ![s] = {AfterCut(p, v)}]
    BY <2>1
  <2>3. /\ UNCHANGED <<reactor, index_name_, playlist>>
        /\ p \in Process /\ p.part \in Int /\ v \in Video /\ Window(p.list)
    BY <1>7, ReadIs, ProcessTypes, CallBackAssumption DEF Cuts, DiskOK, Windows
  <2>4. v.stream = s /\ v.seq = index_name_[s] /\ index_name_[s] \in Nat
    BY InputIs DEF CountersOK
  <2>5. Saved(p.list) /\ Ordered(p.list) /\ Before(p.list, s, p.part)
    BY <2>1, ProgressIs DEF ProcessProgress
  <2>6. PICK e : e = Entry(p, v)
    OBVIOUS
  <2>7. PICK q : q = AfterCut(p, v)
    OBVIOUS
  <2>8. /\ e \in Segment /\ e.content \in Part
        /\ e.content = [video |-> v, part |-> p.part]
    BY <2>3, <2>6, EntryType
  <2>9. q.step = "publish" /\ q.part = p.part
    BY <2>3, <2>7, AfterCutFields
  <2>10. \A i \in DOMAIN p.list : Earlier(p.list[i].content, e.content)
    BY <2>4, <2>5, <2>8 DEF Before, Earlier
  <2>11. Ordered(q.list)
    BY <2>3, <2>5, <2>6, <2>7, <2>10, OrderedAfterCut
  <2>12. /\ q.list \in Seq(Segment)
         /\ \A i \in DOMAIN q.list : q.list[i] = e \/ \E j \in DOMAIN p.list : q.list[i] = p.list[j]
    <3>1. q \in Process
      BY <2>3, <2>7, AfterCutType
    <3>. QED
      BY <2>3, <2>6, <2>7, <3>1, EntriesAfterCut, ProcessTypes
  <2>13. Saved(q.list)
    <3>1. reactor[s] \in {"publishing", "lost"}
      BY DEF Waits
    <3>2. e.content.video.stream = s /\ e.content.video.seq = index_name_[s]
      BY <2>4, <2>8
    <3>. QED
      BY <2>4, <2>5, <2>12, <3>1, <3>2 DEF Saved, Unsaved
  <2>14. Before(q.list, s, q.part + 1)
    <3>. SUFFICES ASSUME NEW i \in DOMAIN q.list
                  PROVE  Earlier(q.list[i].content,
                           [video |-> [stream |-> s, seq |-> index_name_[s]], part |-> q.part + 1])
      BY DEF Before
    <3>1. CASE q.list[i] = e
      BY <2>3, <2>4, <2>8, <2>9, <3>1 DEF Earlier
    <3>2. ASSUME NEW j \in DOMAIN p.list, q.list[i] = p.list[j]
          PROVE  Earlier(q.list[i].content,
                   [video |-> [stream |-> s, seq |-> index_name_[s]], part |-> q.part + 1])
      <4>1. p.list[j].content \in Part
        BY <2>3, ProcessTypes, SegmentsOfList
      <4>2. Earlier(p.list[j].content,
                    [video |-> [stream |-> s, seq |-> index_name_[s]], part |-> p.part])
        BY <2>5 DEF Before
      <4>. QED
        BY <2>3, <2>4, <2>9, <3>2, <4>1, <4>2, EarlierThan
    <3>. QED
      BY <2>12, <3>1, <3>2
  <2>15. ProcessProgress(s, q)'
    <3>1. Saved(q.list)'
      BY <1>1, <2>12, <2>13, SavedKept
    <3>. QED
      BY <2>3, <2>9, <2>11, <2>14, <3>1 DEF ProcessProgress, Before
  <2>16. \A n \in Names : (Saved(playlist[n]) /\ Ordered(playlist[n]))'
    BY <1>2, <2>3
  <2>17. \A r \in Streams : \A x \in ffmpeg'[r] : ProcessProgress(r, x)'
    BY <1>3, <2>2, <2>3, <2>7, <2>15, ProcessesAfter
  <2>. QED
    BY <2>16, <2>17 DEF Progress, ProcessProgress
<1>8. ASSUME NEW s \in Streams, NEW p \in ffmpeg[s],
             UNCHANGED index_name_, playlist' = [playlist EXCEPT ![Dir(s)] = p.list]
      PROVE  /\ \A n \in Names : (Saved(playlist[n]) /\ Ordered(playlist[n]))'
             /\ \A r \in Streams \ {s} : \A q \in ffmpeg[r] : ProcessProgress(r, q)'
  <2>1. p.list \in Seq(Segment) /\ Saved(p.list) /\ Ordered(p.list)
    BY ProcessTypes DEF DiskOK, Progress
  <2>2. Saved(p.list)'
    BY <1>1, <2>1, SavedKept
  <2>3. /\ playlist'[Dir(s)] = p.list
        /\ \A n \in Names \ {Dir(s)} : playlist'[n] = playlist[n]
    BY <1>8 DEF DiskOK
  <2>4. (Saved(playlist[Dir(s)]) /\ Ordered(playlist[Dir(s)]))'
    BY <2>1, <2>2, <2>3 DEF Saved, Ordered, Dir
  <2>5. \A n \in Names : (Saved(playlist[n]) /\ Ordered(playlist[n]))'
    <3>1. \A n \in Names \ {Dir(s)} : (Saved(playlist[n]) /\ Ordered(playlist[n]))'
      BY <1>2, <2>3
    <3>. QED
      BY <2>4, <3>1 DEF Dir
  <2>6. ASSUME NEW r \in Streams \ {s}, NEW q \in ffmpeg[r] PROVE ProcessProgress(r, q)'
    <3>1. Busy(s)
      BY DEF Busy
    <3>2. Dir(r) # Dir(s)
      BY <2>6, <3>1, OtherDir
    <3>. QED
      BY <1>3, <1>8, <2>3, <3>2
  <2>. QED
    BY <2>5, <2>6
<1>9. ASSUME NEW s \in Streams, Publishes(s) PROVE Progress'
  <2>1. PICK p \in ffmpeg[s] :
          /\ p.step = "publish" /\ playlist' = [playlist EXCEPT ![Dir(s)] = p.list]
          /\ ffmpeg' = [ffmpeg EXCEPT ![s] = {NextPart(p)}]
    BY <1>9 DEF Publishes
  <2>2. UNCHANGED index_name_ /\ p \in Process
    BY <1>9 DEF Publishes, DiskOK
  <2>3. PICK q : q = NextPart(p)
    OBVIOUS
  <2>4. q.step = "cut" /\ q.list = p.list /\ q.part = p.part + 1
    BY <2>2, <2>3, NextPartFields
  <2>5. Saved(p.list) /\ Ordered(p.list) /\ Before(p.list, s, p.part + 1) /\ p.list \in Seq(Segment)
    BY <2>1, <2>2, ProgressIs, ProcessTypes DEF ProcessProgress
  <2>6. ProcessProgress(s, q)'
    <3>1. Saved(p.list)'
      BY <1>1, <2>5, SavedKept
    <3>. QED
      BY <2>2, <2>4, <2>5, <3>1 DEF ProcessProgress, Before
  <2>7. /\ \A n \in Names : (Saved(playlist[n]) /\ Ordered(playlist[n]))'
        /\ \A r \in Streams \ {s} : \A x \in ffmpeg[r] : ProcessProgress(r, x)'
    BY <1>8, <2>1, <2>2
  <2>8. \A r \in Streams : \A x \in ffmpeg'[r] : ProcessProgress(r, x)'
    <3>1. ffmpeg'[s] = {q} /\ \A r \in Streams \ {s} : ffmpeg'[r] = ffmpeg[r]
      BY <2>1, <2>3, ProcessesAfter
    <3>2. \A r \in Streams \ {s} : \A x \in ffmpeg[r] : ProcessProgress(r, x)'
      BY <2>7
    <3>. QED
      BY <2>6, <3>1, <3>2
  <2>. QED
    BY <2>7, <2>8 DEF Progress, ProcessProgress
<1>10. ASSUME NEW s \in Streams, Ends(s) PROVE Progress'
  <2>1. UNCHANGED index_name_ /\ ffmpeg' = [ffmpeg EXCEPT ![s] = {}]
    BY <1>10 DEF Ends, Exit
  <2>2. /\ \A n \in Names : (Saved(playlist[n]) /\ Ordered(playlist[n]))'
        /\ \A r \in Streams \ {s} : \A x \in ffmpeg[r] : ProcessProgress(r, x)'
    <3>1. CASE UNCHANGED playlist
      BY <1>2, <1>3, <2>1, <3>1
    <3>2. ASSUME NEW p \in ffmpeg[s], playlist' = [playlist EXCEPT ![Dir(s)] = p.list]
          PROVE  /\ \A n \in Names : (Saved(playlist[n]) /\ Ordered(playlist[n]))'
                 /\ \A r \in Streams \ {s} : \A x \in ffmpeg[r] : ProcessProgress(r, x)'
      BY <1>8, <2>1, <3>2
    <3>. QED
      BY <1>10, <3>1, <3>2 DEF Ends
  <2>3. \A r \in Streams : \A x \in ffmpeg'[r] : ProcessProgress(r, x)'
    <3>1. ffmpeg'[s] = {} /\ \A r \in Streams \ {s} : ffmpeg'[r] = ffmpeg[r]
      BY <2>1, ProcessesAfter
    <3>2. \A r \in Streams \ {s} : \A x \in ffmpeg[r] : ProcessProgress(r, x)'
      BY <2>2
    <3>. QED
      BY <3>1, <3>2
  <2>. QED
    BY <2>2, <2>3 DEF Progress, ProcessProgress
<1>. QED
  BY <1>4, <1>5, <1>6, <1>7, <1>9, <1>10
-----------------------------------------------------------------------------

\* The number of a new segment is above those of the list; the files a process
\* deletes are below them.
LEMMA NumbersAfterCut ==
  ASSUME NEW p \in Process, NEW v \in Video, Window(p.list), Len(p.old) <= 1,
         p.old # <<>> => p.list # <<>> /\ p.old[1].num < p.list[1].num
  PROVE  /\ \A i \in DOMAIN p.list : /\ p.list[i].num < NextNum(p.list)
                                     /\ p.list[i].num \notin Gone(p, v)
         /\ NextNum(p.list) \notin Gone(p, v)
         /\ p.old = <<>> => Gone(p, v) = {}
<1>. DEFINE l == p.list
            x == p.old[1].num
<1>1. /\ \A g \in Gone(p, v) : p.old # <<>> /\ g = x
      /\ p.old # <<>> => l # <<>> /\ x < l[1].num
  BY OldAfterCut
<1>2. /\ l \in Seq(Segment) /\ Len(l) \in Nat /\ DOMAIN l = 1 .. Len(l)
      /\ l # <<>> <=> Len(l) >= 1
      /\ \A i \in 1 .. Len(l) : l[i].num = l[1].num + i - 1 /\ l[i].num \in Nat
      /\ Len(l) >= 1 => l[1].num \in Nat /\ NextNum(l) = l[1].num + Len(l)
  <2>1. l \in Seq(Segment) /\ Window(l)
    BY ProcessTypes
  <2>. HIDE DEF l
  <2>. QED
    BY <2>1, SegmentsOfList, WindowNumbers
<1>3. p.old # <<>> => x \in Nat
  <2>1. p.old \in Seq(Segment)
    BY ProcessTypes
  <2>2. p.old # <<>> => Len(p.old) >= 1 /\ Len(p.old) \in Nat
    BY <2>1, SegmentsOfList
  <2>. QED
    BY <2>1, <2>2, SegmentsOfList
<1>. HIDE DEF l, x
<1>4. ASSUME NEW i \in DOMAIN l
      PROVE  l[i].num < NextNum(l) /\ (p.old # <<>> => x < l[i].num)
  <2>1. /\ i \in 1 .. Len(l) /\ Len(l) >= 1 /\ l[1].num \in Nat
        /\ NextNum(l) = l[1].num + Len(l) /\ l[i].num = l[1].num + i - 1
    BY <1>2, <1>4
  <2>. QED
    BY <1>1, <1>2, <1>3, <2>1
<1>5. p.old # <<>> => x < NextNum(l)
  BY <1>1, <1>2, <1>3
<1>6. /\ \A i \in DOMAIN l : l[i].num < NextNum(l) /\ l[i].num \notin Gone(p, v)
      /\ NextNum(l) \notin Gone(p, v)
  <2>1. \A i \in DOMAIN l : l[i].num \in Int
    BY <1>2
  <2>. QED
    BY <1>1, <1>3, <1>4, <1>5, <2>1
<1>. QED
  BY <1>1, <1>6 DEF l

\* The files a list needs are there after a cut, with what it lists.
LEMMA FilesAfterCutKeep ==
  ASSUME NEW p \in Process, NEW v \in Video, NEW files \in SUBSET Segment,
         Window(p.list), Len(p.old) <= 1,
         p.old # <<>> => p.list # <<>> /\ p.old[1].num < p.list[1].num,
         OnDisk(p.list, files), Plays(p.list, files)
  PROVE  /\ OnDisk(p.list, FilesAfterCut(p, v, files))
         /\ Plays(p.list, FilesAfterCut(p, v, files))
         /\ OnDisk(AfterCut(p, v).list, FilesAfterCut(p, v, files))
         /\ Plays(AfterCut(p, v).list, FilesAfterCut(p, v, files))
<1>. DEFINE fs == FilesAfterCut(p, v, files)
            l  == p.list
            n  == NextNum(p.list)
            e  == Entry(p, v)
            g  == Gone(p, v)
            r  == AfterCut(p, v).list
<1>1. /\ \A i \in DOMAIN l : l[i].num < n /\ l[i].num \notin g /\ l[i].num \in Int
      /\ n \notin g /\ n \in Int
  <2>1. p.list \in Seq(Segment)
    BY ProcessTypes
  <2>2. \A i \in DOMAIN p.list : p.list[i].num \in Int
    BY <2>1, SegmentsOfList
  <2>3. NextNum(p.list) \in Int
    BY <2>1, NextNumIsNat
  <2>4. /\ \A i \in DOMAIN p.list : p.list[i].num < NextNum(p.list) /\ p.list[i].num \notin Gone(p, v)
        /\ NextNum(p.list) \notin Gone(p, v)
    BY NumbersAfterCut
  <2>. QED
    BY <2>2, <2>3, <2>4
<1>2. e.num = n /\ e = [num |-> n, content |-> e.content]
  BY DEF Entry
<1>3. fs = {f \in {x \in files : x.num # n} \cup {e} : f.num \notin g}
  BY <1>2 DEF FilesAfterCut, Put
<1>4. \A i \in DOMAIN r : r[i] = e \/ \E j \in DOMAIN l : r[i] = l[j]
  BY EntriesAfterCut
<1>5. OnDisk(l, files) /\ Plays(l, files)
  OBVIOUS
<1>. HIDE DEF fs, l, n, e, g, r
<1>6. ASSUME NEW i \in DOMAIN l PROVE \E f \in fs : f.num = l[i].num
  <2>1. PICK f \in files : f.num = l[i].num
    BY <1>5 DEF OnDisk
  <2>2. f.num # n /\ f.num \notin g
    BY <1>1, <2>1
  <2>. QED
    BY <1>3, <2>1, <2>2
<1>7. ASSUME NEW i \in DOMAIN l, NEW f \in fs, f.num = l[i].num
      PROVE  f.content = l[i].content \/ f.content.video.seq = 1
  <2>1. l[i].num # n
    BY <1>1
  <2>2. f \in files
    BY <1>2, <1>3, <1>7, <2>1
  <2>. QED
    BY <1>5, <1>7, <2>2 DEF Plays
<1>8. e \in fs /\ \A f \in fs : f.num = e.num => f = e
  BY <1>1, <1>2, <1>3
<1>9. OnDisk(l, fs) /\ Plays(l, fs)
  BY <1>6, <1>7 DEF OnDisk, Plays
<1>10. OnDisk(r, fs)
  BY <1>4, <1>6, <1>8 DEF OnDisk
<1>11. Plays(r, fs)
  BY <1>4, <1>7, <1>8 DEF Plays
<1>. QED
  BY <1>9, <1>10, <1>11 DEF fs, l, r

\* The playlist of the directory too, though the first video of a stream may
\* write under it.
LEMMA FilesUnderPlaylist ==
  ASSUME NEW p \in Process, NEW v \in Video, NEW files \in SUBSET Segment, NEW list,
         p.list = <<>>, p.old = <<>>, v.seq = 1,
         OnDisk(list, files), Plays(list, files)
  PROVE  OnDisk(list, FilesAfterCut(p, v, files)) /\ Plays(list, FilesAfterCut(p, v, files))
<1>. DEFINE fs == FilesAfterCut(p, v, files)
            n  == NextNum(p.list)
            e  == Entry(p, v)
<1>1. Gone(p, v) = {}
  <2>1. Len(p.old) <= 1
    BY EmptyList
  <2>. QED
    BY <2>1, EmptyList, NumbersAfterCut
<1>2. e.num = n /\ e = [num |-> n, content |-> e.content] /\ e.content.video.seq = 1
  BY DEF Entry
<1>3. fs = {x \in files : x.num # n} \cup {e}
  BY <1>1, <1>2 DEF FilesAfterCut, Put
<1>. HIDE DEF fs, n, e
<1>4. ASSUME NEW i \in DOMAIN list PROVE \E f \in fs : f.num = list[i].num
  <2>1. PICK f \in files : f.num = list[i].num
    BY DEF OnDisk
  <2>. QED
    BY <1>2, <1>3, <2>1
<1>5. ASSUME NEW i \in DOMAIN list, NEW f \in fs, f.num = list[i].num
      PROVE  f.content = list[i].content \/ f.content.video.seq = 1
  BY <1>2, <1>3, <1>5 DEF Plays
<1>. QED
  BY <1>4, <1>5 DEF OnDisk, Plays, fs

\* Nothing of an empty list can be missing.
LEMMA EmptyKept == \A files : OnDisk(<<>>, files) /\ Plays(<<>>, files)
  BY EmptyList DEF OnDisk, Plays

\* Kept is inductive: a listed segment is not deleted or overwritten.
LEMMA KeptStep ==
  ASSUME CountersOK, DiskOK, Windows, Waits, Alone, Inputs, Published, Kept,
         \/ Quiet
         \/ \E s \in Streams : Saves(s) \/ Opens(s) \/ Cuts(s) \/ Publishes(s) \/ Ends(s)
  PROVE  Kept'
<1>. USE DirIs
<1>. DEFINE Good(list, files) == OnDisk(list, files) /\ Plays(list, files)
<1>1. /\ \A n \in Names : Good(playlist[n], ts[n])
      /\ \A r \in Streams : \A q \in ffmpeg[r] : Good(q.list, ts[Dir(r)])
  BY DEF Kept
<1>2. SUFFICES /\ \A n \in Names : Good(playlist'[n], ts'[n])
               /\ \A r \in Streams : \A q \in ffmpeg'[r] : Good(q.list, ts'[Dir(r)])
  BY DEF Kept, OnDisk, Plays, Dir
<1>3. \A files : Good(<<>>, files)
  BY EmptyKept
<1>. HIDE DEF Good
<1>4. CASE Quiet
  BY <1>1, <1>4 DEF Quiet
<1>5. ASSUME NEW s \in Streams, Saves(s)
      PROVE  /\ \A n \in Names : Good(playlist'[n], ts'[n])
             /\ \A r \in Streams : \A q \in ffmpeg'[r] : Good(q.list, ts'[Dir(r)])
  <2>1. UNCHANGED <<playlist, ts>> /\ ffmpeg' = [ffmpeg EXCEPT ![s] = {Started}]
    BY <1>5 DEF Saves
  <2>. QED
    BY <1>1, <1>3, <2>1, StartedFields, ProcessesAfter
<1>6. ASSUME NEW s \in Streams, Opens(s)
      PROVE  /\ \A n \in Names : Good(playlist'[n], ts'[n])
             /\ \A r \in Streams : \A q \in ffmpeg'[r] : Good(q.list, ts'[Dir(r)])
  <2>1. PICK p \in ffmpeg[s] : ffmpeg' = [ffmpeg EXCEPT ![s] = {AfterOpen(s, p)}]
    BY <1>6 DEF Opens
  <2>2. UNCHANGED <<playlist, ts>> /\ p \in Process
    BY <1>6 DEF Opens, DiskOK
  <2>3. PICK q : q = AfterOpen(s, p)
    OBVIOUS
  <2>4. Good(q.list, ts[Dir(s)])
    BY <1>1, <1>3, <2>2, <2>3, AfterOpenFields, FirstListIs
  <2>5. ffmpeg'[s] = {q} /\ \A r \in Streams \ {s} : ffmpeg'[r] = ffmpeg[r]
    BY <2>1, <2>3, ProcessesAfter
  <2>. QED
    BY <1>1, <2>2, <2>4, <2>5
<1>7. ASSUME NEW s \in Streams, Cuts(s)
      PROVE  /\ \A n \in Names : Good(playlist'[n], ts'[n])
             /\ \A r \in Streams : \A q \in ffmpeg'[r] : Good(q.list, ts'[Dir(r)])
  <2>1. PICK p \in ffmpeg[s] : \E v \in Read(s) :
          /\ p.step = "cut"
          /\ ts' = [ts EXCEPT ![Dir(s)] = FilesAfterCut(p, v, @)]
          /\ ffmpeg' = [ffmpeg EXCEPT ![s] = {AfterCut(p, v)}]
    BY <1>7 DEF Cuts
  <2>2. PICK v \in Read(s) :
          /\ ts' = [ts EXCEPT ![Dir(s)] = FilesAfterCut(p, v, @)]
          /\ ffmpeg' = [ffmpeg EXCEPT ![s] = {AfterCut(p, v)}]
    BY <2>1
  <2>3. UNCHANGED playlist /\ p \in Process /\ v \in Video /\ Window(p.list)
    BY <1>7, ReadIs DEF Cuts, DiskOK, Windows
  <2>4. Len(p.old) <= 1 /\ (p.old # <<>> => p.list # <<>> /\ p.old[1].num < p.list[1].num)
    BY DEF Waits
  <2>5. PICK files : files = ts[Dir(s)]
    OBVIOUS
  <2>6. files \in SUBSET Segment /\ OnDisk(p.list, files) /\ Plays(p.list, files)
    BY <1>1, <2>5 DEF DiskOK, Good
  <2>7. PICK fs : fs = FilesAfterCut(p, v, files)
    OBVIOUS
  <2>8. PICK q : q = AfterCut(p, v)
    OBVIOUS
  <2>9. Good(p.list, fs) /\ Good(q.list, fs)
    BY <2>3, <2>4, <2>6, <2>7, <2>8, FilesAfterCutKeep DEF Good
  <2>10. Good(playlist[Dir(s)], fs)
    <3>1. CASE p.list = playlist[Dir(s)]
      BY <2>9, <3>1
    <3>2. CASE index_name_[s] = 1 /\ p.list = <<>> /\ p.old = <<>>
      <4>1. v.seq = 1
        BY <3>2, InputIs
      <4>2. PICK list : list = playlist[Dir(s)]
        OBVIOUS
      <4>3. OnDisk(list, files) /\ Plays(list, files)
        BY <1>1, <2>5, <4>2 DEF Good
      <4>4. OnDisk(list, fs) /\ Plays(list, fs)
        BY <2>3, <2>6, <2>7, <3>2, <4>1, <4>3, FilesUnderPlaylist
      <4>. QED
        BY <4>2, <4>4 DEF Good
    <3>. QED
      BY <2>1, <3>1, <3>2 DEF Published
  <2>11. /\ ts'[Dir(s)] = fs
         /\ \A n \in Names \ {Dir(s)} : ts'[n] = ts[n]
    BY <2>2, <2>5, <2>7 DEF DiskOK
  <2>12. ffmpeg'[s] = {q} /\ \A r \in Streams \ {s} : ffmpeg'[r] = ffmpeg[r]
    BY <2>2, <2>8, ProcessesAfter
  <2>13. ASSUME NEW r \in Streams \ {s}, ffmpeg[r] # {} PROVE ts'[Dir(r)] = ts[Dir(r)]
    <3>1. Busy(s)
      BY DEF Busy
    <3>2. Dir(r) # Dir(s)
      BY <2>13, <3>1, OtherDir
    <3>. QED
      BY <2>11, <3>2
  <2>. QED
    BY <1>1, <2>3, <2>9, <2>10, <2>11, <2>12, <2>13
<1>8. ASSUME NEW s \in Streams, Publishes(s) \/ Ends(s)
      PROVE  /\ \A n \in Names : Good(playlist'[n], ts'[n])
             /\ \A r \in Streams : \A q \in ffmpeg'[r] : Good(q.list, ts'[Dir(r)])
  <2>1. UNCHANGED ts
    BY <1>8 DEF Publishes, Ends
  <2>2. \A n \in Names : \/ playlist'[n] = playlist[n]
                         \/ \E p \in ffmpeg[s] : n = Dir(s) /\ playlist'[n] = p.list
    BY <1>8 DEF Publishes, Ends, DiskOK
  <2>3. \A r \in Streams : \A q \in ffmpeg'[r] : \E p \in ffmpeg[r] : q.list = p.list
    <3>1. CASE Publishes(s)
      <4>1. PICK p \in ffmpeg[s] : ffmpeg' = [ffmpeg EXCEPT ![s] = {NextPart(p)}]
        BY <3>1 DEF Publishes
      <4>2. NextPart(p).list = p.list
        BY NextPartFields DEF DiskOK
      <4>3. ffmpeg'[s] = {NextPart(p)} /\ \A r \in Streams \ {s} : ffmpeg'[r] = ffmpeg[r]
        BY <4>1, ProcessesAfter
      <4>. QED
        BY <4>2, <4>3
    <3>2. CASE Ends(s)
      BY <3>2 DEF Ends, Exit, DiskOK
    <3>. QED
      BY <1>8, <3>1, <3>2
  <2>. QED
    BY <1>1, <2>1, <2>2, <2>3
<1>. QED
  BY <1>4, <1>5, <1>6, <1>7, <1>8

-----------------------------------------------------------------------------

\* The inductive invariant of a server whose pis have one stream at a time
Ordering == Alone /\ Inputs /\ Published /\ Progress /\ Kept

\* Ordering holds at first.
LEMMA OrderingInit == Init => Ordering
<1>. SUFFICES ASSUME Init PROVE Ordering
  OBVIOUS
<1>1. /\ \A n \in Names : playlist[n] = <<>> /\ ts[n] = {}
      /\ \A s \in Streams : ffmpeg[s] = {} /\ reactor[s] = "none"
  BY DEF Init
<1>2. Alone /\ Inputs /\ Published
  BY <1>1 DEF Alone, Busy, Inputs, Published
<1>3. Progress /\ Kept
  BY <1>1, EmptyProgress, EmptyKept DEF Progress, Kept
<1>. QED
  BY <1>2, <1>3 DEF Ordering

\* Ordering is kept by every step.
LEMMA OrderingStep ==
  Shared /\ (Exclusive => Ordering) /\ [Next]_vars => (Exclusive => Ordering)'
<1>. SUFFICES ASSUME Shared, Exclusive, Ordering, [Next]_vars PROVE Ordering'
  OBVIOUS
<1>1. /\ CountersOK /\ Counting /\ DiskOK /\ Windows /\ Waits /\ FileIsNthFrame
      /\ Alone /\ Inputs /\ Published /\ Progress /\ Kept
  BY DEF Shared, IInv, Ordering
<1>2. \/ Quiet
      \/ \E s \in Streams : Saves(s) \/ Opens(s) \/ Cuts(s) \/ Publishes(s) \/ Ends(s)
  BY <1>1, Shapes
<1>3. Alone' /\ Inputs' /\ Published'
  BY <1>1, <1>2, AloneStep, InputsStep, PublishedStep
<1>4. Progress' /\ Kept'
  BY <1>1, <1>2, ProgressStep, KeptStep
<1>. QED
  BY <1>3, <1>4 DEF Ordering

\* So both hold in every state.
LEMMA OrderingHolds == Spec => [](Shared /\ (Exclusive => Ordering))
<1>1. Init => Shared /\ (Exclusive => Ordering)
  BY SharedInit, OrderingInit
<1>2. Shared /\ (Exclusive => Ordering) /\ [Next]_vars => (Shared /\ (Exclusive => Ordering))'
  BY SharedStep, OrderingStep
<1>. QED
  BY <1>1, <1>2, PTL DEF Spec

\* While a pi has one stream at a time, an ffmpeg process finds in its input file,
\* from its start to its end, the one video its stream has handed over and closed:
\* no step of any stream, and no crash, empties or replaces it under the process.
THEOREM FfmpegReadsWhatWasSaved == Spec => [](Exclusive => InputIsCurrent)
<1>1. Shared /\ (Exclusive => Ordering) => (Exclusive => InputIsCurrent)
  <2>. SUFFICES ASSUME Shared, Ordering, NEW s \in Streams, ffmpeg[s] # {}
                PROVE  /\ Read(s) = {[stream |-> s, seq |-> index_name_[s], written |-> TRUE]}
                       /\ reactor[s] = "publishing" => frame_[s] = index_name_[s]
    BY DEF InputIsCurrent
  <2>1. Read(s) = {Current(s)}
    BY DEF Ordering, Inputs
  <2>2. reactor[s] = "publishing" => frame_[s] = index_name_[s]
    BY DEF Shared, IInv, Counting, Handling
  <2>. QED
    BY <2>1, <2>2 DEF Current
<1>. QED
  BY OrderingHolds, <1>1, PTL

\* Every playlist is bounded and without gaps, and shows the videos of a stream in
\* the order of filming, through restarts of append_list and crashes of ffmpeg.
THEOREM PlaylistsAreInOrder == Spec => [](Exclusive => PlaylistInOrder)
<1>1. Shared /\ (Exclusive => Ordering) => (Exclusive => PlaylistInOrder)
  <2>. SUFFICES ASSUME Shared, Ordering, NEW n \in Names
                PROVE  LET list == playlist[n] IN
                       /\ Len(list) <= ListSize
                       /\ \A i \in 1 .. Len(list) - 1 : list[i + 1].num = list[i].num + 1
                       /\ \A i, j \in DOMAIN list :
                            LET u == list[i].content w == list[j].content IN
                            i < j /\ u.video.stream = w.video.stream =>
                              \/ u.video.seq < w.video.seq
                              \/ u.video.seq = w.video.seq /\ u.part < w.part
    BY DEF PlaylistInOrder
  <2>1. PICK l \in Seq(Segment) : l = playlist[n]
    BY DEF Shared, DiskOK
  <2>2. Window(l) /\ Ordered(l)
    BY <2>1 DEF Shared, Windows, Ordering, Progress
  <2>3. ASSUME NEW i \in 1 .. Len(l) - 1 PROVE l[i + 1].num = l[i].num + 1
    <3>1. Len(l) \in Nat /\ i \in 1 .. Len(l) /\ i + 1 \in 1 .. Len(l) /\ Len(l) >= 1
      BY SegmentsOfList
    <3>2. /\ l[1].num \in Nat /\ l[i].num = l[1].num + i - 1
          /\ l[i + 1].num = l[1].num + (i + 1) - 1
      BY <2>2, <3>1, WindowNumbers
    <3>3. l[1].num + (i + 1) - 1 = l[1].num + i - 1 + 1
      BY <3>1, <3>2
    <3>. QED
      BY <3>2, <3>3
  <2>. QED
    BY <2>1, <2>2, <2>3 DEF Window, Ordered, Earlier
<1>. QED
  BY OrderingHolds, <1>1, PTL

\* Whatever process dies when: a segment is deleted only after the playlist has
\* let go of it.
THEOREM SegmentsAreKept == Spec => [](Exclusive => SegmentOnDisk)
<1>1. Shared /\ (Exclusive => Ordering) => (Exclusive => SegmentOnDisk)
  BY DEF Ordering, Kept, OnDisk, SegmentOnDisk
<1>. QED
  BY OrderingHolds, <1>1, PTL

\* And its file plays what it was listed for: no segment is overwritten while it is
\* listed.
THEOREM PlaylistsPlay == Spec => [](Exclusive => PlaylistPlays)
<1>1. Shared /\ (Exclusive => Ordering) => (Exclusive => PlaylistPlays)
  BY DEF Ordering, Kept, Plays, PlaylistPlays
<1>. QED
  BY OrderingHolds, <1>1, PTL

\* What a process has cut and not listed goes to the end of the playlist, or starts
\* it anew.
Joins(q, list) ==
  q.step = "publish" =>
    /\ q.list # <<>>
    /\ \/ Last(q.list).num = NextNum(list) /\ q.list = Trim(Append(list, Last(q.list)))
       \/ /\ Last(q.list).num = 0 /\ Last(q.list).content.video.seq = 1
          /\ q.list = <<Last(q.list)>>

Pending == \A s \in Streams : \A p \in ffmpeg[s] : Joins(p, playlist[Dir(s)])

\* A process that takes the place of another one of its stream
LEMMA PendingKept ==
  ASSUME Alone, Pending, NEW s \in Streams,
         \A r \in Streams \ {s} : ffmpeg'[r] = ffmpeg[r],
         \A n \in Names \ {Dir(s)} : playlist'[n] = playlist[n],
         Busy(s) \/ UNCHANGED playlist,
         \A q \in ffmpeg'[s] : Joins(q, playlist'[Dir(s)])
  PROVE  Pending'
<1>2. ASSUME NEW r \in Streams \ {s}, ffmpeg[r] # {} PROVE playlist'[Dir(r)] = playlist[Dir(r)]
  <2>1. CASE Busy(s)
    BY <1>2, <2>1, OtherDir, DirIs
  <2>2. CASE UNCHANGED playlist
    BY <2>2
  <2>. QED
    BY <2>1, <2>2
<1>3. \A r \in Streams : \A q \in ffmpeg'[r] : Joins(q, playlist'[Dir(r)])
  BY <1>2 DEF Pending
<1>. QED
  BY <1>3 DEF Pending, Joins, Dir, NextNum

\* Only a process that has cut something is about to list it.
LEMMA JoinsLater == \A q, list : q.step # "publish" => Joins(q, list)
  BY DEF Joins

\* Pending is inductive.
LEMMA PendingStep ==
  ASSUME CountersOK, DiskOK, Windows, Waits, Alone, Inputs, Published, Pending,
         \/ Quiet
         \/ \E s \in Streams : Saves(s) \/ Opens(s) \/ Cuts(s) \/ Publishes(s) \/ Ends(s)
  PROVE  Pending'
<1>. USE DirIs
<1>1. \A q, list : q.step # "publish" => Joins(q, list)
  BY JoinsLater
<1>5. CASE Quiet
  BY <1>5 DEF Quiet, Pending, Joins, Dir, NextNum
<1>6. ASSUME NEW s \in Streams, Saves(s) PROVE Pending'
  <2>1. UNCHANGED playlist /\ ffmpeg' = [ffmpeg EXCEPT ![s] = {Started}]
    BY <1>6 DEF Saves
  <2>2. ffmpeg'[s] = {Started} /\ \A r \in Streams \ {s} : ffmpeg'[r] = ffmpeg[r]
    BY <2>1, ProcessesAfter
  <2>3. \A q \in ffmpeg'[s] : Joins(q, playlist'[Dir(s)])
    BY <1>1, <2>2, StartedFields
  <2>. QED
    BY <2>1, <2>2, <2>3, PendingKept
<1>7. ASSUME NEW s \in Streams, Opens(s) PROVE Pending'
  <2>1. PICK p \in ffmpeg[s] : ffmpeg' = [ffmpeg EXCEPT ![s] = {AfterOpen(s, p)}]
    BY <1>7 DEF Opens
  <2>2. UNCHANGED playlist /\ AfterOpen(s, p).step = "cut"
    BY <1>7, AfterOpenFields DEF Opens, DiskOK
  <2>. QED
    <3>1. /\ ffmpeg'[s] = {AfterOpen(s, p)}
          /\ \A r \in Streams \ {s} : ffmpeg'[r] = ffmpeg[r]
      BY <2>1, ProcessesAfter
    <3>2. \A q \in ffmpeg'[s] : Joins(q, playlist'[Dir(s)])
      BY <1>1, <2>2, <3>1
    <3>. QED
      BY <2>2, <3>1, <3>2, PendingKept
<1>8. ASSUME NEW s \in Streams, Cuts(s) PROVE Pending'
  <2>1. PICK p \in ffmpeg[s] : \E v \in Read(s) :
          p.step = "cut" /\ ffmpeg' = [ffmpeg EXCEPT ![s] = {AfterCut(p, v)}]
    BY <1>8 DEF Cuts
  <2>2. PICK v \in Read(s) :
          ffmpeg' = [ffmpeg EXCEPT ![s] = {AfterCut(p, v)}]
    BY <2>1
  <2>3. UNCHANGED playlist /\ p \in Process /\ v \in Video /\ Window(p.list)
    BY <1>8, ReadIs DEF Cuts, DiskOK, Windows
  <2>4. PICK q : q = AfterCut(p, v)
    OBVIOUS
  <2>5. PICK e : e = Entry(p, v)
    OBVIOUS
  <2>6. /\ q.list = Trim(Append(p.list, e)) /\ q.list # <<>> /\ Last(q.list) = e
        /\ e.num = NextNum(p.list) /\ e.content.video = v /\ e \in Segment
    <3>1. q.list = Trim(Append(p.list, e))
      BY <2>3, <2>4, <2>5, AfterCutFields
    <3>2. Len(q.list) >= 1 /\ q.list[Len(q.list)] = e /\ q.list \in Seq(Segment)
      BY <2>3, <2>4, <2>5, ListOfCut
    <3>3. e.num = NextNum(p.list) /\ e.content.video = v
      BY <2>5 DEF Entry
    <3>4. e \in Segment
      BY <2>3, <2>5, EntryType
    <3>5. q.list # <<>> /\ Last(q.list) = e
      BY <3>2, SegmentsOfList DEF Last
    <3>. QED
      BY <3>1, <3>3, <3>4, <3>5
  <2>7. ASSUME p.list = playlist[Dir(s)] PROVE Joins(q, playlist'[Dir(s)])
    <3>1. Last(q.list).num = NextNum(p.list) /\ q.list = Trim(Append(p.list, Last(q.list)))
      BY <2>6
    <3>2. Joins(q, p.list)
      BY <2>6, <3>1, Zenon DEF Joins
    <3>. QED
      BY <2>3, <2>7, <3>2
  <2>8. ASSUME index_name_[s] = 1, p.list = <<>> PROVE Joins(q, playlist'[Dir(s)])
    <3>1. e.num = 0 /\ v.seq = 1
      BY <2>6, <2>8, InputIs DEF NextNum
    <3>2. q.list = <<e>>
      <4>1. Append(p.list, e) = <<e>> /\ Len(<<e>>) = 1 /\ ~ (1 > ListSize)
        BY <2>8, CallBackAssumption
      <4>. QED
        BY <2>6, <4>1 DEF Trim
    <3>3. Last(q.list).num = 0 /\ Last(q.list).content.video.seq = 1 /\ q.list = <<Last(q.list)>>
      BY <2>6, <3>1, <3>2
    <3>. QED
      BY <2>6, <3>3 DEF Joins
  <2>9. Joins(q, playlist'[Dir(s)])
    BY <2>1, <2>7, <2>8 DEF Published
  <2>10. ffmpeg'[s] = {q} /\ \A r \in Streams \ {s} : ffmpeg'[r] = ffmpeg[r]
    BY <2>2, <2>4, ProcessesAfter
  <2>11. \A x \in ffmpeg'[s] : Joins(x, playlist'[Dir(s)])
    BY <2>9, <2>10
  <2>. QED
    BY <2>3, <2>10, <2>11, PendingKept
<1>9. ASSUME NEW s \in Streams, Publishes(s) PROVE Pending'
  <2>1. PICK p \in ffmpeg[s] :
          /\ playlist' = [playlist EXCEPT ![Dir(s)] = p.list]
          /\ ffmpeg' = [ffmpeg EXCEPT ![s] = {NextPart(p)}]
    BY <1>9 DEF Publishes
  <2>2. NextPart(p).step = "cut"
    BY NextPartFields DEF DiskOK
  <2>3. \A n \in Names \ {Dir(s)} : playlist'[n] = playlist[n]
    BY <2>1 DEF DiskOK
  <2>. QED
    <3>1. ffmpeg'[s] = {NextPart(p)} /\ \A r \in Streams \ {s} : ffmpeg'[r] = ffmpeg[r]
      BY <2>1, ProcessesAfter
    <3>2. \A q \in ffmpeg'[s] : Joins(q, playlist'[Dir(s)])
      BY <1>1, <2>2, <3>1
    <3>3. Busy(s)
      BY DEF Busy
    <3>. QED
      BY <2>3, <3>1, <3>2, <3>3, PendingKept
<1>10. ASSUME NEW s \in Streams, Ends(s) PROVE Pending'
  <2>1. ffmpeg' = [ffmpeg EXCEPT ![s] = {}]
    BY <1>10 DEF Ends, Exit
  <2>2. /\ Busy(s) \/ UNCHANGED playlist
        /\ \A n \in Names \ {Dir(s)} : playlist'[n] = playlist[n]
    BY <1>10 DEF Ends, Busy, DiskOK
  <2>. QED
    <3>1. ffmpeg'[s] = {} /\ \A r \in Streams \ {s} : ffmpeg'[r] = ffmpeg[r]
      BY <2>1, ProcessesAfter
    <3>. QED
      BY <2>2, <3>1, PendingKept
<1>. QED
  BY <1>5, <1>6, <1>7, <1>8, <1>9, <1>10

-----------------------------------------------------------------------------

\* In terms of one pi: only its streams move its files, and at most one of them.
LEMMA FreshIs ==
  ASSUME CountersOK, DiskOK, Waits, Alone, NEW s \in Streams, NameOf[s] = Pi, Busy(s),
         NEW p \in ffmpeg[s]
  PROVE  Fresh = IF p.step = "publish" THEN {Last(p.list)} ELSE {}
<1>1. \A r \in Streams : NameOf[r] = Pi /\ r # s => ffmpeg[r] = {}
  BY DEF Alone, Busy
<1>2. \A q \in ffmpeg[s] : q = p
  BY DEF Waits
<1>3. UNION {ffmpeg[r] : r \in {r \in Streams : NameOf[r] = Pi}} = {p}
  BY <1>1, <1>2
<1>. QED
  BY <1>3 DEF Fresh

\* A pi without a process has no segment waiting to be listed.
LEMMA FreshIsEmpty ==
  ASSUME Alone, NEW s \in Streams, NameOf[s] = Pi, Busy(s), ffmpeg[s] = {}
  PROVE  Fresh = {}
<1>1. \A r \in Streams : NameOf[r] = Pi => ffmpeg[r] = {}
  BY DEF Alone, Busy
<1>. QED
  BY <1>1 DEF Fresh

\* The same after a step of stream s
LEMMA FreshAfter ==
  ASSUME DiskOK, Alone, NEW s \in Streams, NameOf[s] = Pi, Busy(s),
         \A r \in Streams \ {s} : ffmpeg'[r] = ffmpeg[r]
  PROVE  /\ ffmpeg'[s] = {} => Fresh' = {}
         /\ \A q : ffmpeg'[s] = {q} =>
              Fresh' = IF q.step = "publish" THEN {Last(q.list)} ELSE {}
<1>1. \A r \in Streams : NameOf[r] = Pi /\ r # s => ffmpeg'[r] = {}
  BY DEF Alone, Busy
<1>2. ASSUME ffmpeg'[s] = {} PROVE Fresh' = {}
  <2>1. \A r \in Streams : NameOf[r] = Pi => ffmpeg'[r] = {}
    BY <1>1, <1>2
  <2>. QED
    BY <2>1 DEF Fresh
<1>3. ASSUME NEW q, ffmpeg'[s] = {q}
      PROVE  Fresh' = IF q.step = "publish" THEN {Last(q.list)} ELSE {}
  <2>1. UNION {ffmpeg'[r] : r \in {r \in Streams : NameOf[r] = Pi}} = {q}
    BY <1>1, <1>3
  <2>. QED
    BY <2>1 DEF Fresh
<1>. QED
  BY <1>2, <1>3

\* The number after the last of the playlist is the same in both.
LEMMA NextNumIs == NextNum(playlist[Pi]) = H!NextNum
  BY DEF NextNum, H!NextNum, Last, H!Last

\* A cut is Cut, of a segment numbered after the playlist or, by the first video of
\* a stream, from 0.
LEMMA CutImplements ==
  ASSUME CountersOK, DiskOK, Windows, Waits, Alone, Inputs, Published,
         NEW s \in Streams, NameOf[s] = Pi, Cuts(s)
  PROVE  \E c \in Part : H!Cut(c)
<1>. USE DirIs
<1>1. PICK p \in ffmpeg[s] : \E v \in Read(s) :
        /\ p.step = "cut"
        /\ ts' = [ts EXCEPT ![Dir(s)] = FilesAfterCut(p, v, @)]
        /\ ffmpeg' = [ffmpeg EXCEPT ![s] = {AfterCut(p, v)}]
  BY DEF Cuts
<1>2. PICK v \in Read(s) :
        /\ ts' = [ts EXCEPT ![Dir(s)] = FilesAfterCut(p, v, @)]
        /\ ffmpeg' = [ffmpeg EXCEPT ![s] = {AfterCut(p, v)}]
  BY <1>1
<1>3. UNCHANGED playlist /\ p \in Process /\ v \in Video /\ Window(p.list)
  BY ReadIs DEF Cuts, DiskOK, Windows
<1>4. Len(p.old) <= 1 /\ (p.old # <<>> => p.list # <<>> /\ p.old[1].num < p.list[1].num)
  BY DEF Waits
<1>5. PICK e : e = Entry(p, v)
  OBVIOUS
<1>6. /\ e \in Segment /\ e = [num |-> e.num, content |-> e.content]
      /\ e.num = NextNum(p.list) /\ e.content \in Part /\ e.content.video = v
  <2>1. /\ e = [num |-> e.num, content |-> e.content]
        /\ e.num = NextNum(p.list) /\ e.content.video = v
    BY <1>5 DEF Entry
  <2>2. e \in Segment /\ e.content \in Part
    BY <1>3, <1>5, EntryType
  <2>. QED
    BY <2>1, <2>2
<1>7. Fresh = {} /\ Fresh' = {e} /\ ts'[Pi] = FilesAfterCut(p, v, ts[Pi])
  <2>1. Busy(s)
    BY DEF Busy
  <2>2. Fresh = {}
    BY <1>1, <2>1, FreshIs
  <2>3. /\ ffmpeg'[s] = {AfterCut(p, v)} /\ \A r \in Streams \ {s} : ffmpeg'[r] = ffmpeg[r]
    BY <1>2, ProcessesAfter
  <2>4. AfterCut(p, v).step = "publish" /\ Last(AfterCut(p, v).list) = e
    <3>1. AfterCut(p, v).step = "publish"
      BY <1>3, AfterCutFields
    <3>2. /\ AfterCut(p, v).list[Len(AfterCut(p, v).list)] = e
      BY <1>3, <1>5, ListOfCut
    <3>. QED
      BY <3>1, <3>2 DEF Last
  <2>5. PICK q : q = AfterCut(p, v)
    OBVIOUS
  <2>6. Fresh' = IF q.step = "publish" THEN {Last(q.list)} ELSE {}
    BY <2>1, <2>3, <2>5, FreshAfter
  <2>7. ts'[Pi] = FilesAfterCut(p, v, ts[Pi])
    BY <1>2 DEF DiskOK
  <2>. QED
    BY <2>2, <2>4, <2>5, <2>6, <2>7
<1>. DEFINE gone == {g \in ts[Pi] : g.num \in Gone(p, v)}
<1>8. e.num \notin Gone(p, v)
  BY <1>3, <1>4, <1>6, NumbersAfterCut
<1>9. ts'[Pi] = {g \in ts[Pi] \ gone : g.num # e.num} \cup {e}
  BY <1>5, <1>6, <1>7, <1>8 DEF FilesAfterCut, Put
<1>10. \A i \in DOMAIN playlist[Pi] : playlist[Pi][i].num \notin Gone(p, v)
  <2>1. CASE p.list = playlist[Pi]
    <3>1. \A i \in DOMAIN p.list : p.list[i].num \notin Gone(p, v)
      BY <1>3, <1>4, NumbersAfterCut
    <3>. QED
      BY <2>1, <3>1
  <2>2. CASE p.old = <<>>
    <3>1. Gone(p, v) = {}
      BY <1>3, <1>4, <2>2, NumbersAfterCut
    <3>. QED
      BY <3>1
  <2>. QED
    BY <1>1, <2>1, <2>2 DEF Published
<1>11. gone \in SUBSET {g \in ts[Pi] : g.num \notin H!Listed}
  BY <1>10 DEF H!Listed
<1>12. e.num = H!NextNum \/ (e.num = 0 /\ v.seq = 1)
  <2>1. CASE p.list = playlist[Pi]
    <3>1. e.num = NextNum(playlist[Pi])
      BY <1>6, <2>1
    <3>. QED
      BY <3>1, NextNumIs
  <2>2. CASE index_name_[s] = 1 /\ p.list = <<>>
    BY <1>6, <2>2, InputIs DEF NextNum
  <2>. QED
    BY <1>1, <2>1, <2>2 DEF Published
<1>13. e.num \in {H!NextNum} \cup {n \in {0} : e.content \in {c \in Part : c.video.seq = 1}}
  BY <1>6, <1>12
<1>. HIDE DEF gone
<1>14. H!Cut(e.content)
  <2>1. UNCHANGED playlist[Pi]
    BY <1>3
  <2>. QED
    BY <1>6, <1>7, <1>9, <1>11, <1>13, <2>1 DEF H!Cut
<1>. QED
  BY <1>6, <1>14

\* Writing the playlist is Publish.
LEMMA PublishImplements ==
  ASSUME CountersOK, DiskOK, Waits, Alone, Pending,
         NEW s \in Streams, NameOf[s] = Pi, NEW p \in ffmpeg[s], p.step = "publish",
         UNCHANGED ts, playlist' = [playlist EXCEPT ![Dir(s)] = p.list],
         \A r \in Streams \ {s} : ffmpeg'[r] = ffmpeg[r],
         ffmpeg'[s] = {} \/ ffmpeg'[s] = {NextPart(p)}
  PROVE  H!Publish
<1>. USE DirIs
<1>1. p \in Process /\ p.list \in Seq(Segment) /\ Busy(s)
  BY ProcessTypes DEF DiskOK, Busy
<1>2. Fresh = {Last(p.list)}
  BY <1>1, FreshIs
<1>3. Fresh' = {}
  <2>1. NextPart(p).step = "cut"
    BY <1>1, NextPartFields
  <2>2. PICK q : q = NextPart(p)
    OBVIOUS
  <2>. QED
    BY <1>1, <2>1, <2>2, FreshAfter
<1>4. playlist'[Pi] = p.list
  BY DEF DiskOK
<1>5. PICK e : e = Last(p.list)
  OBVIOUS
<1>6. e \in Segment /\ e.content \in Part
  <2>1. Joins(p, playlist[Dir(s)])
    BY DEF Pending
  <2>2. p.list # <<>>
    BY <2>1 DEF Joins
  <2>. QED
    BY <1>1, <1>5, <2>2, SegmentsOfList DEF Last
<1>7. \/ e.num = H!NextNum /\ p.list = Trim(Append(playlist[Pi], e))
      \/ e.num = 0 /\ e.content.video.seq = 1 /\ p.list = <<e>>
  <2>1. PICK n : n = NextNum(playlist[Pi])
    OBVIOUS
  <2>2. Joins(p, playlist[Pi])
    BY DEF Pending
  <2>3. \/ Last(p.list).num = NextNum(playlist[Pi])
           /\ p.list = Trim(Append(playlist[Pi], Last(p.list)))
        \/ /\ Last(p.list).num = 0 /\ Last(p.list).content.video.seq = 1
           /\ p.list = <<Last(p.list)>>
    BY <2>2 DEF Joins
  <2>. QED
    BY <1>5, <2>3, NextNumIs
<1>8. \/ e.num = H!NextNum /\ playlist'[Pi] = Trim(Append(playlist[Pi], e))
      \/ e.num = 0 /\ e.content \in {c \in Part : c.video.seq = 1} /\ playlist'[Pi] = <<e>>
  BY <1>4, <1>6, <1>7
<1>. QED
  BY <1>2, <1>3, <1>5, <1>8 DEF H!Publish, Trim

\* Each step of the server is one of Hls on the files of Pi, or leaves them alone.
LEMMA HlsStep ==
  ASSUME CountersOK, DiskOK, Windows, Waits, Alone, Inputs, Published, Pending,
         \/ Quiet
         \/ \E s \in Streams : Saves(s) \/ Opens(s) \/ Cuts(s) \/ Publishes(s) \/ Ends(s)
  PROVE  H!Next \/ UNCHANGED H!hlsVars
<1>. USE DirIs
<1>1. CASE Quiet
  BY <1>1 DEF Quiet, H!hlsVars, Fresh
<1>2. ASSUME NEW s \in Streams, NameOf[s] # Pi,
             Saves(s) \/ Opens(s) \/ Cuts(s) \/ Publishes(s) \/ Ends(s)
      PROVE  UNCHANGED H!hlsVars
  <2>1. \A r \in Streams \ {s} : ffmpeg'[r] = ffmpeg[r]
    BY <1>2 DEF Saves, Opens, Cuts, Publishes, Ends, Exit, DiskOK
  <2>2. playlist'[Pi] = playlist[Pi] /\ ts'[Pi] = ts[Pi]
    BY <1>2, PiAssumption DEF Saves, Opens, Cuts, Publishes, Ends, DiskOK
  <2>3. {ffmpeg'[r] : r \in {r \in Streams : NameOf[r] = Pi}} =
        {ffmpeg[r] : r \in {r \in Streams : NameOf[r] = Pi}}
    BY <1>2, <2>1
  <2>. QED
    BY <2>2, <2>3 DEF H!hlsVars, Fresh
<1>3. ASSUME NEW s \in Streams, NameOf[s] = Pi, Saves(s) PROVE UNCHANGED H!hlsVars
  <2>1. Busy(s) /\ ffmpeg[s] = {}
    BY <1>3 DEF Saves, Busy, Over, Waits
  <2>2. UNCHANGED <<playlist, ts>> /\ ffmpeg' = [ffmpeg EXCEPT ![s] = {Started}]
    BY <1>3 DEF Saves
  <2>3. ffmpeg'[s] = {Started} /\ \A r \in Streams \ {s} : ffmpeg'[r] = ffmpeg[r]
    BY <2>2, ProcessesAfter
  <2>4. Fresh = {} /\ Fresh' = {}
    BY <1>3, <2>1, <2>3, FreshIsEmpty, FreshAfter, StartedFields
  <2>. QED
    BY <2>2, <2>4 DEF H!hlsVars
<1>4. ASSUME NEW s \in Streams, NameOf[s] = Pi, Opens(s) PROVE UNCHANGED H!hlsVars
  <2>1. PICK p \in ffmpeg[s] :
          p.step = "open" /\ ffmpeg' = [ffmpeg EXCEPT ![s] = {AfterOpen(s, p)}]
    BY <1>4 DEF Opens
  <2>2. UNCHANGED <<playlist, ts>> /\ Busy(s)
    BY <1>4 DEF Opens, Busy
  <2>3. PICK q : q = AfterOpen(s, p)
    OBVIOUS
  <2>4. q.step = "cut"
    BY <2>3, AfterOpenFields DEF DiskOK
  <2>5. ffmpeg'[s] = {q} /\ \A r \in Streams \ {s} : ffmpeg'[r] = ffmpeg[r]
    BY <2>1, <2>3, ProcessesAfter
  <2>6. Fresh = {} /\ Fresh' = {}
    BY <1>4, <2>1, <2>2, <2>4, <2>5, FreshIs, FreshAfter
  <2>. QED
    BY <2>2, <2>6 DEF H!hlsVars
<1>5. ASSUME NEW s \in Streams, NameOf[s] = Pi, Cuts(s) PROVE H!Next
  BY <1>5, CutImplements DEF H!Next
<1>6. ASSUME NEW s \in Streams, NameOf[s] = Pi, Publishes(s) PROVE H!Next
  <2>1. PICK p \in ffmpeg[s] :
          /\ p.step = "publish" /\ playlist' = [playlist EXCEPT ![Dir(s)] = p.list]
          /\ ffmpeg' = [ffmpeg EXCEPT ![s] = {NextPart(p)}]
    BY <1>6 DEF Publishes
  <2>2. /\ ffmpeg'[s] = {NextPart(p)} /\ UNCHANGED ts
        /\ \A r \in Streams \ {s} : ffmpeg'[r] = ffmpeg[r]
    BY <1>6, <2>1, ProcessesAfter DEF Publishes
  <2>3. H!Publish
    BY <1>6, <2>1, <2>2, PublishImplements
  <2>. QED
    BY <2>3 DEF H!Next
<1>7. ASSUME NEW s \in Streams, NameOf[s] = Pi, Ends(s) PROVE H!Next \/ UNCHANGED H!hlsVars
  <2>1. /\ ffmpeg'[s] = {} /\ UNCHANGED ts
        /\ \A r \in Streams \ {s} : ffmpeg'[r] = ffmpeg[r]
    BY <1>7 DEF Ends, Exit, DiskOK
  <2>2. CASE UNCHANGED playlist
    <3>1. CASE Busy(s)
      <4>1. Fresh' = {}
        BY <1>7, <2>1, <3>1, FreshAfter
      <4>. QED
        BY <2>1, <2>2, <4>1 DEF H!Next, H!Forget
    <3>2. CASE ~Busy(s)
      <4>1. UNCHANGED ffmpeg
        BY <1>7, <3>2 DEF Busy, Ends, Exit, DiskOK
      <4>. QED
        BY <2>1, <2>2, <4>1 DEF H!hlsVars, Fresh
    <3>. QED
      BY <3>1, <3>2
  <2>3. ASSUME NEW p \in ffmpeg[s], p.step = "publish",
               playlist' = [playlist EXCEPT ![Dir(s)] = p.list]
        PROVE  H!Next
    <3>1. H!Publish
      BY <1>7, <2>1, <2>3, PublishImplements
    <3>. QED
      BY <3>1 DEF H!Next
  <2>. QED
    BY <1>7, <2>2, <2>3 DEF Ends
<1>8. ASSUME NEW s \in Streams, NameOf[s] = Pi,
             Saves(s) \/ Opens(s) \/ Cuts(s) \/ Publishes(s) \/ Ends(s)
      PROVE  H!Next \/ UNCHANGED H!hlsVars
  BY <1>3, <1>4, <1>5, <1>6, <1>7, <1>8
<1>. QED
  BY <1>1, <1>2, <1>8

\* The files of a pi that has one stream at a time behave as Hls says, for any
\* number of pis, streams and restarts.
THEOREM ServerImplementsHls == ASSUME Exclusive PROVE Spec => ImplementsHls
<1>1. Init => H!Init
  BY PiAssumption DEF Init, H!Init, Fresh
<1>2. Init => Shared /\ Ordering /\ Pending
  BY SharedInit, OrderingInit DEF Init, Pending
<1>3. Shared /\ Ordering /\ Pending /\ [Next]_vars =>
        /\ (Shared /\ Ordering /\ Pending)'
        /\ [H!Next]_(H!hlsVars)
  <2>. SUFFICES ASSUME Shared, Ordering, Pending, [Next]_vars
                PROVE  /\ (Shared /\ Ordering /\ Pending)'
                       /\ [H!Next]_(H!hlsVars)
    OBVIOUS
  <2>1. /\ CountersOK /\ DiskOK /\ Windows /\ Waits
        /\ Alone /\ Inputs /\ Published
    BY DEF Shared, IInv, Ordering
  <2>2. \/ Quiet
        \/ \E s \in Streams : Saves(s) \/ Opens(s) \/ Cuts(s) \/ Publishes(s) \/ Ends(s)
    BY <2>1, Shapes
  <2>3. Shared' /\ Ordering'
    BY SharedStep, OrderingStep
  <2>4. Pending'
    BY <2>1, <2>2, PendingStep
  <2>5. H!Next \/ UNCHANGED H!hlsVars
    BY <2>1, <2>2, HlsStep
  <2>. QED
    BY <2>3, <2>4, <2>5
<1>. QED
  BY <1>1, <1>2, <1>3, PTL DEF Spec, ImplementsHls, H!Spec

=============================================================================
