------------------------------- MODULE HttpStream -------------------------------
(***************************************************************************)
(* SocketStream of include/server/httplib.h and two readers of it: a       *)
(* stream_line_reader that reads a line byte by byte, then                 *)
(* read_content_with_length, whose pieces go to a receiver.                *)
(***************************************************************************)
EXTENDS Integers, Sequences, SequencesExt

CONSTANTS
  read_buff_size_,
  CPPHTTPLIB_RECV_BUFSIZ,
  fixed_buffer_size_

ASSUME HttpStreamAssumption ==
  /\ read_buff_size_ \in Nat \ {0} /\ CPPHTTPLIB_RECV_BUFSIZ \in Nat \ {0}
  /\ fixed_buffer_size_ \in Nat \ {0, 1}

VARIABLES
  sent,         \* all the client sends: a line, the content, more
  length,       \* Content-Length
  arriving,     \* what of it is still under way
  sock,         \* what the socket holds
  read_buff_,   \* of the SocketStream, from read_buff_off_ on
  fixed_buffer_, glowable_buffer_,
  reading,      \* "line" or "content"
  r,            \* bytes of content read
  given         \* what the last read returned

streamVars == <<sent, length, arriving, sock, read_buff_, fixed_buffer_, glowable_buffer_,
                reading, r, given>>

StreamInit(stream, len) ==
  /\ sent = stream /\ length = len /\ arriving = stream
  /\ sock = <<>> /\ read_buff_ = <<>>
  /\ fixed_buffer_ = <<>> /\ glowable_buffer_ = <<>>
  /\ reading = "line" /\ r = 0 /\ given = <<>>

First(s, n) == SubSeq(s, 1, IF n < Len(s) THEN n ELSE Len(s))
From(s, n)  == SubSeq(s, n + 1, Len(s))    \* without the first n

\* Bytes arrive, any number at a time (external).
Arrive ==
  /\ \E n \in 1 .. Len(arriving) :
       sock' = sock \o First(arriving, n) /\ arriving' = From(arriving, n)
  /\ UNCHANGED <<sent, length, read_buff_, fixed_buffer_, glowable_buffer_, reading, r, given>>

\* SocketStream::read: from the buffer if there is something in it; through the buffer if
\* less is wanted than it holds; directly otherwise
Refill(size) ==   \* mutant: what is left in the buffer is overwritten
  /\ sock # <<>>
  /\ given' = First(First(sock, read_buff_size_), size)
  /\ read_buff_' = From(First(sock, read_buff_size_), size)
  /\ sock' = From(sock, read_buff_size_)

read(size) ==
  IF read_buff_ # <<>>
  THEN /\ given' = First(read_buff_, size) /\ read_buff_' = From(read_buff_, size)
       /\ UNCHANGED sock
  ELSE /\ sock # <<>>
       /\ IF size < read_buff_size_
          THEN /\ given' = First(First(sock, read_buff_size_), size)
               /\ read_buff_' = From(First(sock, read_buff_size_), size)
               /\ sock' = From(sock, read_buff_size_)
          ELSE given' = First(sock, size) /\ sock' = From(sock, size) /\ UNCHANGED read_buff_

\* stream_line_reader::append: a fixed buffer, and a string when that is full
append(byte) ==
  IF Len(fixed_buffer_) < fixed_buffer_size_ - 1
  THEN fixed_buffer_' = Append(fixed_buffer_, byte) /\ UNCHANGED glowable_buffer_
  ELSE /\ glowable_buffer_' =
            Append(IF glowable_buffer_ = <<>> THEN fixed_buffer_ ELSE glowable_buffer_, byte)
       /\ UNCHANGED fixed_buffer_

ptr == IF glowable_buffer_ = <<>> THEN fixed_buffer_ ELSE glowable_buffer_

getline ==
  /\ reading = "line"
  /\ read(1) /\ append(given'[1])
  /\ reading' = IF given'[1] = "n" THEN "content" ELSE "line"
  /\ UNCHANGED <<sent, length, arriving, r>>

\* One turn of read_content_with_length; the receiver gets given'.
read_content_with_length ==
  /\ reading = "content" /\ r < length
  /\ read(IF length - r < CPPHTTPLIB_RECV_BUFSIZ THEN length - r ELSE CPPHTTPLIB_RECV_BUFSIZ)
  /\ r' = r + Len(given')
  /\ UNCHANGED <<sent, length, arriving, fixed_buffer_, glowable_buffer_, reading>>

\* The bytes handed to the readers, whatever pieces they arrived in and through whichever
\* buffer they went, are those the client sent, in order: none is lost, none comes twice,
\* the line is whole, and nothing behind the content is read.
ReadAsSent ==
  LET line == SelectInSeq(sent, LAMBDA x : x = "n")
      done == IF reading = "line" THEN Len(ptr) ELSE line + r
  IN /\ read_buff_ \o sock \o arriving = From(sent, done)
     /\ Len(given) <= done /\ given = SubSeq(sent, done - Len(given) + 1, done)
     /\ ptr = First(sent, IF reading = "line" THEN done ELSE line)
     /\ r <= length

=============================================================================
