---------------------------- MODULE HttpDataProofs ----------------------------
(***************************************************************************)
(* Proofs about what the server does to data.  For every stream of bytes,  *)
(* every length of the content and all sizes of the buffers, the readers   *)
(* of HttpStream get what was sent; the form parser of HttpMultipart,      *)
(* which is fed by one of them, accepts the forms that were sent, with     *)
(* their files, unless a read ends where it loses track.  For contents and *)
(* lists of any length the ranges of HttpRanges are cut right, and for     *)
(* paths of any length is_valid_path of HttpText lets none out of its      *)
(* directory; what is encoded for the wire is what is decoded from it, for *)
(* texts of any length without the bytes a conversion loses.               *)
(*                                                                         *)
(* Bytes, or Chars, is the set the bytes are from.                         *)
(***************************************************************************)
EXTENDS MCHttpData, SequenceTheorems, FiniteSetTheorems, WellFoundedInduction, TLAPS

StreamNext == Arrive \/ getline \/ read_content_with_length

\* What has not been read, and how much has
Rest == read_buff_ \o sock \o arriving
Done == Len(ptr) + r

Types(Bytes) ==
  /\ sent \in Seq(Bytes) /\ length \in Nat
  /\ arriving \in Seq(Bytes) /\ sock \in Seq(Bytes) /\ read_buff_ \in Seq(Bytes)
  /\ fixed_buffer_ \in Seq(Bytes) /\ glowable_buffer_ \in Seq(Bytes) /\ given \in Seq(Bytes)
  /\ reading \in {"line", "content"} /\ r \in Nat

\* What is still to be read follows what has been read, of which the last piece was given.
Positions ==
  /\ Done <= Len(sent) /\ Rest = From(sent, Done)
  /\ Len(given) <= Done /\ given = SubSeq(sent, Done - Len(given) + 1, Done)
  /\ r <= length

\* The string takes over when the fixed buffer is full, and the line ends with its first "n".
Line ==
  /\ glowable_buffer_ = <<>> => Len(fixed_buffer_) <= fixed_buffer_size_ - 1
  /\ glowable_buffer_ # <<>> => Len(fixed_buffer_) >= fixed_buffer_size_ - 1
  /\ ptr = SubSeq(sent, 1, Len(ptr))
  /\ reading = "line" => r = 0 /\ \A i \in 1 .. Len(ptr) : ptr[i] # "n"
  /\ reading = "content" => /\ Len(ptr) > 0 /\ ptr[Len(ptr)] = "n"
                            /\ \A i \in 1 .. Len(ptr) - 1 : ptr[i] # "n"

IInv(Bytes) == Types(Bytes) /\ Positions /\ Line

-----------------------------------------------------------------------------
\* A sequence is its first n elements and the others,
LEMMA Split ==
  ASSUME NEW Bytes, NEW s \in Seq(Bytes), NEW n \in Nat
  PROVE  /\ First(s, n) \in Seq(Bytes) /\ From(s, n) \in Seq(Bytes)
         /\ First(s, n) \o From(s, n) = s
         /\ Len(First(s, n)) = IF n < Len(s) THEN n ELSE Len(s)
<1> DEFINE k == IF n < Len(s) THEN n ELSE Len(s)
<1>1. k \in 0 .. Len(s) /\ First(s, n) = SubSeq(s, 1, k)
  BY DEF First
<1>2. From(s, n) = SubSeq(s, k + 1, Len(s))
  <2>1. CASE n < Len(s)
    BY <2>1 DEF From
  <2>2. CASE ~ (n < Len(s))
    <3>1. From(s, n) = <<>> /\ SubSeq(s, Len(s) + 1, Len(s)) = <<>>
      BY <2>2, SubSeqEmpty DEF From
    <3> QED
      BY <2>2, <3>1
  <2> QED
    BY <2>1, <2>2
<1> HIDE DEF k
<1>3. SubSeq(s, 1, k) \in Seq(Bytes) /\ SubSeq(s, k + 1, Len(s)) \in Seq(Bytes) /\ Len(SubSeq(s, 1, k)) = k
  BY <1>1
<1>4. SubSeq(s, 1, k) \o SubSeq(s, k + 1, Len(s)) = s
  <2>1. 1 \in 1 .. Len(s) + 1 /\ k \in 1 - 1 .. Len(s) /\ Len(s) \in k .. Len(s)
    BY <1>1
  <2> QED
    BY <2>1, ConcatAdjacentSubSeq, SubSeqFull
<1> QED
  BY <1>1, <1>2, <1>3, <1>4 DEF k

\* and some are among the first
Splits(Bytes, s, n) ==
  /\ First(s, n) \in Seq(Bytes) /\ From(s, n) \in Seq(Bytes)
  /\ First(s, n) \o From(s, n) = s /\ Len(First(s, n)) \in 1 .. n

\* if it has any and some are wanted.
LEMMA SplitOff ==
  ASSUME NEW Bytes, NEW s \in Seq(Bytes), NEW n \in Nat \ {0}, s # <<>>
  PROVE  Splits(Bytes, s, n)
<1>1. Len(First(s, n)) = IF n < Len(s) THEN n ELSE Len(s)
  BY Split
<1>2. Len(First(s, n)) \in 1 .. n
  BY <1>1
<1> QED
  BY <1>2, Split DEF Splits

Regrouped(s, t, u) == (s \o t) \o u = s \o (t \o u)

\* Concatenation is associative.
LEMMA Regroup ==
  ASSUME NEW Bytes
  PROVE  \A s, t, u \in Seq(Bytes) : Regrouped(s, t, u)
BY DEF Regrouped

\* g is what follows the first d of s, and what follows both is left.
TakesOn(s, d, g, rest) ==
  d <= Len(s) /\ From(s, d) = g \o rest =>
    /\ d + Len(g) <= Len(s) /\ rest = From(s, d + Len(g))
    /\ g = SubSeq(s, d + 1, d + Len(g))

\* What is taken from the front of the rest of a sequence follows what was taken before.
LEMMA TakeOn ==
  ASSUME NEW Bytes
  PROVE  \A s, g, rest \in Seq(Bytes) : \A d \in Nat : TakesOn(s, d, g, rest)
<1> SUFFICES ASSUME NEW s \in Seq(Bytes), NEW g \in Seq(Bytes), NEW rest \in Seq(Bytes),
                    NEW d \in Nat, d <= Len(s), From(s, d) = g \o rest
             PROVE  /\ d + Len(g) <= Len(s) /\ rest = From(s, d + Len(g))
                    /\ g = SubSeq(s, d + 1, d + Len(g))
  BY Zenon DEF TakesOn
<1>1. /\ From(s, d) \in Seq(Bytes) /\ Len(From(s, d)) = Len(s) - d
      /\ \A i \in 1 .. Len(s) - d : From(s, d)[i] = s[d + i]
  BY DEF From
<1>2. /\ Len(g \o rest) = Len(g) + Len(rest)
      /\ \A i \in 1 .. Len(g) : (g \o rest)[i] = g[i]
      /\ \A i \in 1 .. Len(rest) : (g \o rest)[Len(g) + i] = rest[i]
  OBVIOUS
<1>3. Len(s) = d + Len(g) + Len(rest)
  BY <1>1, <1>2
<1>4. \A i \in 1 .. Len(g) : g[i] = s[d + i]
  <2>1. ASSUME NEW i \in 1 .. Len(g) PROVE g[i] = s[d + i]
    <3>1. i \in 1 .. Len(s) - d
      BY <1>3
    <3> QED
      BY <3>1, <1>1, <1>2
  <2> QED
    BY <2>1
<1>5. \A i \in 1 .. Len(rest) : rest[i] = s[d + Len(g) + i]
  <2>1. ASSUME NEW i \in 1 .. Len(rest) PROVE rest[i] = s[d + Len(g) + i]
    <3>1. Len(g) + i \in 1 .. Len(s) - d /\ d + (Len(g) + i) = d + Len(g) + i
      BY <1>3
    <3>2. From(s, d)[Len(g) + i] = s[d + (Len(g) + i)]
      BY <3>1, <1>1
    <3> QED
      BY <3>1, <3>2, <1>2
  <2> QED
    BY <2>1
<1>6. rest = From(s, d + Len(g))
  <2>1. /\ From(s, d + Len(g)) \in Seq(Bytes) /\ Len(From(s, d + Len(g))) = Len(rest)
        /\ \A i \in 1 .. Len(rest) : From(s, d + Len(g))[i] = s[d + Len(g) + i]
    <3>1. PICK n \in Nat : n = d + Len(g) /\ n <= Len(s) /\ Len(s) - n = Len(rest)
      BY <1>3
    <3>2. /\ From(s, n) \in Seq(Bytes) /\ Len(From(s, n)) = Len(s) - n
          /\ \A i \in 1 .. Len(s) - n : From(s, n)[i] = s[n + i]
      BY <3>1 DEF From
    <3> QED
      BY <3>1, <3>2, Zenon
  <2> QED
    BY <2>1, <1>5
<1>7. g = SubSeq(s, d + 1, d + Len(g))
  <2>1. PICK t : t = SubSeq(s, d + 1, d + Len(g))
    OBVIOUS
  <2>2. t \in Seq(Bytes) /\ Len(t) = Len(g) /\ \A i \in 1 .. Len(g) : t[i] = s[d + i]
    BY <1>3, <2>1
  <2> QED
    BY <2>1, <2>2, <1>4
<1> QED
  BY <1>3, <1>6, <1>7

\* SocketStream::read gives what is next, whichever way it takes, at least a byte and no more
\* than is asked for, and leaves the rest.
LEMMA ReadGives ==
  ASSUME NEW Bytes, Types(Bytes), NEW size \in Nat \ {0}, read(size), UNCHANGED arriving
  PROVE  /\ given' \in Seq(Bytes) /\ read_buff_' \in Seq(Bytes) /\ sock' \in Seq(Bytes)
         /\ Len(given') \in 1 .. size /\ Rest' \in Seq(Bytes) /\ Rest = given' \o Rest'
<1> PICK g, rb, so : g = given' /\ rb = read_buff_' /\ so = sock'
  OBVIOUS
<1>1. read_buff_ \in Seq(Bytes) /\ sock \in Seq(Bytes) /\ arriving \in Seq(Bytes)
  BY DEF Types
<1>2. read_buff_size_ \in Nat \ {0}
  BY HttpStreamAssumption
<1>3. \A s, t, u \in Seq(Bytes) : Regrouped(s, t, u)
  BY Regroup
<1>4. /\ g \in Seq(Bytes) /\ rb \in Seq(Bytes) /\ so \in Seq(Bytes) /\ Len(g) \in 1 .. size
      /\ read_buff_ \o sock = g \o (rb \o so)
  <2>1. CASE read_buff_ # <<>>
    <3>1. g = First(read_buff_, size) /\ rb = From(read_buff_, size) /\ so = sock
      BY <2>1 DEF read
    <3>2. g \o rb = read_buff_ /\ g \in Seq(Bytes) /\ rb \in Seq(Bytes) /\ Len(g) \in 1 .. size
      <4>1. Splits(Bytes, read_buff_, size)
        BY <1>1, <2>1, SplitOff, Zenon
      <4> QED
        BY <3>1, <4>1 DEF Splits
    <3>3. g \in Seq(Bytes) /\ rb \in Seq(Bytes) /\ so \in Seq(Bytes)
      BY <1>1, <3>1, <3>2
    <3>4. Regrouped(g, rb, so)
      BY <3>3, <1>3, Zenon
    <3> QED
      BY <3>1, <3>2, <3>3, <3>4 DEF Regrouped
  <2>2. CASE read_buff_ = <<>> /\ size < read_buff_size_
    <3> DEFINE f == First(sock, read_buff_size_)
    <3>1. /\ sock # <<>> /\ g = First(f, size) /\ rb = From(f, size)
          /\ so = From(sock, read_buff_size_)
      BY <2>2 DEF read
    <3>2. f \in Seq(Bytes) /\ so \in Seq(Bytes) /\ f \o so = sock /\ Len(f) \in 1 .. read_buff_size_
      <4>1. Splits(Bytes, sock, read_buff_size_)
        BY <1>1, <1>2, <3>1, SplitOff, Zenon
      <4> QED
        BY <3>1, <4>1 DEF Splits
    <3> HIDE DEF f
    <3>3. g \o rb = f /\ g \in Seq(Bytes) /\ rb \in Seq(Bytes) /\ Len(g) \in 1 .. size
      <4>1. f # <<>>
        BY <1>2, <3>2
      <4>2. Splits(Bytes, f, size)
        BY <3>2, <4>1, SplitOff, Zenon
      <4> QED
        BY <3>1, <4>2 DEF Splits
    <3>4. read_buff_ \o sock = sock
      BY <1>1, <2>2
    <3>5. Regrouped(g, rb, so)
      <4>1. g \in Seq(Bytes) /\ rb \in Seq(Bytes) /\ so \in Seq(Bytes)
        BY <3>2, <3>3
      <4> QED
        BY <4>1, <1>3, Zenon
    <3> QED
      BY <3>2, <3>3, <3>4, <3>5 DEF Regrouped
  <2>3. CASE read_buff_ = <<>> /\ ~ (size < read_buff_size_)
    <3>1. sock # <<>> /\ g = First(sock, size) /\ rb = <<>> /\ so = From(sock, size)
      BY <2>3 DEF read
    <3>2. g \o so = sock /\ g \in Seq(Bytes) /\ so \in Seq(Bytes) /\ Len(g) \in 1 .. size
      <4>1. Splits(Bytes, sock, size)
        BY <1>1, <3>1, SplitOff, Zenon
      <4> QED
        BY <3>1, <4>1 DEF Splits
    <3>3. read_buff_ \o sock = sock /\ rb \o so = so /\ rb \in Seq(Bytes)
      BY <1>1, <2>3, <3>1, <3>2
    <3> QED
      BY <3>2, <3>3
  <2> QED
    BY <2>1, <2>2, <2>3
<1>5. PICK m, a : m = rb \o so /\ a = arriving
  OBVIOUS
<1>6. (read_buff_ \o sock) \o a = g \o (m \o a) /\ m \o a \in Seq(Bytes)
  <2>1. g \in Seq(Bytes) /\ m \in Seq(Bytes) /\ a \in Seq(Bytes)
    BY <1>1, <1>4, <1>5
  <2>2. Regrouped(g, m, a)
    BY <2>1, <1>3, Zenon
  <2> QED
    BY <1>4, <1>5, <2>1, <2>2 DEF Regrouped
<1> QED
  BY <1>4, <1>5, <1>6 DEF Rest

\* A turn of a reader: what it is given is what follows in the stream.
LEMMA ReadOn ==
  ASSUME NEW Bytes, IInv(Bytes), NEW size \in Nat \ {0}, read(size), UNCHANGED <<sent, arriving>>
  PROVE  /\ given' \in Seq(Bytes) /\ Len(given') \in 1 .. size
         /\ Done + Len(given') <= Len(sent) /\ Rest' = From(sent, Done + Len(given'))
         /\ given' = SubSeq(sent, Done + 1, Done + Len(given'))
<1>1. /\ given' \in Seq(Bytes) /\ Len(given') \in 1 .. size
      /\ Rest' \in Seq(Bytes) /\ Rest = given' \o Rest'
  BY ReadGives DEF IInv
<1>2. sent \in Seq(Bytes) /\ Done \in Nat /\ Done <= Len(sent) /\ Rest = From(sent, Done)
  <2>1. Len(ptr) \in Nat /\ r \in Nat /\ sent \in Seq(Bytes)
    BY DEF IInv, Types, ptr
  <2>2. Done <= Len(sent) /\ Rest = From(sent, Done)
    BY DEF IInv, Positions
  <2> QED
    BY <2>1, <2>2 DEF Done
<1>3. PICK s, d, g, rest : s = sent /\ d = Done /\ g = given' /\ rest = Rest'
  OBVIOUS
<1>4. /\ s \in Seq(Bytes) /\ g \in Seq(Bytes) /\ rest \in Seq(Bytes)
      /\ d \in Nat /\ d <= Len(s) /\ From(s, d) = g \o rest
  BY <1>1, <1>2, <1>3
<1>5. d + Len(g) <= Len(s) /\ rest = From(s, d + Len(g)) /\ g = SubSeq(s, d + 1, d + Len(g))
  <2>1. TakesOn(s, d, g, rest)
    BY <1>4, TakeOn, Zenon
  <2> QED
    BY <1>4, <2>1 DEF TakesOn
<1> QED
  BY <1>1, <1>3, <1>5

\* What has arrived has been sent and is not read yet.
LEMMA ArriveKeeps == ASSUME NEW Bytes, IInv(Bytes), Arrive PROVE IInv(Bytes)'
<1>1. PICK n \in 1 .. Len(arriving) : sock' = sock \o First(arriving, n) /\ arriving' = From(arriving, n)
  BY DEF Arrive
<1> PICK so, ar, f : so = sock' /\ ar = arriving' /\ f = First(arriving, n)
  OBVIOUS
<1>2. arriving \in Seq(Bytes) /\ sock \in Seq(Bytes) /\ read_buff_ \in Seq(Bytes) /\ n \in Nat
  BY DEF IInv, Types
<1>3. f \in Seq(Bytes) /\ ar \in Seq(Bytes) /\ f \o ar = arriving
  <2>1. First(arriving, n) \in Seq(Bytes) /\ From(arriving, n) \in Seq(Bytes)
        /\ First(arriving, n) \o From(arriving, n) = arriving
    BY <1>2, Split
  <2> QED
    BY <1>1, <2>1
<1>4. \A s, t, u \in Seq(Bytes) : Regrouped(s, t, u)
  BY Regroup
<1>5. so = sock \o f /\ so \in Seq(Bytes) /\ read_buff_ \o sock \in Seq(Bytes)
  BY <1>1, <1>2, <1>3
<1>6. (read_buff_ \o so) \o ar = (read_buff_ \o sock) \o arriving
  <2>1. Regrouped(read_buff_, sock, f)
    BY <1>2, <1>3, <1>4, Zenon
  <2>2. Regrouped(read_buff_ \o sock, f, ar)
    BY <1>3, <1>4, <1>5, Zenon
  <2> QED
    BY <1>3, <1>5, <2>1, <2>2 DEF Regrouped
<1>7. Rest' = Rest
  BY <1>6 DEF Rest, Arrive
<1>8. Types(Bytes)'
  BY <1>3, <1>5 DEF Arrive, IInv, Types
<1>9. Positions'
  BY <1>7 DEF Arrive, IInv, Positions, Done, ptr
<1>10. Line'
  BY DEF Arrive, IInv, Line, ptr
<1> QED
  BY <1>8, <1>9, <1>10 DEF IInv

\* append adds a byte to the line, in whichever of the two buffers that is.
LEMMA LineGrows ==
  ASSUME NEW Bytes, IInv(Bytes), NEW byte \in Bytes, append(byte)
  PROVE  /\ ptr' = Append(ptr, byte)
         /\ fixed_buffer_' \in Seq(Bytes) /\ glowable_buffer_' \in Seq(Bytes)
         /\ glowable_buffer_' = <<>> => Len(fixed_buffer_') <= fixed_buffer_size_ - 1
         /\ glowable_buffer_' # <<>> => Len(fixed_buffer_') >= fixed_buffer_size_ - 1
<1>1. /\ fixed_buffer_ \in Seq(Bytes) /\ glowable_buffer_ \in Seq(Bytes) /\ fixed_buffer_size_ \in Nat
      /\ glowable_buffer_ = <<>> => Len(fixed_buffer_) <= fixed_buffer_size_ - 1
      /\ glowable_buffer_ # <<>> => Len(fixed_buffer_) >= fixed_buffer_size_ - 1
  BY HttpStreamAssumption DEF IInv, Types, Line
<1>2. CASE Len(fixed_buffer_) < fixed_buffer_size_ - 1
  <2>1. glowable_buffer_ = <<>>
    BY <1>1, <1>2
  <2>2. fixed_buffer_' = Append(fixed_buffer_, byte) /\ glowable_buffer_' = <<>>
    BY <1>2, <2>1 DEF append
  <2> QED
    BY <1>1, <1>2, <2>1, <2>2 DEF ptr
<1>3. CASE ~ (Len(fixed_buffer_) < fixed_buffer_size_ - 1)
  <2>1. glowable_buffer_' = Append(ptr, byte) /\ fixed_buffer_' = fixed_buffer_
    BY <1>3 DEF append, ptr
  <2>2. ptr \in Seq(Bytes)
    BY <1>1 DEF ptr
  <2>3. glowable_buffer_' \in Seq(Bytes) /\ glowable_buffer_' # <<>>
    BY <2>1, <2>2
  <2>4. Len(fixed_buffer_) >= fixed_buffer_size_ - 1
    BY <1>1, <1>3
  <2> QED
    BY <1>1, <2>1, <2>3, <2>4 DEF ptr
<1> QED
  BY <1>2, <1>3

\* A byte of the line
LEMMA GetlineKeeps == ASSUME NEW Bytes, IInv(Bytes), getline PROVE IInv(Bytes)'
<1>1. /\ reading = "line" /\ read(1) /\ append(given'[1])
      /\ reading' = IF given'[1] = "n" THEN "content" ELSE "line"
      /\ sent' = sent /\ length' = length /\ arriving' = arriving /\ r' = r
  BY DEF getline
<1>2. /\ given' \in Seq(Bytes) /\ Len(given') \in 1 .. 1
      /\ Done + Len(given') <= Len(sent) /\ Rest' = From(sent, Done + Len(given'))
      /\ given' = SubSeq(sent, Done + 1, Done + Len(given'))
  <2>1. 1 \in Nat \ {0} /\ UNCHANGED <<sent, arriving>> /\ read(1)
    BY <1>1
  <2> QED
    BY <2>1, ReadOn
<1>3. read_buff_' \in Seq(Bytes) /\ sock' \in Seq(Bytes)
  BY <1>1, ReadGives DEF IInv
<1>4. /\ r = 0 /\ Done = Len(ptr) /\ ptr \in Seq(Bytes) /\ sent \in Seq(Bytes) /\ length \in Nat
      /\ ptr = SubSeq(sent, 1, Len(ptr)) /\ \A i \in 1 .. Len(ptr) : ptr[i] # "n"
  BY <1>1 DEF IInv, Types, Line, Done, ptr
<1>5. Len(given') = 1 /\ given'[1] \in Bytes /\ given'[1] = sent[Done + 1]
  <2>1. PICK g, s, d : g = given' /\ s = sent /\ d = Done
    OBVIOUS
  <2>2. /\ g \in Seq(Bytes) /\ Len(g) = 1 /\ s \in Seq(Bytes) /\ d \in Nat /\ d + 1 <= Len(s)
        /\ g = SubSeq(s, d + 1, d + 1)
    BY <1>2, <1>4, <2>1, SMTT(30)
  <2>3. g[1] = s[d + 1] /\ s[d + 1] \in Bytes
    <3>1. d + 1 \in 1 .. Len(s) /\ s[d + 1] \in Bytes
      BY <2>2
    <3>2. \A i \in 1 .. 1 : SubSeq(s, d + 1, d + 1)[i] = s[d + i]
      BY <2>2
    <3> QED
      BY <2>2, <3>1, <3>2
  <2> QED
    BY <2>1, <2>2, <2>3
<1>6. /\ ptr' = Append(ptr, given'[1])
      /\ fixed_buffer_' \in Seq(Bytes) /\ glowable_buffer_' \in Seq(Bytes)
      /\ glowable_buffer_' = <<>> => Len(fixed_buffer_') <= fixed_buffer_size_ - 1
      /\ glowable_buffer_' # <<>> => Len(fixed_buffer_') >= fixed_buffer_size_ - 1
  BY <1>1, <1>5, LineGrows
<1>7. PICK p, q, b, s : p = ptr /\ q = ptr' /\ b = given'[1] /\ s = sent
  OBVIOUS
<1>8. /\ p \in Seq(Bytes) /\ s \in Seq(Bytes) /\ b \in Bytes /\ p = SubSeq(s, 1, Len(p))
      /\ q = Append(p, b) /\ Len(p) + 1 <= Len(s) /\ b = s[Len(p) + 1]
      /\ \A i \in 1 .. Len(p) : p[i] # "n"
  BY <1>2, <1>4, <1>5, <1>6, <1>7
<1>9. /\ q \in Seq(Bytes) /\ Len(q) = Len(p) + 1 /\ q[Len(q)] = b
      /\ \A i \in 1 .. Len(p) : q[i] = p[i]
  BY <1>8
<1>10. q = SubSeq(s, 1, Len(q))
  <2>1. PICK t : t = SubSeq(s, 1, Len(q))
    OBVIOUS
  <2>2. t \in Seq(Bytes) /\ Len(t) = Len(q) /\ \A i \in 1 .. Len(q) : t[i] = s[i]
    BY <1>8, <1>9, <2>1
  <2>3. ASSUME NEW i \in 1 .. Len(q) PROVE q[i] = s[i]
    <3>1. CASE i = Len(q)
      BY <1>8, <1>9, <3>1
    <3>2. CASE i # Len(q)
      <4>1. i \in 1 .. Len(p)
        BY <1>8, <1>9, <3>2
      <4>2. SubSeq(s, 1, Len(p))[i] = s[i]
        BY <1>8, <4>1
      <4> QED
        BY <1>8, <1>9, <4>1, <4>2
    <3> QED
      BY <3>1, <3>2
  <2> QED
    BY <1>9, <2>1, <2>2, <2>3
<1>11. Types(Bytes)'
  <2>1. arriving \in Seq(Bytes) /\ r \in Nat
    BY DEF IInv, Types
  <2> QED
    BY <1>1, <1>2, <1>3, <1>4, <1>6, <2>1 DEF Types
<1>12. Positions'
  <2>1. Len(ptr') = Len(ptr) + 1 /\ Len(ptr) \in Nat /\ r' = 0 /\ sent' = sent
    BY <1>1, <1>4, <1>7, <1>8, <1>9
  <2>2. Done' = Done + 1 /\ Done \in Nat
    BY <1>4, <2>1 DEF Done
  <2>3. r' <= length'
    BY <1>1, <1>4
  <2> QED
    BY <1>2, <1>5, <2>1, <2>2, <2>3 DEF Positions
<1>13. Line'
  <2>1. ptr' = SubSeq(sent', 1, Len(ptr'))
    BY <1>1, <1>7, <1>10
  <2>2. reading' = "line" => r' = 0 /\ \A i \in 1 .. Len(q) : q[i] # "n"
    BY <1>1, <1>4, <1>7, <1>8, <1>9
  <2>3. reading' = "content" => /\ Len(q) > 0 /\ q[Len(q)] = "n"
                                /\ \A i \in 1 .. Len(q) - 1 : q[i] # "n"
    BY <1>1, <1>7, <1>8, <1>9
  <2> QED
    BY <1>6, <1>7, <2>1, <2>2, <2>3 DEF Line
<1> QED
  BY <1>11, <1>12, <1>13 DEF IInv

\* A piece of the content
LEMMA ContentKeeps == ASSUME NEW Bytes, IInv(Bytes), read_content_with_length PROVE IInv(Bytes)'
<1> DEFINE size == IF length - r < CPPHTTPLIB_RECV_BUFSIZ THEN length - r ELSE CPPHTTPLIB_RECV_BUFSIZ
<1>1. /\ reading = "content" /\ r < length /\ read(size) /\ r' = r + Len(given')
      /\ sent' = sent /\ length' = length /\ arriving' = arriving /\ reading' = reading
      /\ fixed_buffer_' = fixed_buffer_ /\ glowable_buffer_' = glowable_buffer_
  BY DEF read_content_with_length
<1>2. r \in Nat /\ length \in Nat /\ Len(ptr) \in Nat
  BY DEF IInv, Types, ptr
<1>3. size \in Nat \ {0} /\ r + size <= length
  BY <1>1, <1>2, HttpStreamAssumption
<1> HIDE DEF size
<1>4. /\ given' \in Seq(Bytes) /\ Len(given') \in 1 .. size
      /\ Done + Len(given') <= Len(sent) /\ Rest' = From(sent, Done + Len(given'))
      /\ given' = SubSeq(sent, Done + 1, Done + Len(given'))
  BY <1>1, <1>3, ReadOn
<1>5. read_buff_' \in Seq(Bytes) /\ sock' \in Seq(Bytes)
  BY <1>1, <1>3, ReadGives DEF IInv
<1>6. ptr' = ptr
  BY <1>1 DEF ptr
<1>7. r' \in Nat /\ r' <= length'
  BY <1>1, <1>2, <1>3, <1>4
<1>8. Types(Bytes)'
  BY <1>1, <1>4, <1>5, <1>7 DEF IInv, Types
<1>9. Positions'
  <2>1. Done' = Done + Len(given') /\ Done \in Nat /\ Len(given') \in Nat
    BY <1>1, <1>2, <1>4, <1>6 DEF Done
  <2>2. Len(given') <= Done' /\ Done' - Len(given') + 1 = Done + 1
    BY <2>1
  <2> QED
    BY <1>1, <1>4, <1>7, <2>1, <2>2 DEF Positions
<1>10. Line'
  BY <1>1, <1>6 DEF IInv, Line
<1> QED
  BY <1>8, <1>9, <1>10 DEF IInv

\* Nothing has been read of what is sent.
LEMMA InitIInv ==
  ASSUME NEW Bytes, NEW stream \in Seq(Bytes), NEW len \in Nat, StreamInit(stream, len)
  PROVE  IInv(Bytes)
<1>1. Types(Bytes)
  BY DEF StreamInit, Types
<1>2. ptr = <<>> /\ Done = 0 /\ Rest = stream
  BY DEF StreamInit, ptr, Done, Rest
<1>3. Positions
  <2>1. From(stream, 0) = stream /\ SubSeq(stream, 0 - 0 + 1, 0) = <<>>
    BY SubSeqFull, SubSeqEmpty DEF From
  <2> QED
    BY <1>2, <2>1 DEF StreamInit, Positions
<1>4. Line
  <2>1. SubSeq(stream, 1, 0) = <<>>
    BY SubSeqEmpty
  <2> QED
    BY <1>2, <2>1, HttpStreamAssumption DEF StreamInit, Line
<1> QED
  BY <1>1, <1>3, <1>4 DEF IInv

LEMMA NextIInv == ASSUME NEW Bytes, IInv(Bytes), [StreamNext]_streamVars PROVE IInv(Bytes)'
<1>1. CASE UNCHANGED streamVars
  BY <1>1 DEF IInv, Types, Positions, Line, Rest, Done, ptr, streamVars
<1> QED
  BY <1>1, ArriveKeeps, GetlineKeeps, ContentKeeps DEF StreamNext

\* The line read is the one that ends with the first "n" of what was sent.
LEMMA Reads == ASSUME NEW Bytes, IInv(Bytes) PROVE ReadAsSent
<1>1. /\ sent \in Seq(Bytes) /\ ptr \in Seq(Bytes) /\ Len(ptr) \in Nat /\ r \in Nat
      /\ reading \in {"line", "content"} /\ Len(ptr) <= Len(sent)
  BY DEF IInv, Types, Positions, Done, ptr
<1>2. PICK p, s : p = ptr /\ s = sent
  OBVIOUS
<1>3. p \in Seq(Bytes) /\ s \in Seq(Bytes) /\ Len(p) <= Len(s) /\ p = SubSeq(s, 1, Len(p))
  BY <1>1, <1>2 DEF IInv, Line
<1>4. \A i \in 1 .. Len(p) : p[i] = s[i]
  <2>1. \A i \in 1 .. Len(p) : SubSeq(s, 1, Len(p))[i] = s[i]
    BY <1>3
  <2> QED
    BY <1>3, <2>1
<1>5. First(s, Len(p)) = p
  BY <1>3, SubSeqFull DEF First
<1>6. CASE reading = "line"
  <2>1. r = 0 /\ Done = Len(ptr)
    BY <1>1, <1>6 DEF IInv, Line, Done
  <2> QED
    BY <1>1, <1>2, <1>5, <1>6, <2>1 DEF ReadAsSent, IInv, Positions, Rest
<1>7. CASE reading = "content"
  <2>1. Len(p) > 0 /\ p[Len(p)] = "n" /\ \A i \in 1 .. Len(p) - 1 : p[i] # "n"
    BY <1>2, <1>7 DEF IInv, Line
  <2> DEFINE I == {i \in 1 .. Len(s) : s[i] = "n"}
  <2>2. Len(p) \in I /\ \A i \in I : Len(p) <= i
    BY <1>3, <1>4, <2>1
  <2>3. Min(I) = Len(p)
    BY <1>3, <2>2 DEF Min
  <2>4. SelectInSeq(s, LAMBDA x : x = "n") = Len(p)
    BY <2>2, <2>3 DEF SelectInSeq
  <2> QED
    BY <1>1, <1>2, <1>5, <1>7, <2>4 DEF ReadAsSent, IInv, Positions, Rest, Done
<1> QED
  BY <1>1, <1>6, <1>7

\* The bytes the readers get are those the client sent, in order, none lost and none twice, in
\* whatever pieces they arrive, for every stream and all sizes of the buffers, of the line and
\* of the content.
THEOREM ReadsWhatWasSent ==
  ASSUME NEW Bytes, NEW stream \in Seq(Bytes), NEW len \in Nat
  PROVE  StreamInit(stream, len) /\ [][StreamNext]_streamVars => []ReadAsSent
<1>1. StreamInit(stream, len) => IInv(Bytes)
  BY InitIInv
<1>2. IInv(Bytes) /\ [StreamNext]_streamVars => IInv(Bytes)'
  BY NextIInv
<1>3. IInv(Bytes) => ReadAsSent
  BY Reads
<1> QED
  BY <1>1, <1>2, <1>3, PTL

\* So are those the form parser is fed with, which looks at them in between and takes none.
THEOREM ParserGetsWhatWasSent ==
  ASSUME NEW Bytes, NEW forms, \A f \in forms : Content(f) \in Seq(Bytes)
  PROVE  MultipartInit(forms) /\ [][MultipartNext]_vars => []ReadAsSent
<1> DEFINE B == Bytes \cup {"L", "i", "n"}
<1>1. MultipartInit(forms) => IInv(B)
  <2> SUFFICES ASSUME NEW f \in forms,
                      StreamInit(<<"L", "i", "n">> \o Content(f) \o <<"L">>, Len(Content(f)))
               PROVE  IInv(B)
    BY Zenon DEF MultipartInit
  <2>1. Content(f) \in Seq(B) /\ <<"L", "i", "n">> \in Seq(B) /\ <<"L">> \in Seq(B)
    OBVIOUS
  <2>2. <<"L", "i", "n">> \o Content(f) \o <<"L">> \in Seq(B) /\ Len(Content(f)) \in Nat
    BY <2>1
  <2> QED
    BY <2>2, InitIInv
<1>2. [MultipartNext]_vars => [StreamNext]_streamVars
  BY Zenon DEF MultipartNext, Feed, parse, vars, StreamNext
<1>3. IInv(B) /\ [StreamNext]_streamVars => IInv(B)'
  BY NextIInv
<1>4. IInv(B) => ReadAsSent
  BY Reads
<1> QED
  BY <1>1, <1>2, <1>3, <1>4, PTL

-----------------------------------------------------------------------------
(***************************************************************************)
(* What a sequence put together of parts says, and where                   *)
(***************************************************************************)

\* A set of natural numbers with 0 and with each number's successor has all of them.
LEMMA Counting ==
  ASSUME NEW S, 0 \in S, \A n \in Nat : n \in S => n + 1 \in S
  PROVE  Nat \subseteq S
<1> SUFFICES ASSUME Nat \ S # {} PROVE FALSE
  OBVIOUS
<1> DEFINE R == OpToRel(<, Nat)
<1>1. IsWellFoundedOn(R, Nat)
  BY NatLessThanWellFounded, Zenon
<1>2. \A y, x \in Nat : y < x => <<y, x>> \in R
  BY DEF OpToRel
<1> HIDE DEF R
<1>3. PICK x \in Nat \ S : \A y \in Nat \ S : ~ (<<y, x>> \in R)
  BY <1>1, WFMin
<1>4. x \in Nat \ {0} /\ x - 1 \in Nat /\ x - 1 < x /\ (x - 1) + 1 = x
  BY <1>3
<1>5. x - 1 \in Nat \ S
  BY <1>3, <1>4
<1> QED
  BY <1>2, <1>3, <1>4, <1>5

\* s says w behind its first i elements.
Occurs(s, w, i) == \A j \in 1 .. Len(w) : s[i + j] = w[j]

\* A concatenation says its first part at its beginning and the second behind it.
LEMMA ConcatSays ==
  ASSUME NEW A, NEW s \in Seq(A), NEW t \in Seq(A)
  PROVE  /\ s \o t \in Seq(A) /\ Len(s \o t) = Len(s) + Len(t)
         /\ Occurs(s \o t, s, 0) /\ Occurs(s \o t, t, Len(s))
BY DEF Occurs

\* What says w says what w says,
LEMMA OccursIn ==
  ASSUME NEW A, NEW s \in Seq(A), NEW w \in Seq(A), NEW v \in Seq(A), NEW i \in Nat, NEW j \in Nat,
         Occurs(s, w, i), Occurs(w, v, j), j + Len(v) <= Len(w)
  PROVE  Occurs(s, v, i + j)
<1> SUFFICES ASSUME NEW k \in 1 .. Len(v) PROVE s[(i + j) + k] = v[k]
  BY DEF Occurs
<1>1. j + k \in 1 .. Len(w) /\ i + (j + k) = (i + j) + k
  OBVIOUS
<1>2. s[i + (j + k)] = w[j + k] /\ w[j + k] = v[k]
  BY <1>1 DEF Occurs
<1> QED
  BY <1>1, <1>2

\* and is what it says if there is no more to it.
LEMMA OccursFull ==
  ASSUME NEW A, NEW s \in Seq(A), NEW w \in Seq(A), Len(s) = Len(w), Occurs(s, w, 0)
  PROVE  s = w
<1>1. \A j \in 1 .. Len(s) : s[j] = w[j]
  <2>1. ASSUME NEW j \in 1 .. Len(s) PROVE s[j] = w[j]
    <3>1. j \in 1 .. Len(w) /\ 0 + j = j
      OBVIOUS
    <3> QED
      BY <3>1 DEF Occurs
  <2> QED
    BY <2>1
<1> QED
  BY <1>1, SeqEqual

\* The function FlattenSeq is defined with: the sequences up to the i-th put together
LEMMA Flattening ==
  ASSUME NEW A, NEW ss \in Seq(Seq(A)), ss # <<>>
  PROVE  \E g : /\ g[1] = ss[1] /\ \A i \in 2 .. Len(ss) : g[i] = g[i - 1] \o ss[i]
                /\ FlattenSeq(ss) = g[Len(ss)]
<1> DEFINE n == Len(ss)
           Upto(m, g) == g = [i \in 1 .. m |-> IF i = 1 THEN ss[i] ELSE g[i - 1] \o ss[i]]
           S == {m \in Nat : \E g : Upto(m, g)}
<1>1. n \in Nat \ {0}
  OBVIOUS
<1>2. 0 \in S
  <2>1. Upto(0, [i \in 1 .. 0 |-> i])
    OBVIOUS
  <2> QED
    BY <2>1
<1>3. ASSUME NEW m \in Nat, m \in S PROVE m + 1 \in S
  <2>1. PICK g : Upto(m, g)
    BY <1>3
  <2> DEFINE h == [i \in 1 .. m + 1 |-> IF i <= m THEN g[i]
                                         ELSE IF i = 1 THEN ss[i] ELSE g[i - 1] \o ss[i]]
  <2>2. \A i \in 1 .. m : g[i] = IF i = 1 THEN ss[i] ELSE g[i - 1] \o ss[i]
    BY <2>1
  <2>3. \A i \in 1 .. m + 1 : h[i] = IF i = 1 THEN ss[i] ELSE h[i - 1] \o ss[i]
    <3> SUFFICES ASSUME NEW i \in 1 .. m + 1
                 PROVE  h[i] = IF i = 1 THEN ss[i] ELSE h[i - 1] \o ss[i]
      OBVIOUS
    <3>1. i # 1 => i - 1 \in 1 .. m
      OBVIOUS
    <3>2. i # 1 => h[i - 1] = g[i - 1]
      BY <3>1
    <3>3. CASE i <= m
      <4>1. h[i] = g[i] /\ i \in 1 .. m
        BY <3>3
      <4> QED
        BY <2>2, <3>2, <4>1, Zenon
    <3>4. CASE ~ (i <= m)
      <4>1. h[i] = IF i = 1 THEN ss[i] ELSE g[i - 1] \o ss[i]
        BY <3>4
      <4> QED
        BY <3>2, <4>1, Zenon
    <3> QED
      BY <3>3, <3>4
  <2>4. Upto(m + 1, h)
    <3> DEFINE h1 == [i \in 1 .. m + 1 |-> IF i = 1 THEN ss[i] ELSE h[i - 1] \o ss[i]]
    <3>1. DOMAIN h = 1 .. m + 1 /\ h = [i \in 1 .. m + 1 |-> h[i]]
      OBVIOUS
    <3>2. [i \in 1 .. m + 1 |-> h[i]] = h1
      BY <2>3, Zenon
    <3> QED
      BY <3>1, <3>2, Zenon
  <2> HIDE DEF h, Upto
  <2> QED
    BY <2>4
<1>4. PICK g : Upto(n, g)
  <2> HIDE DEF S
  <2>1. n \in S
    BY <1>1, <1>2, <1>3, Counting
  <2> QED
    BY <2>1 DEF S
<1> DEFINE h == CHOOSE g1 : Upto(n, g1)
<1>5. Upto(n, h)
  BY <1>4, Zenon
<1>6. FlattenSeq(ss) = h[n]
  <2>1. ~ (n = 0)
    BY <1>1
  <2> QED
    BY <2>1, Zenon DEF FlattenSeq
<1> HIDE DEF h
<1>7. \A i \in 1 .. n : h[i] = IF i = 1 THEN ss[i] ELSE h[i - 1] \o ss[i]
  BY <1>5
<1>8. h[1] = ss[1]
  BY <1>1, <1>7
<1>9. \A i \in 2 .. n : i \in 1 .. n /\ i # 1
  BY <1>1
<1>10. \A i \in 2 .. n : h[i] = h[i - 1] \o ss[i]
  BY <1>7, <1>9, Zenon
<1> QED
  BY <1>6, <1>8, <1>10

\* L says where the parts of ss are in flat.
Places(ss, flat, L) ==
  /\ L \in [0 .. Len(ss) -> Nat] /\ L[0] = 0 /\ L[Len(ss)] = Len(flat)
  /\ \A k \in 1 .. Len(ss) : /\ L[k] = L[k - 1] + Len(ss[k]) /\ L[k] <= Len(flat)
                             /\ Occurs(flat, ss[k], L[k - 1])

\* A flattened sequence has all its parts, one behind the other.
LEMMA Flattened ==
  ASSUME NEW A, NEW ss \in Seq(Seq(A))
  PROVE  FlattenSeq(ss) \in Seq(A) /\ \E L : Places(ss, FlattenSeq(ss), L)
<1>1. CASE ss = <<>>
  <2>1. FlattenSeq(ss) = <<>> /\ Len(ss) = 0
    BY <1>1 DEF FlattenSeq
  <2>2. Places(ss, <<>>, [i \in 0 .. 0 |-> 0])
    BY <1>1, <2>1 DEF Places
  <2> QED
    BY <2>1, <2>2
<1>2. CASE ss # <<>>
  <2> DEFINE n == Len(ss)
  <2>1. n \in Nat \ {0}
    BY <1>2
  <2>2. PICK g : /\ g[1] = ss[1] /\ \A i \in 2 .. Len(ss) : g[i] = g[i - 1] \o ss[i]
                 /\ FlattenSeq(ss) = g[Len(ss)]
    BY <1>2, Flattening
  <2> DEFINE L == [i \in 0 .. n |-> IF i = 0 THEN 0 ELSE Len(g[i])]
             P(m) == /\ g[m] \in Seq(A)
                     /\ \A k \in 1 .. m : /\ L[k] \in Nat /\ L[k] = L[k - 1] + Len(ss[k])
                                          /\ L[k] <= Len(g[m]) /\ Occurs(g[m], ss[k], L[k - 1])
             S == {m \in Nat : m + 1 <= n => P(m + 1)}
  <2>3. P(1)
    <3>1. ss[1] \in Seq(A) /\ L[0] = 0 /\ L[1] = Len(ss[1]) /\ g[1] = ss[1]
      BY <2>1, <2>2
    <3>2. Occurs(ss[1], ss[1], 0)
      BY <3>1 DEF Occurs
    <3> HIDE DEF L
    <3>3. L[1] \in Nat /\ L[1] = L[1 - 1] + Len(ss[1]) /\ Occurs(g[1], ss[1], L[1 - 1])
      BY <3>1, <3>2
    <3> QED
      BY <3>1, <3>3
  <2>4. ASSUME NEW m \in Nat, m + 2 <= n, P(m + 1) PROVE P(m + 2)
    <3>1. /\ m + 2 \in 2 .. n /\ (m + 2) - 1 = m + 1 /\ m + 1 \in 0 .. n /\ m + 1 # 0 /\ m + 2 # 0
          /\ m + 2 \in 1 .. n
      BY <2>4
    <3>2. g[m + 2] = g[m + 1] \o ss[m + 2] /\ ss[m + 2] \in Seq(A) /\ g[m + 1] \in Seq(A)
      <4>1. g[m + 2] = g[(m + 2) - 1] \o ss[m + 2]
        BY <2>2, <3>1, Zenon
      <4>2. ss[m + 2] \in Seq(A)
        BY <3>1
      <4> HIDE DEF L
      <4>3. g[m + 1] \in Seq(A)
        BY <2>4, Zenon
      <4> QED
        BY <3>1, <4>1, <4>2, <4>3
    <3>3. L[m + 1] = Len(g[m + 1]) /\ L[m + 2] = Len(g[m + 2])
      BY <3>1
    <3> HIDE DEF L
    <3>0. PICK x, y, z : x = g[m + 1] /\ y = ss[m + 2] /\ z = g[m + 2]
      OBVIOUS
    <3>4. /\ z \in Seq(A) /\ Len(z) = Len(x) + Len(y) /\ Occurs(z, x, 0) /\ Occurs(z, y, Len(x))
          /\ x \in Seq(A) /\ y \in Seq(A)
      BY <3>0, <3>2, ConcatSays
    <3>5. ASSUME NEW k \in 1 .. m + 2
          PROVE  /\ L[k] \in Nat /\ L[k] = L[k - 1] + Len(ss[k])
                 /\ L[k] <= Len(z) /\ Occurs(z, ss[k], L[k - 1])
      <4>1. CASE k = m + 2
        <5>1. k - 1 = m + 1 /\ L[k] = Len(z) /\ L[k - 1] = Len(x) /\ ss[k] = y
          BY <4>1, <3>0, <3>3
        <5>2. Len(x) \in Nat /\ Len(y) \in Nat /\ Len(z) \in Nat
          BY <3>4
        <5> QED
          BY <3>4, <5>1, <5>2
      <4>2. CASE k # m + 2
        <5>1. k \in 1 .. m + 1
          BY <4>2
        <5>2. /\ L[k] \in Nat /\ L[k] = L[k - 1] + Len(ss[k])
              /\ L[k] <= Len(x) /\ Occurs(x, ss[k], L[k - 1])
          BY <2>4, <3>0, <5>1
        <5>3. k \in 1 .. n
          BY <5>1, <2>4
        <5>4. ss[k] \in Seq(A)
          BY <5>3
        <5>5. L[k - 1] \in Nat
          BY <5>3 DEF L
        <5>6. Occurs(z, ss[k], 0 + L[k - 1])
          <6>1. L[k - 1] + Len(ss[k]) <= Len(x) /\ 0 \in Nat
            BY <5>2
          <6> QED
            BY <3>4, <5>2, <5>4, <5>5, <6>1, OccursIn
        <5>7. Len(x) \in Nat /\ Len(y) \in Nat /\ 0 + L[k - 1] = L[k - 1]
          BY <3>4, <5>5
        <5> QED
          BY <3>4, <5>2, <5>6, <5>7
      <4> QED
        BY <4>1, <4>2
    <3> QED
      BY <3>0, <3>4, <3>5
  <2>5. n - 1 \in S
    <3>1. 0 \in S
      BY <2>3
    <3>2. ASSUME NEW m \in Nat, m \in S PROVE m + 1 \in S
      <4>1. m + 2 <= n => m + 1 <= n
        BY <2>1
      <4>2. m + 2 <= n => P(m + 1)
        BY <3>2, <4>1
      <4> HIDE DEF P
      <4>3. m + 2 <= n => P(m + 2)
        BY <2>4, <4>2
      <4>4. (m + 1) + 1 = m + 2 /\ m + 1 \in Nat
        OBVIOUS
      <4> QED
        BY <4>3, <4>4
    <3> HIDE DEF S
    <3>3. n - 1 \in Nat
      BY <2>1
    <3> QED
      BY <3>1, <3>2, <3>3, Counting
  <2>6. P(n)
    <3>1. (n - 1) + 1 = n /\ n <= n
      BY <2>1
    <3> HIDE DEF P
    <3> QED
      BY <2>5, <3>1
  <2>7. L \in [0 .. n -> Nat] /\ L[0] = 0 /\ L[n] = Len(g[n])
    <3>1. L[0] = 0 /\ L[n] = Len(g[n])
      BY <2>1
    <3>2. ASSUME NEW i \in 0 .. n PROVE L[i] \in Nat
      <4>1. i = 0 \/ i \in 1 .. n
        BY <2>1
      <4> HIDE DEF L
      <4> QED
        BY <2>6, <3>1, <4>1
    <3>3. L = [i \in 0 .. n |-> L[i]]
      OBVIOUS
    <3> HIDE DEF L
    <3> QED
      BY <3>1, <3>2, <3>3
  <2> HIDE DEF L
  <2>8. Places(ss, g[n], L)
    BY <2>6, <2>7 DEF Places
  <2> QED
    BY <2>2, <2>6, <2>8
<1> QED
  BY <1>1, <1>2

-----------------------------------------------------------------------------
(***************************************************************************)
(* The form parser.  Chars is the set the characters of a form are from.   *)
(***************************************************************************)

\* The characters the protocol itself is written with
Signs == {"L", "i", "n", "r", "-", "b", "H"}

\* w is nowhere in s.
Lacks(s, w) == \A i \in 0 .. Len(s) - Len(w) : ~Occurs(s, w, i)

\* A form as a client writes it: the boundary is not in what comes before the first one nor in a
\* file, there is a file, and what is behind the last boundary follows its two dashes.
WellFormed(Chars, f) ==
  /\ f.preamble \in Seq(Chars) /\ f.files \in Seq(Seq(Chars)) /\ f.epilogue \in Seq(Chars)
  /\ f.files # <<>>
  /\ Lacks(f.preamble, dash_boundary_crlf_)
  /\ \A k \in DOMAIN f.files : Lacks(f.files[k], crlf_dash_boundary_)
  /\ ~f.closed => f.epilogue = <<>>

\* E says where the boundaries of f end in its content, the first being the 0-th.
LaidOut(f, E) ==
  LET n == Len(f.files) IN
  /\ E \in [0 .. n -> Nat] /\ E[0] = Len(f.preamble) + 3
  /\ Occurs(Content(f), f.preamble, 0)
  /\ Occurs(Content(f), <<"-", "-", "b">>, Len(f.preamble))
  /\ \A k \in 1 .. n :
       /\ E[k] = E[k - 1] + Len(f.files[k]) + 12 /\ E[k] <= E[n]
       /\ Occurs(Content(f), <<"r", "n", "H", "r", "n", "r", "n">>, E[k - 1])
       /\ Occurs(Content(f), f.files[k], E[k - 1] + 7)
       /\ Occurs(Content(f), <<"r", "n", "-", "-", "b">>, E[k] - 5)
  /\ Len(Content(f)) = E[n] + (IF f.closed THEN 2 ELSE 0) + Len(f.epilogue)
  /\ f.closed => Occurs(Content(f), <<"-", "-">>, E[n])

\* A file between the boundary before it and the one behind it
Between(file) ==
  crlf_ \o <<"H">> \o crlf_ \o crlf_ \o file \o crlf_dash_boundary_

LEMMA BetweenSays ==
  ASSUME NEW Chars, Signs \subseteq Chars, NEW file \in Seq(Chars)
  PROVE  /\ Between(file) \in Seq(Chars) /\ Len(Between(file)) = Len(file) + 12
         /\ Occurs(Between(file), <<"r", "n", "H", "r", "n", "r", "n">>, 0)
         /\ Occurs(Between(file), file, 7)
         /\ Occurs(Between(file), <<"r", "n", "-", "-", "b">>, Len(file) + 7)
<1> DEFINE head == <<"r", "n", "H", "r", "n", "r", "n">>
           tail == <<"r", "n", "-", "-", "b">>
<1>1. /\ crlf_ \o <<"H">> \o crlf_ \o crlf_ = head
      /\ crlf_dash_boundary_ = tail
  <2> USE DEF crlf_, dash_
  <2>1. PICK t : t = crlf_ \o <<"H">>
    OBVIOUS
  <2>2. t \in Seq(Signs) /\ Len(t) = 3 /\ t[1] = "r" /\ t[2] = "n" /\ t[3] = "H"
    BY <2>1 DEF Signs
  <2>3. t = <<"r", "n", "H">>
    BY <2>2
  <2>4. PICK u : u = <<"r", "n", "H">> \o crlf_
    OBVIOUS
  <2>5. /\ u \in Seq(Signs) /\ Len(u) = 5
        /\ u[1] = "r" /\ u[2] = "n" /\ u[3] = "H" /\ u[4] = "r" /\ u[5] = "n"
    BY <2>4 DEF Signs
  <2>6. u = <<"r", "n", "H", "r", "n">>
    BY <2>5
  <2>7. PICK v : v = <<"r", "n", "H", "r", "n">> \o crlf_
    OBVIOUS
  <2>8. /\ v \in Seq(Signs) /\ Len(v) = 7 /\ v[1] = "r" /\ v[2] = "n" /\ v[3] = "H"
        /\ v[4] = "r" /\ v[5] = "n" /\ v[6] = "r" /\ v[7] = "n"
    BY <2>7 DEF Signs
  <2>9. v = head
    BY <2>8
  <2>10. PICK x : x = crlf_ \o dash_
    OBVIOUS
  <2>11. x \in Seq(Signs) /\ Len(x) = 4 /\ x[1] = "r" /\ x[2] = "n" /\ x[3] = "-" /\ x[4] = "-"
    BY <2>10 DEF Signs
  <2>12. x = <<"r", "n", "-", "-">>
    BY <2>11
  <2>13. PICK y : y = <<"r", "n", "-", "-">> \o <<"b">>
    OBVIOUS
  <2>14. /\ y \in Seq(Signs) /\ Len(y) = 5
         /\ y[1] = "r" /\ y[2] = "n" /\ y[3] = "-" /\ y[4] = "-" /\ y[5] = "b"
    BY <2>13 DEF Signs
  <2>15. y = tail
    BY <2>14
  <2> HIDE DEF crlf_, dash_
  <2> QED
    BY <2>1, <2>3, <2>4, <2>6, <2>7, <2>9, <2>10, <2>12, <2>13, <2>15 DEF crlf_dash_boundary_
<1>2. head \in Seq(Chars) /\ tail \in Seq(Chars) /\ Len(head) = 7 /\ Len(tail) = 5
  BY DEF Signs
<1>3. Between(file) = (head \o file) \o tail
  BY <1>1 DEF Between
<1> HIDE DEF head, tail
<1>4. PICK hf : hf = head \o file
  OBVIOUS
<1>5. /\ hf \in Seq(Chars) /\ Len(hf) = Len(file) + 7
      /\ Occurs(hf, head, 0) /\ Occurs(hf, file, 7)
  <2>1. Len(hf) = Len(head) + Len(file) /\ Occurs(hf, file, Len(head))
    BY <1>2, <1>4, ConcatSays
  <2>2. hf \in Seq(Chars) /\ Occurs(hf, head, 0)
    BY <1>2, <1>4, ConcatSays
  <2> QED
    BY <1>2, <2>1, <2>2
<1>6. PICK all : all = hf \o tail
  OBVIOUS
<1>7. /\ all \in Seq(Chars) /\ Len(all) = Len(file) + 12
      /\ Occurs(all, hf, 0) /\ Occurs(all, tail, Len(file) + 7)
  <2>1. Len(all) = Len(hf) + Len(tail) /\ Occurs(all, tail, Len(hf))
    BY <1>2, <1>5, <1>6, ConcatSays
  <2>2. all \in Seq(Chars) /\ Occurs(all, hf, 0)
    BY <1>2, <1>5, <1>6, ConcatSays
  <2> QED
    BY <1>2, <1>5, <2>1, <2>2
<1>8. Occurs(all, head, 0)
  <2>1. 0 \in Nat /\ 0 + Len(head) <= Len(hf) /\ 0 + 0 = 0
    BY <1>2, <1>5
  <2>2. Occurs(all, head, 0 + 0)
    BY <1>2, <1>5, <1>7, <2>1, OccursIn
  <2> QED
    BY <2>1, <2>2
<1>9. Occurs(all, file, 7)
  <2>1. 0 \in Nat /\ 7 \in Nat /\ 7 + Len(file) <= Len(hf) /\ 0 + 7 = 7
    BY <1>5
  <2>2. Occurs(all, file, 0 + 7)
    BY <1>5, <1>7, <2>1, OccursIn
  <2> QED
    BY <2>1, <2>2
<1> QED
  BY <1>3, <1>4, <1>6, <1>7, <1>8, <1>9 DEF head, tail

\* What a sequence says it also says with more behind it.
LEMMA SaysStill ==
  ASSUME NEW A, NEW s \in Seq(A), NEW t \in Seq(A), NEW w \in Seq(A), NEW i \in Nat,
         Occurs(s, w, i), i + Len(w) <= Len(s)
  PROVE  Occurs(s \o t, w, i)
<1>1. \A j \in 1 .. Len(s) : (s \o t)[j] = s[j]
  OBVIOUS
<1>2. \A j \in 1 .. Len(w) : i + j \in 1 .. Len(s)
  OBVIOUS
<1> QED
  BY <1>1, <1>2 DEF Occurs

\* The content of a form, from one end to the other
LEMMA ContentSays ==
  ASSUME NEW Chars, Signs \subseteq Chars, NEW f, WellFormed(Chars, f),
         NEW flat \in Seq(Chars),
         Content(f) = f.preamble \o dash_ \o <<"b">> \o flat
                      \o (IF f.closed THEN dash_ ELSE <<>>) \o f.epilogue
  PROVE  /\ Content(f) \in Seq(Chars)
         /\ Occurs(Content(f), f.preamble, 0)
         /\ Occurs(Content(f), <<"-", "-", "b">>, Len(f.preamble))
         /\ Occurs(Content(f), flat, Len(f.preamble) + 3)
         /\ Len(Content(f)) = Len(f.preamble) + 3 + Len(flat) + (IF f.closed THEN 2 ELSE 0)
                              + Len(f.epilogue)
         /\ f.closed => Occurs(Content(f), <<"-", "-">>, Len(f.preamble) + 3 + Len(flat))
<1>1. PICK pre, epi, close : /\ pre = f.preamble /\ epi = f.epilogue
                             /\ close = IF f.closed THEN dash_ ELSE <<>>
  OBVIOUS
<1>2. /\ pre \in Seq(Chars) /\ epi \in Seq(Chars) /\ close \in Seq(Chars)
      /\ Len(close) = IF f.closed THEN 2 ELSE 0
      /\ dash_ \in Seq(Chars) /\ <<"b">> \in Seq(Chars)
      /\ Len(dash_) = 2 /\ Len(<<"b">>) = 1
      /\ Len(pre) \in Nat /\ Len(flat) \in Nat /\ Len(epi) \in Nat /\ Len(close) \in Nat
  BY <1>1 DEF WellFormed, dash_, Signs
<1>3. PICK s1 : s1 = pre \o dash_
  OBVIOUS
<1>4. /\ s1 \in Seq(Chars) /\ Len(s1) = Len(pre) + 2
      /\ Occurs(s1, pre, 0) /\ Occurs(s1, dash_, Len(pre))
  <2>1. s1 \in Seq(Chars) /\ Len(s1) = Len(pre) + Len(dash_)
    BY <1>2, <1>3, ConcatSays
  <2>2. Occurs(s1, pre, 0) /\ Occurs(s1, dash_, Len(pre))
    BY <1>2, <1>3, ConcatSays
  <2> QED
    BY <1>2, <2>1, <2>2
<1>5. PICK s2 : s2 = s1 \o <<"b">>
  OBVIOUS
<1>6. /\ s2 \in Seq(Chars) /\ Len(s2) = Len(pre) + 3
      /\ Occurs(s2, pre, 0) /\ Occurs(s2, <<"-", "-", "b">>, Len(pre))
  <2>1. s2 \in Seq(Chars) /\ Len(s2) = Len(s1) + Len(<<"b">>) /\ Occurs(s2, <<"b">>, Len(s1))
    BY <1>2, <1>4, <1>5, ConcatSays
  <2>2. Occurs(s2, pre, 0) /\ Occurs(s2, dash_, Len(pre))
    <3>1. 0 \in Nat /\ 0 + Len(pre) <= Len(s1) /\ Len(pre) + Len(dash_) <= Len(s1)
      BY <1>2, <1>4
    <3> QED
      BY <1>2, <1>4, <1>5, <3>1, SaysStill
  <2>3. s2[Len(pre) + 1] = "-" /\ s2[Len(pre) + 2] = "-"
    BY <1>2, <2>2 DEF Occurs, dash_
  <2>4. s2[(Len(pre) + 2) + 1] = "b"
    BY <1>4, <2>1 DEF Occurs
  <2>5. Occurs(s2, <<"-", "-", "b">>, Len(pre))
    <3>1. (Len(pre) + 2) + 1 = Len(pre) + 3
      BY <1>2
    <3>2. PICK p \in Nat : p = Len(pre)
      BY <1>2
    <3>3. s2[p + 1] = "-" /\ s2[p + 2] = "-" /\ s2[p + 3] = "b"
      BY <2>3, <2>4, <3>1, <3>2
    <3>4. Occurs(s2, <<"-", "-", "b">>, p)
      BY <3>3 DEF Occurs
    <3> QED
      BY <3>2, <3>4
  <2> QED
    BY <1>2, <1>4, <2>1, <2>2, <2>5
<1>7. PICK s3 : s3 = s2 \o flat
  OBVIOUS
<1>8. /\ s3 \in Seq(Chars) /\ Len(s3) = Len(pre) + 3 + Len(flat)
      /\ Occurs(s3, pre, 0) /\ Occurs(s3, <<"-", "-", "b">>, Len(pre))
      /\ Occurs(s3, flat, Len(pre) + 3)
  <2>1. s3 \in Seq(Chars) /\ Len(s3) = Len(s2) + Len(flat) /\ Occurs(s3, flat, Len(s2))
    BY <1>6, <1>7, ConcatSays
  <2>2. Occurs(s3, pre, 0)
    <3>1. 0 \in Nat /\ 0 + Len(pre) <= Len(s2)
      BY <1>2, <1>6
    <3> QED
      BY <1>2, <1>6, <1>7, <3>1, SaysStill
  <2>3. Occurs(s3, <<"-", "-", "b">>, Len(pre))
    <3>1. <<"-", "-", "b">> \in Seq(Chars) /\ Len(pre) + Len(<<"-", "-", "b">>) <= Len(s2)
      BY <1>2, <1>6 DEF Signs
    <3> QED
      BY <1>2, <1>6, <1>7, <3>1, SaysStill
  <2> QED
    BY <1>6, <2>1, <2>2, <2>3
<1>9. PICK s4 : s4 = s3 \o close
  OBVIOUS
<1>10. /\ s4 \in Seq(Chars) /\ Len(s4) = Len(s3) + Len(close) /\ Occurs(s4, close, Len(s3))
       /\ Occurs(s4, s3, 0)
  BY <1>2, <1>8, <1>9, ConcatSays
<1>11. PICK s5 : s5 = s4 \o epi
  OBVIOUS
<1>12. /\ s5 \in Seq(Chars) /\ Len(s5) = Len(s4) + Len(epi) /\ Occurs(s5, s4, 0)
  BY <1>2, <1>10, <1>11, ConcatSays
<1>13. Content(f) = s5
  BY <1>1, <1>3, <1>5, <1>7, <1>9, <1>11
<1>14. ASSUME NEW w \in Seq(Chars), NEW i \in Nat, Occurs(s3, w, i), i + Len(w) <= Len(s3)
       PROVE  Occurs(s5, w, i)
  <2>1. i + Len(w) <= Len(s4)
    BY <1>2, <1>8, <1>10, <1>14
  <2>2. Occurs(s4, w, i)
    BY <1>2, <1>8, <1>9, <1>14, SaysStill
  <2> QED
    BY <1>2, <1>10, <1>11, <2>1, <2>2, SaysStill
<1>15. Occurs(s5, pre, 0)
  <2>1. 0 \in Nat /\ 0 + Len(pre) <= Len(s3)
    BY <1>2, <1>8
  <2> QED
    BY <1>2, <1>8, <1>14, <2>1
<1>16. Occurs(s5, <<"-", "-", "b">>, Len(pre))
  <2>1. <<"-", "-", "b">> \in Seq(Chars) /\ Len(pre) + Len(<<"-", "-", "b">>) <= Len(s3)
    BY <1>2, <1>8 DEF Signs
  <2> QED
    BY <1>2, <1>8, <1>14, <2>1
<1>17. Occurs(s5, flat, Len(pre) + 3)
  <2>1. Len(pre) + 3 \in Nat /\ (Len(pre) + 3) + Len(flat) <= Len(s3)
    BY <1>2, <1>8
  <2> QED
    BY <1>2, <1>8, <1>14, <2>1
<1>18. Occurs(s5, close, Len(s3))
  <2>1. Len(s3) \in Nat /\ Len(s3) + Len(close) <= Len(s4)
    BY <1>2, <1>8, <1>10
  <2> QED
    BY <1>2, <1>10, <1>11, <2>1, SaysStill
<1>19. Len(s5) = Len(pre) + 3 + Len(flat) + (IF f.closed THEN 2 ELSE 0) + Len(epi)
  BY <1>2, <1>8, <1>10, <1>12
<1> QED
  BY <1>1, <1>8, <1>12, <1>13, <1>15, <1>16, <1>17, <1>18, <1>19, Zenon DEF dash_

\* Every form is laid out.
LEMMA FormLaidOut ==
  ASSUME NEW Chars, Signs \subseteq Chars, NEW f, WellFormed(Chars, f)
  PROVE  Content(f) \in Seq(Chars) /\ \E E : LaidOut(f, E)
<1>1. PICK fs : fs = f.files
  OBVIOUS
<1>2. fs \in Seq(Seq(Chars)) /\ Len(f.preamble) \in Nat
  BY <1>1 DEF WellFormed
<1>3. PICK n \in Nat : n = Len(fs)
  BY <1>2
<1>4. PICK ss : ss = [i \in DOMAIN fs |-> Between(fs[i])]
  OBVIOUS
<1>5. ASSUME NEW k \in 1 .. n PROVE fs[k] \in Seq(Chars) /\ ss[k] = Between(fs[k])
  BY <1>2, <1>3, <1>4, <1>5
<1>6. ss \in Seq(Seq(Chars)) /\ Len(ss) = n
  <2>1. \A k \in 1 .. n : Between(fs[k]) \in Seq(Chars)
    BY <1>5, BetweenSays
  <2>2. ss = [i \in 1 .. n |-> Between(fs[i])]
    BY <1>2, <1>3, <1>4
  <2> QED
    BY <2>1, <2>2
<1>7. FlattenSeq(ss) \in Seq(Chars) /\ \E L : Places(ss, FlattenSeq(ss), L)
  BY <1>6, Flattened
<1>8. PICK flat : flat = FlattenSeq(ss)
  OBVIOUS
<1>9. flat \in Seq(Chars) /\ Len(flat) \in Nat
  BY <1>7, <1>8
<1>10. PICK L : Places(ss, flat, L)
  BY <1>7, <1>8
<1>11. PICK C : C = Content(f)
  OBVIOUS
<1>12. C = f.preamble \o dash_ \o <<"b">> \o flat \o (IF f.closed THEN dash_ ELSE <<>>) \o f.epilogue
  BY <1>1, <1>4, <1>8, <1>11 DEF Content, Between
<1>13. /\ C \in Seq(Chars)
       /\ Occurs(C, f.preamble, 0)
       /\ Occurs(C, <<"-", "-", "b">>, Len(f.preamble))
       /\ Occurs(C, flat, Len(f.preamble) + 3)
       /\ Len(C) = Len(f.preamble) + 3 + Len(flat) + (IF f.closed THEN 2 ELSE 0)
                            + Len(f.epilogue)
       /\ f.closed => Occurs(C, <<"-", "-">>, Len(f.preamble) + 3 + Len(flat))
  <2>1. /\ Content(f) \in Seq(Chars)
        /\ Occurs(Content(f), f.preamble, 0)
        /\ Occurs(Content(f), <<"-", "-", "b">>, Len(f.preamble))
        /\ Occurs(Content(f), flat, Len(f.preamble) + 3)
        /\ Len(Content(f)) = Len(f.preamble) + 3 + Len(flat) + (IF f.closed THEN 2 ELSE 0)
                             + Len(f.epilogue)
        /\ f.closed => Occurs(Content(f), <<"-", "-">>, Len(f.preamble) + 3 + Len(flat))
    BY <1>9, <1>11, <1>12, ContentSays, Zenon
  <2> QED
    BY <1>11, <2>1, Zenon
<1>14. PICK o \in Nat : o = Len(f.preamble) + 3
  BY <1>2
<1>15. /\ L \in [0 .. n -> Nat] /\ L[0] = 0 /\ L[n] = Len(flat)
       /\ \A k \in 1 .. n : /\ L[k] = L[k - 1] + Len(ss[k]) /\ L[k] <= Len(flat)
                            /\ Occurs(flat, ss[k], L[k - 1])
  BY <1>6, <1>10 DEF Places
<1> DEFINE E == [k \in 0 .. n |-> o + L[k]]
<1>16. E \in [0 .. n -> Nat] /\ E[0] = Len(f.preamble) + 3
  BY <1>14, <1>15
<1>17. ASSUME NEW k \in 1 .. n
       PROVE  /\ E[k] = E[k - 1] + Len(fs[k]) + 12 /\ E[k] <= E[n]
              /\ Occurs(C, <<"r", "n", "H", "r", "n", "r", "n">>, E[k - 1])
              /\ Occurs(C, fs[k], E[k - 1] + 7)
              /\ Occurs(C, <<"r", "n", "-", "-", "b">>, E[k] - 5)
  <2>1. PICK a, b, file : a = L[k - 1] /\ b = L[k] /\ file = fs[k]
    OBVIOUS
  <2>2. k - 1 \in 0 .. n /\ k \in 0 .. n /\ n \in 0 .. n
    OBVIOUS
  <2>3. E[k - 1] = o + a /\ E[k] = o + b /\ E[n] = o + Len(flat) /\ a \in Nat /\ b \in Nat
    BY <1>15, <2>1, <2>2
  <2>4. /\ file \in Seq(Chars) /\ ss[k] = Between(file) /\ Len(file) \in Nat
        /\ Between(file) \in Seq(Chars) /\ Len(Between(file)) = Len(file) + 12
        /\ Occurs(Between(file), <<"r", "n", "H", "r", "n", "r", "n">>, 0)
        /\ Occurs(Between(file), file, 7)
        /\ Occurs(Between(file), <<"r", "n", "-", "-", "b">>, Len(file) + 7)
    <3>1. file \in Seq(Chars) /\ ss[k] = Between(file)
      BY <1>5, <2>1
    <3>2. Len(file) \in Nat
      BY <3>1
    <3> QED
      BY <3>1, <3>2, BetweenSays, Zenon
  <2>5. PICK m : m = Between(file)
    OBVIOUS
  <2>6. b = a + Len(file) + 12 /\ b <= Len(flat) /\ Occurs(flat, m, a)
    <3>1. b = a + Len(ss[k]) /\ b <= Len(flat) /\ Occurs(flat, ss[k], a)
      BY <1>15, <2>1
    <3>2. ss[k] = m /\ Len(m) = Len(file) + 12
      BY <2>4, <2>5
    <3> QED
      BY <2>3, <2>4, <3>1, <3>2
  <2> HIDE DEF E
  <2>7. Occurs(C, m, o + a)
    <3>1. Occurs(C, flat, o) /\ a + Len(m) <= Len(flat) /\ m \in Seq(Chars)
      <4>1. m \in Seq(Chars) /\ Len(m) = Len(file) + 12
        BY <2>4, <2>5
      <4>2. PICK x \in Nat : x = Len(file)
        BY <2>4
      <4>3. b = a + x + 12 /\ b <= Len(flat) /\ Len(m) = x + 12
        BY <2>6, <4>1, <4>2
      <4>4. a + Len(m) <= Len(flat)
        BY <1>9, <2>3, <4>2, <4>3
      <4> QED
        BY <1>13, <1>14, <4>1, <4>4
    <3> QED
      BY <1>9, <1>13, <1>14, <2>3, <2>6, <3>1, OccursIn
  <2>8. PICK head, tail : /\ head = <<"r", "n", "H", "r", "n", "r", "n">>
                          /\ tail = <<"r", "n", "-", "-", "b">>
    OBVIOUS
  <2>9. head \in Seq(Chars) /\ tail \in Seq(Chars) /\ Len(head) = 7 /\ Len(tail) = 5
    BY <2>8 DEF Signs
  <2>10. /\ m \in Seq(Chars) /\ o + a \in Nat /\ Len(file) + 7 \in Nat
         /\ 0 + Len(head) <= Len(m) /\ 7 + Len(file) <= Len(m) /\ (Len(file) + 7) + Len(tail) <= Len(m)
         /\ Len(m) = Len(file) + 12
    <3>1. m \in Seq(Chars) /\ Len(m) = Len(file) + 12 /\ Len(file) \in Nat
      BY <2>4, <2>5
    <3> QED
      BY <1>14, <2>3, <2>9, <3>1
  <2>11. Occurs(C, head, (o + a) + 0)
    BY <1>13, <2>4, <2>5, <2>7, <2>8, <2>9, <2>10, OccursIn
  <2>12. Occurs(C, file, (o + a) + 7)
    BY <1>13, <2>4, <2>5, <2>7, <2>10, OccursIn
  <2>13. Occurs(C, tail, (o + a) + (Len(file) + 7))
    BY <1>13, <2>4, <2>5, <2>7, <2>8, <2>9, <2>10, OccursIn
  <2>14. /\ (o + a) + 0 = E[k - 1] /\ (o + a) + 7 = E[k - 1] + 7
         /\ (o + a) + (Len(file) + 7) = E[k] - 5
    <3>1. PICK x \in Nat : x = Len(file)
      BY <2>4
    <3>2. b = a + x + 12
      BY <2>6, <3>1
    <3>3. (o + a) + (x + 7) = (o + b) - 5 /\ (o + a) + 0 = o + a
      BY <2>3, <3>2
    <3> QED
      BY <2>3, <3>1, <3>3
  <2>15. E[k] = E[k - 1] + Len(file) + 12 /\ E[k] <= E[n]
    <3>1. PICK x \in Nat : x = Len(file)
      BY <2>4
    <3>2. b = a + x + 12 /\ b <= Len(flat)
      BY <2>6, <3>1
    <3>3. o + b = (o + a) + x + 12 /\ o + b <= o + Len(flat)
      BY <1>9, <2>3, <3>2
    <3> QED
      BY <2>3, <3>1, <3>3
  <2>16. /\ Occurs(C, head, E[k - 1]) /\ Occurs(C, file, E[k - 1] + 7)
         /\ Occurs(C, tail, E[k] - 5)
    BY <2>11, <2>12, <2>13, <2>14
  <2>17. Len(fs[k]) = Len(file)
    BY <2>1
  <2>18. /\ Occurs(C, <<"r", "n", "H", "r", "n", "r", "n">>, E[k - 1])
         /\ Occurs(C, <<"r", "n", "-", "-", "b">>, E[k] - 5)
    BY <2>8, <2>16, Zenon
  <2>19. E[k] = E[k - 1] + Len(fs[k]) + 12 /\ E[k] <= E[n]
    BY <2>15, <2>17
  <2>20. Occurs(C, fs[k], E[k - 1] + 7)
    BY <2>1, <2>16, Zenon
  <2> QED
    BY <2>18, <2>19, <2>20, Zenon
<1>18. E[n] = Len(f.preamble) + 3 + Len(flat)
  <2>1. E[n] = o + L[n]
    OBVIOUS
  <2> QED
    BY <1>2, <1>9, <1>14, <1>15, <2>1
<1> HIDE DEF E
<1>19. LaidOut(f, E)
  BY <1>1, <1>3, <1>11, <1>13, <1>16, <1>17, <1>18, Zenon DEF LaidOut
<1> QED
  BY <1>11, <1>13, <1>19

\* A part of s is w if s says w there,
LEMMA SubSeqSays ==
  ASSUME NEW A, NEW s \in Seq(A), NEW w \in Seq(A), NEW i \in Nat, i + Len(w) <= Len(s)
  PROVE  SubSeq(s, i + 1, i + Len(w)) = w <=> Occurs(s, w, i)
<1>1. PICK t : t = SubSeq(s, i + 1, i + Len(w))
  OBVIOUS
<1>2. t \in Seq(A) /\ Len(t) = Len(w) /\ \A j \in 1 .. Len(w) : t[j] = s[i + j]
  <2>1. PICK m, n : m = i + 1 /\ n = i + Len(w)
    OBVIOUS
  <2>2. m \in 1 .. Len(s) + 1 /\ n \in m - 1 .. Len(s) /\ n - m + 1 = Len(w)
    BY <2>1
  <2>3. /\ t \in Seq(A) /\ Len(t) = n - m + 1
        /\ \A j \in 1 .. n - m + 1 : t[j] = s[m + j - 1]
    BY <1>1, <2>1, <2>2, SubSeqProperties
  <2>4. \A j \in 1 .. Len(w) : m + j - 1 = i + j
    BY <2>1
  <2> QED
    BY <2>2, <2>3, <2>4
<1>3. t = w => Occurs(s, w, i)
  BY <1>2 DEF Occurs
<1>4. Occurs(s, w, i) => t = w
  <2>1. Occurs(s, w, i) => \A j \in 1 .. Len(w) : t[j] = w[j]
    BY <1>2, Zenon DEF Occurs
  <2> QED
    BY <1>2, <2>1, SeqEqual
<1> QED
  BY <1>1, <1>3, <1>4

\* and what a part says is said in the whole.
LEMMA SaidInPart ==
  ASSUME NEW A, NEW t \in Seq(A), NEW w \in Seq(A), NEW s, NEW o \in Nat, NEW i \in Nat,
         Occurs(s, t, o), i + Len(w) <= Len(t)
  PROVE  Occurs(t, w, i) <=> Occurs(s, w, o + i)
<1>1. ASSUME NEW j \in 1 .. Len(w) PROVE s[(o + i) + j] = t[i + j]
  <2>1. i + j \in 1 .. Len(t) /\ (o + i) + j = o + (i + j)
    OBVIOUS
  <2>2. s[o + (i + j)] = t[i + j]
    BY <2>1 DEF Occurs
  <2> QED
    BY <2>1, <2>2
<1> QED
  BY <1>1, Zenon DEF Occurs

\* The first place where a piece of C, which begins behind its first o characters, says w
LEMMA FindsFirst ==
  ASSUME NEW Chars, buf \in Seq(Chars), NEW w \in Seq(Chars), NEW s, NEW o \in Nat, NEW a \in Nat,
         Occurs(s, buf, o), Occurs(s, w, o + a),
         \A i \in 0 .. a - 1 : ~Occurs(s, w, o + i)
  PROVE  buf_find(w) = IF a + Len(w) <= Len(buf) THEN a ELSE Len(buf)
<1>1. PICK b : b = buf
  OBVIOUS
<1>2. b \in Seq(Chars) /\ Occurs(s, b, o)
  BY <1>1
<1> DEFINE found == {i \in 0 .. Len(b) - Len(w) : SubSeq(b, i + 1, i + Len(w)) = w}
<1>3. ASSUME NEW i \in Nat, i + Len(w) <= Len(b)
      PROVE  SubSeq(b, i + 1, i + Len(w)) = w <=> Occurs(s, w, o + i)
  <2>1. SubSeq(b, i + 1, i + Len(w)) = w <=> Occurs(b, w, i)
    BY <1>2, <1>3, SubSeqSays
  <2>2. Occurs(b, w, i) <=> Occurs(s, w, o + i)
    BY <1>2, <1>3, SaidInPart
  <2> QED
    BY <2>1, <2>2, Zenon
<1>4. ASSUME NEW i \in 0 .. Len(b) - Len(w)
      PROVE  i \in Nat /\ i + Len(w) <= Len(b)
  BY <1>2
<1>5. \A i \in found : i >= a
  <2>1. ASSUME NEW i \in found, i < a PROVE FALSE
    <3>1. i \in Nat /\ i + Len(w) <= Len(b) /\ SubSeq(b, i + 1, i + Len(w)) = w
      BY <1>4
    <3>2. Occurs(s, w, o + i)
      BY <1>3, <3>1
    <3>3. i \in 0 .. a - 1
      BY <2>1, <3>1
    <3> QED
      BY <3>2, <3>3
  <2>2. \A i \in found : i \in Nat
    BY <1>4
  <2> HIDE DEF found
  <2> QED
    BY <2>1, <2>2
<1>6. CASE a + Len(w) <= Len(b)
  <2>1. a \in 0 .. Len(b) - Len(w)
    BY <1>2, <1>6
  <2>2. SubSeq(b, a + 1, a + Len(w)) = w
    BY <1>3, <1>6
  <2>3. a \in found
    BY <2>1, <2>2
  <2> HIDE DEF found
  <2>4. Min(found) = a
    <3>1. \A x \in found : (\A y \in found : x <= y) => x = a
      <4> SUFFICES ASSUME NEW x \in found, \A y \in found : x <= y PROVE x = a
        OBVIOUS
      <4>1. x <= a /\ x >= a
        BY <1>5, <2>3
      <4>2. x \in Nat
        BY <1>4 DEF found
      <4> QED
        BY <4>1, <4>2
    <3>2. \A y \in found : a <= y
      BY <1>5
    <3> QED
      BY <2>3, <3>1, <3>2 DEF Min
  <2>5. found # {}
    BY <2>3
  <2> QED
    BY <1>1, <1>6, <2>4, <2>5 DEF found, buf_find
<1>7. CASE ~ (a + Len(w) <= Len(b))
  <2>1. \A i \in found : i < a
    <3>1. ASSUME NEW i \in 0 .. Len(b) - Len(w) PROVE i < a
      BY <1>2, <1>4, <1>7
    <3> QED
      BY <3>1
  <2>2. \A i \in found : i \in Nat
    BY <1>4
  <2>3. found = {}
    <3> HIDE DEF found
    <3> QED
      BY <1>5, <2>1, <2>2
  <2> QED
    BY <1>1, <1>7, <2>3 DEF buf_find
<1> QED
  BY <1>6, <1>7

\* If s, which lacks w, is followed by w, and the last character of w is not in w before it, then
\* w does not begin before its end.
LEMMA NotBefore ==
  ASSUME NEW A, NEW s \in Seq(A), NEW w \in Seq(A), Lacks(s, w),
         \A t \in 1 .. Len(w) - 1 : w[t] # w[Len(w)],
         NEW u, NEW o \in Nat, Occurs(u, s, o), Occurs(u, w, o + Len(s)),
         NEW p \in Nat, p < Len(s)
  PROVE  ~Occurs(u, w, o + p)
<1> SUFFICES ASSUME Occurs(u, w, o + p) PROVE FALSE
  OBVIOUS
<1>1. CASE p + Len(w) <= Len(s)
  <2>1. Occurs(s, w, p)
    BY <1>1, SaidInPart
  <2>2. p \in 0 .. Len(s) - Len(w)
    BY <1>1
  <2> QED
    BY <2>1, <2>2 DEF Lacks
<1>2. CASE ~ (p + Len(w) <= Len(s))
  <2>1. PICK t : t = p + Len(w) - Len(s)
    OBVIOUS
  <2>2. /\ t \in 1 .. Len(w) - 1 /\ t \in 1 .. Len(w) /\ Len(w) \in 1 .. Len(w)
        /\ (o + p) + Len(w) = (o + Len(s)) + t
    BY <1>2, <2>1
  <2>3. u[(o + p) + Len(w)] = w[Len(w)] /\ u[(o + Len(s)) + t] = w[t]
    BY <2>2 DEF Occurs
  <2> QED
    BY <2>2, <2>3
<1> QED
  BY <1>1, <1>2

\* How many characters the parser has taken from its buffer
Taken == r - Len(buf)

\* The first k files of the form have been copied.
Whole(k) == Len(files) = k /\ \A i \in 1 .. k : files[i] = form.files[i]

\* So have been the first m characters of the k-th, and those before it.
Copied(k, m) ==
  /\ Len(files) = k /\ \A i \in 1 .. k - 1 : files[i] = form.files[i]
  /\ files[k] = SubSeq(form.files[k], 1, m)

(***************************************************************************)
(* Where the parser is in the form.  When it has returned it has got what  *)
(* it can: the next boundary, or the end of a header line, has not come.   *)
(***************************************************************************)
AtPreamble ==
  /\ state_ = "initial boundary" /\ files = <<>> /\ ~is_valid_
  /\ Taken <= Len(form.preamble) /\ (parsing = "true" => r <= Len(form.preamble))

AtHeaders(E, k) ==
  /\ state_ \in {"new entry", "headers", "header"} /\ Whole(k - 1) /\ ~is_valid_
  /\ Taken = E[k - 1] + 2 \/ (state_ # "new entry" /\ Taken = E[k - 1] + 5)
  /\ parsing = "true" => r < E[k]

AtFile(E, k) ==
  /\ state_ = "body" /\ Copied(k, Taken - (E[k - 1] + 7)) /\ ~is_valid_
  /\ Taken \in E[k - 1] + 7 .. E[k] - 5
  /\ parsing = "true" => r < E[k]

AtBoundary(E, k) ==
  /\ state_ = "boundary" /\ Whole(k) /\ ~is_valid_
  /\ Taken = E[k]
  /\ parsing = "true" => Len(buf) < 2

AtEnd ==
  /\ state_ = "boundary" /\ Whole(Len(form.files)) /\ is_valid_
  /\ form.closed /\ buf = <<>> /\ r = length

\* No piece ended where the parser loses track.
NotCut ==
  /\ state_ = "initial boundary" => r \notin Len(form.preamble) + 1 .. Len(form.preamble) + 4
  /\ r \notin Len(Content(form)) - Len(form.epilogue) .. Len(Content(form)) - 1

\* The buffer holds the content between what has been taken and what has been read.
Reading(Chars) ==
  /\ buf \in Seq(Chars) /\ files \in Seq(Seq(Chars))
  /\ Taken >= 0 /\ Occurs(Content(form), buf, Taken)
  /\ parsing \in {"parse", "true"} /\ NotCut

OnTrack(E) ==
  \/ AtPreamble \/ AtEnd
  \/ \E k \in 1 .. Len(form.files) : AtHeaders(E, k) \/ AtFile(E, k) \/ AtBoundary(E, k)

\* What is sent is the form, between two others.
Wired(Chars, E) ==
  /\ Signs \subseteq Chars
  /\ WellFormed(Chars, form) /\ Content(form) \in Seq(Chars) /\ LaidOut(form, E)
  /\ length = Len(Content(form)) /\ r \in Nat /\ r <= length
  /\ sent = <<"L", "i", "n">> \o Content(form) \o <<"L">>

\* The parser is right about where it is.
Ready(Chars, E) == Wired(Chars, E) /\ Reading(Chars) /\ OnTrack(E)

PInv(Chars, E) == IInv(Chars) /\ Wired(Chars, E) /\ (~cut => Ready(Chars, E))

LEMMA Marks ==
  ASSUME NEW Chars, NEW f, WellFormed(Chars, f), Content(f) \in Seq(Chars),
         NEW E, LaidOut(f, E)
  PROVE  /\ Len(f.files) \in Nat \ {0} /\ Len(f.preamble) \in Nat /\ Len(f.epilogue) \in Nat
         /\ Len(Content(f)) \in Nat
         /\ E[0] = Len(f.preamble) + 3 /\ E[Len(f.files)] \in Nat
         /\ Len(Content(f)) = E[Len(f.files)] + (IF f.closed THEN 2 ELSE 0) + Len(f.epilogue)
         /\ \A k \in 1 .. Len(f.files) :
              /\ f.files[k] \in Seq(Chars) /\ Len(f.files[k]) \in Nat
              /\ E[k - 1] \in Nat /\ E[k] \in Nat /\ E[k] = E[k - 1] + Len(f.files[k]) + 12
              /\ E[k] <= E[Len(f.files)] /\ E[k] <= Len(Content(f)) - Len(f.epilogue)
<1>1. PICK n : n = Len(f.files)
  OBVIOUS
<1>2. /\ n \in Nat \ {0} /\ Len(f.preamble) \in Nat /\ Len(f.epilogue) \in Nat
      /\ \A k \in 1 .. n : f.files[k] \in Seq(Chars) /\ Len(f.files[k]) \in Nat
  BY <1>1 DEF WellFormed
<1>3. /\ E \in [0 .. n -> Nat] /\ E[0] = Len(f.preamble) + 3
      /\ \A k \in 1 .. n : E[k] = E[k - 1] + Len(f.files[k]) + 12 /\ E[k] <= E[n]
      /\ Len(Content(f)) = E[n] + (IF f.closed THEN 2 ELSE 0) + Len(f.epilogue)
  BY <1>1, Zenon DEF LaidOut
<1>4. E[n] \in Nat /\ Len(Content(f)) \in Nat
  BY <1>2, <1>3
<1>5. E[n] <= Len(Content(f)) - Len(f.epilogue)
  <2>1. PICK e, x, y : e = E[n] /\ x = Len(f.epilogue) /\ y = Len(Content(f))
    OBVIOUS
  <2>2. PICK z \in Nat : z = IF f.closed THEN 2 ELSE 0
    OBVIOUS
  <2>3. e \in Nat /\ x \in Nat /\ y \in Nat /\ y = e + z + x
    BY <1>2, <1>3, <1>4, <2>1, <2>2
  <2>4. e <= y - x
    BY <2>3
  <2> QED
    BY <2>1, <2>4
<1>6. ASSUME NEW k \in 1 .. n
      PROVE E[k - 1] \in Nat /\ E[k] \in Nat /\ E[k] <= Len(Content(f)) - Len(f.epilogue)
  <2>1. k - 1 \in 0 .. n /\ k \in 0 .. n
    BY <1>2
  <2>2. E[k - 1] \in Nat /\ E[k] \in Nat /\ E[k] <= E[n]
    BY <1>3, <2>1
  <2> QED
    BY <1>2, <1>4, <1>5, <2>2
<1> QED
  BY <1>1, <1>2, <1>3, <1>4, <1>6, Zenon

\* What is left of a sequence without its first n elements
LEMMA FromSays ==
  ASSUME NEW A, NEW s \in Seq(A), NEW n \in Nat, n <= Len(s)
  PROVE  /\ From(s, n) \in Seq(A) /\ Len(From(s, n)) = Len(s) - n
         /\ \A i \in 1 .. Len(s) - n : From(s, n)[i] = s[n + i]
BY DEF From

\* n characters are taken from the buffer.
Taking(Chars, n) ==
  /\ r \in Nat /\ n \in Nat /\ n <= Len(buf) /\ buf' = From(buf, n)
  /\ r' = r /\ form' = form /\ files' \in Seq(Seq(Chars)) /\ parsing' \in {"parse", "true"}
  /\ state_' = "initial boundary" => state_ = "initial boundary"

LEMMA Takes ==
  ASSUME NEW Chars, Reading(Chars), NEW n, Taking(Chars, n)
  PROVE  Reading(Chars)' /\ Taken' = Taken + n /\ Len(buf') = Len(buf) - n
<1>1. PICK b, bb, C, t : b = buf /\ bb = buf' /\ C = Content(form) /\ t = Taken
  OBVIOUS
<1>2. b \in Seq(Chars) /\ Occurs(C, b, t) /\ t >= 0
  BY <1>1, Zenon DEF Reading
<1>3. t = r - Len(b) /\ Len(b) \in Nat /\ n \in Nat /\ n <= Len(b)
  <2>1. n \in Nat /\ n <= Len(b)
    BY <1>1, Zenon DEF Taking
  <2> QED
    BY <1>1, <1>2, <2>1 DEF Taken
<1>4. /\ bb \in Seq(Chars) /\ Len(bb) = Len(b) - n
      /\ \A i \in 1 .. Len(b) - n : bb[i] = b[n + i]
  <2>1. bb = From(b, n)
    BY <1>1, Zenon DEF Taking
  <2> QED
    BY <1>2, <1>3, <2>1, FromSays
<1>5. Taken' = t + n /\ Taken' >= 0 /\ t \in Nat
  <2>1. Taken' = r - Len(bb) /\ r \in Nat
    BY <1>1, Zenon DEF Taken, Taking
  <2> QED
    BY <1>2, <1>3, <1>4, <2>1
<1>6. Occurs(C, bb, t + n)
  <2>1. ASSUME NEW i \in 1 .. Len(bb) PROVE C[(t + n) + i] = bb[i]
    <3>1. n + i \in 1 .. Len(b) /\ (t + n) + i = t + (n + i) /\ i \in 1 .. Len(b) - n
      BY <1>3, <1>4, <1>5
    <3>2. C[t + (n + i)] = b[n + i]
      BY <1>2, <3>1 DEF Occurs
    <3> QED
      BY <1>4, <3>1, <3>2
  <2> QED
    BY <2>1 DEF Occurs
<1>7. Content(form)' = C
  BY <1>1, Zenon DEF Content, Taking
<1>8. NotCut'
  BY Zenon DEF Reading, NotCut, Content, Taking
<1> QED
  BY <1>1, <1>3, <1>4, <1>5, <1>6, <1>7, <1>8, Zenon DEF Reading, Taking

\* The words the parser looks for
LEMMA Words ==
  /\ crlf_ = <<"r", "n">> /\ dash_ = <<"-", "-">>
  /\ dash_boundary_crlf_ = <<"-", "-", "b", "r", "n">>
  /\ crlf_dash_boundary_ = <<"r", "n", "-", "-", "b">>
<1> USE DEF crlf_, dash_
<1>1. PICK t : t = dash_ \o <<"b">>
  OBVIOUS
<1>2. t \in Seq(Signs) /\ Len(t) = 3 /\ t[1] = "-" /\ t[2] = "-" /\ t[3] = "b"
  BY <1>1 DEF Signs
<1>3. t = <<"-", "-", "b">>
  BY <1>2
<1>4. PICK u : u = <<"-", "-", "b">> \o crlf_
  OBVIOUS
<1>5. /\ u \in Seq(Signs) /\ Len(u) = 5
      /\ u[1] = "-" /\ u[2] = "-" /\ u[3] = "b" /\ u[4] = "r" /\ u[5] = "n"
  BY <1>4 DEF Signs
<1>6. u = <<"-", "-", "b", "r", "n">>
  BY <1>5
<1>7. PICK x : x = crlf_ \o dash_
  OBVIOUS
<1>8. x \in Seq(Signs) /\ Len(x) = 4 /\ x[1] = "r" /\ x[2] = "n" /\ x[3] = "-" /\ x[4] = "-"
  BY <1>7 DEF Signs
<1>9. x = <<"r", "n", "-", "-">>
  BY <1>8
<1>10. PICK y : y = <<"r", "n", "-", "-">> \o <<"b">>
  OBVIOUS
<1>11. /\ y \in Seq(Signs) /\ Len(y) = 5
       /\ y[1] = "r" /\ y[2] = "n" /\ y[3] = "-" /\ y[4] = "-" /\ y[5] = "b"
  BY <1>10 DEF Signs
<1>12. y = <<"r", "n", "-", "-", "b">>
  BY <1>11
<1>13. crlf_ = <<"r", "n">> /\ dash_ = <<"-", "-">>
  OBVIOUS
<1> HIDE DEF crlf_, dash_
<1> QED
  BY <1>1, <1>3, <1>4, <1>6, <1>7, <1>9, <1>10, <1>12, <1>13
     DEF dash_boundary_crlf_, crlf_dash_boundary_

LEMMA WordTypes ==
  ASSUME NEW Chars, Signs \subseteq Chars
  PROVE  /\ crlf_ \in Seq(Chars) /\ Len(crlf_) = 2 /\ dash_ \in Seq(Chars) /\ Len(dash_) = 2
         /\ dash_boundary_crlf_ \in Seq(Chars) /\ Len(dash_boundary_crlf_) = 5
         /\ crlf_dash_boundary_ \in Seq(Chars) /\ Len(crlf_dash_boundary_) = 5
BY Words DEF Signs

\* Where they are in the content of a form, C, and that they are not before
LEMMA FirstBoundary ==
  ASSUME NEW Chars, Signs \subseteq Chars, NEW f, WellFormed(Chars, f), Content(f) \in Seq(Chars),
         NEW E, LaidOut(f, E)
  PROVE  /\ Occurs(Content(f), dash_boundary_crlf_, Len(f.preamble))
         /\ \A p \in 0 .. Len(f.preamble) - 1 : ~Occurs(Content(f), dash_boundary_crlf_, p)
<1>1. PICK C, l, w : C = Content(f) /\ l = Len(f.preamble) /\ w = dash_boundary_crlf_
  OBVIOUS
<1>2. l \in Nat /\ E[0] = l + 3 /\ Len(f.files) \in Nat \ {0}
  BY <1>1, Marks, Zenon
<1>3. Occurs(C, <<"-", "-", "b">>, l) /\ Occurs(C, <<"r", "n", "H", "r", "n", "r", "n">>, l + 3)
  <2>1. 1 \in 1 .. Len(f.files) /\ 1 - 1 = 0
    BY <1>2
  <2>2. Occurs(C, <<"r", "n", "H", "r", "n", "r", "n">>, E[1 - 1])
    BY <1>1, <2>1, Zenon DEF LaidOut
  <2>3. Occurs(C, <<"-", "-", "b">>, l)
    BY <1>1, Zenon DEF LaidOut
  <2> QED
    BY <1>2, <2>1, <2>2, <2>3
<1>4. /\ C[l + 1] = "-" /\ C[l + 2] = "-" /\ C[l + 3] = "b" /\ C[l + 4] = "r" /\ C[l + 5] = "n"
  <2>1. C[l + 1] = "-" /\ C[l + 2] = "-" /\ C[l + 3] = "b"
    <3>1. PICK v : v = <<"-", "-", "b">>
      OBVIOUS
    <3>2. 1 \in 1 .. Len(v) /\ 2 \in 1 .. Len(v) /\ 3 \in 1 .. Len(v)
      BY <3>1
    <3>3. C[l + 1] = v[1] /\ C[l + 2] = v[2] /\ C[l + 3] = v[3]
      BY <1>3, <3>1, <3>2, Zenon DEF Occurs
    <3> QED
      BY <3>1, <3>3
  <2>2. C[(l + 3) + 1] = "r" /\ C[(l + 3) + 2] = "n"
    <3>1. PICK v : v = <<"r", "n", "H", "r", "n", "r", "n">>
      OBVIOUS
    <3>2. 1 \in 1 .. Len(v) /\ 2 \in 1 .. Len(v)
      BY <3>1
    <3>3. C[(l + 3) + 1] = v[1] /\ C[(l + 3) + 2] = v[2]
      BY <1>3, <3>1, <3>2, Zenon DEF Occurs
    <3> QED
      BY <3>1, <3>3
  <2>3. (l + 3) + 1 = l + 4 /\ (l + 3) + 2 = l + 5
    BY <1>2
  <2> QED
    BY <2>1, <2>2, <2>3
<1>5. w = <<"-", "-", "b", "r", "n">>
  BY <1>1, Words
<1>6. w \in Seq(Chars) /\ Len(w) = 5
  BY <1>1, WordTypes, Zenon
<1>7. Occurs(C, w, l)
  <2>1. w[1] = "-" /\ w[2] = "-" /\ w[3] = "b" /\ w[4] = "r" /\ w[5] = "n"
    BY <1>5
  <2>2. C[l + 1] = w[1] /\ C[l + 2] = w[2] /\ C[l + 3] = w[3] /\ C[l + 4] = w[4] /\ C[l + 5] = w[5]
    BY <1>4, <2>1
  <2>3. ASSUME NEW j \in 1 .. 5 PROVE C[l + j] = w[j]
    <3>1. j = 1 \/ j = 2 \/ j = 3 \/ j = 4 \/ j = 5
      OBVIOUS
    <3> QED
      BY <2>2, <3>1, Zenon
  <2> QED
    BY <1>6, <2>3, Zenon DEF Occurs
<1>8. \A t \in 1 .. Len(w) - 1 : w[t] # w[Len(w)]
  BY <1>5, <1>6
<1>9. PICK pre : pre = f.preamble
  OBVIOUS
<1>10. pre \in Seq(Chars) /\ Lacks(pre, w) /\ Len(pre) = l /\ Occurs(C, pre, 0)
  BY <1>1, <1>9, Zenon DEF WellFormed, LaidOut
<1>11. ASSUME NEW p \in 0 .. l - 1 PROVE ~Occurs(C, w, p)
  <2>1. 0 + Len(pre) = l /\ p \in Nat /\ p < Len(pre) /\ 0 + p = p /\ 0 \in Nat
    BY <1>2, <1>10
  <2>2. Occurs(C, w, 0 + Len(pre))
    BY <1>7, <2>1
  <2>3. ~Occurs(C, w, 0 + p)
    BY <1>6, <1>8, <1>10, <2>1, <2>2, NotBefore
  <2> QED
    BY <2>1, <2>3
<1> QED
  BY <1>1, <1>7, <1>11, Zenon

LEMMA FileBoundary ==
  ASSUME NEW Chars, Signs \subseteq Chars, NEW f, WellFormed(Chars, f), Content(f) \in Seq(Chars),
         NEW E, LaidOut(f, E), NEW k \in 1 .. Len(f.files)
  PROVE  /\ Occurs(Content(f), f.files[k], E[k - 1] + 7)
         /\ Occurs(Content(f), crlf_dash_boundary_, E[k] - 5)
         /\ E[k] - 5 = (E[k - 1] + 7) + Len(f.files[k])
         /\ \A p \in 0 .. Len(f.files[k]) - 1 :
              ~Occurs(Content(f), crlf_dash_boundary_, (E[k - 1] + 7) + p)
<1>1. PICK C, o, w, file : C = Content(f) /\ o = E[k - 1] + 7 /\ w = crlf_dash_boundary_ /\ file = f.files[k]
  OBVIOUS
<1>2. /\ E[k - 1] \in Nat /\ E[k] \in Nat /\ E[k] = E[k - 1] + Len(file) + 12 /\ Len(file) \in Nat
      /\ file \in Seq(Chars)
  <2>1. \A j \in 1 .. Len(f.files) :
          /\ f.files[j] \in Seq(Chars) /\ Len(f.files[j]) \in Nat
          /\ E[j - 1] \in Nat /\ E[j] \in Nat /\ E[j] = E[j - 1] + Len(f.files[j]) + 12
          /\ E[j] <= E[Len(f.files)] /\ E[j] <= Len(Content(f)) - Len(f.epilogue)
    BY Marks, Zenon
  <2> QED
    BY <1>1, <2>1
<1>3. E[k] - 5 = o + Len(file) /\ o \in Nat
  <2>1. PICK e, l, m : e = E[k - 1] /\ l = Len(file) /\ m = E[k]
    OBVIOUS
  <2>2. e \in Nat /\ l \in Nat /\ m \in Nat /\ m = e + l + 12 /\ o = e + 7
    BY <1>1, <1>2, <2>1
  <2>3. m - 5 = o + l /\ o \in Nat
    BY <2>2
  <2> QED
    BY <2>1, <2>3, Zenon
<1>4. Occurs(C, file, o) /\ Occurs(C, w, E[k] - 5)
  <2>1. Occurs(C, file, o) /\ Occurs(C, <<"r", "n", "-", "-", "b">>, E[k] - 5)
    BY <1>1, Zenon DEF LaidOut
  <2> QED
    BY <1>1, <2>1, Words, Zenon
<1>5. w = <<"r", "n", "-", "-", "b">>
  BY <1>1, Words
<1>6. w \in Seq(Chars) /\ Len(w) = 5
  BY <1>1, WordTypes, Zenon
<1>7. \A t \in 1 .. Len(w) - 1 : w[t] # w[Len(w)]
  BY <1>5, <1>6
<1>8. Lacks(file, w)
  <2>1. k \in DOMAIN f.files
    BY DEF WellFormed
  <2> QED
    BY <1>1, <2>1, Zenon DEF WellFormed
<1>9. ASSUME NEW p \in 0 .. Len(file) - 1 PROVE ~Occurs(C, w, o + p)
  <2>1. p \in Nat /\ p < Len(file) /\ Occurs(C, w, o + Len(file))
    BY <1>2, <1>3, <1>4
  <2> QED
    BY <1>2, <1>3, <1>4, <1>6, <1>7, <1>8, <2>1, NotBefore
<1> QED
  BY <1>1, <1>3, <1>4, <1>9, Zenon

LEMMA HeaderLines ==
  ASSUME NEW Chars, Signs \subseteq Chars, NEW f, WellFormed(Chars, f), Content(f) \in Seq(Chars),
         NEW E, LaidOut(f, E), NEW k \in 1 .. Len(f.files)
  PROVE  /\ Content(f)[E[k - 1] + 1] = "r" /\ Content(f)[E[k - 1] + 2] = "n"
         /\ Content(f)[E[k - 1] + 3] = "H"
         /\ ~Occurs(Content(f), crlf_, E[k - 1] + 2)
         /\ Occurs(Content(f), crlf_, E[k - 1] + 3) /\ Occurs(Content(f), crlf_, E[k - 1] + 5)
<1>1. PICK C, e : C = Content(f) /\ e = E[k - 1]
  OBVIOUS
<1>2. e \in Nat
  BY <1>1, Marks, Zenon
<1>3. Occurs(C, <<"r", "n", "H", "r", "n", "r", "n">>, e)
  BY <1>1, Zenon DEF LaidOut
<1>4. /\ C[e + 1] = "r" /\ C[e + 2] = "n" /\ C[e + 3] = "H" /\ C[e + 4] = "r" /\ C[e + 5] = "n"
      /\ C[e + 6] = "r" /\ C[e + 7] = "n"
  BY <1>2, <1>3 DEF Occurs
<1>5. PICK w : w = crlf_
  OBVIOUS
<1>6. w = <<"r", "n">>
  BY <1>5, Words
<1>7. /\ (e + 2) + 1 = e + 3 /\ (e + 3) + 1 = e + 4 /\ (e + 3) + 2 = e + 5
      /\ (e + 5) + 1 = e + 6 /\ (e + 5) + 2 = e + 7
  BY <1>2
<1>8. ~Occurs(C, w, e + 2) /\ Occurs(C, w, e + 3) /\ Occurs(C, w, e + 5)
  BY <1>4, <1>6, <1>7 DEF Occurs
<1> QED
  BY <1>1, <1>4, <1>5, <1>8

LEMMA StartsWith ==
  ASSUME NEW A, NEW s \in Seq(A), NEW w \in Seq(A)
  PROVE  buf_start_with(s, w) <=> Len(w) <= Len(s) /\ Occurs(s, w, 0)
<1>1. CASE ~ (Len(w) <= Len(s))
  BY <1>1 DEF buf_start_with, IsPrefix
<1>2. CASE Len(w) <= Len(s)
  <2>1. SubSeq(w, 1, Len(w)) = w
    OBVIOUS
  <2>2. 0 + 1 = 1 /\ 0 + Len(w) = Len(w) /\ 0 + Len(w) <= Len(s)
    BY <1>2
  <2>3. SubSeq(s, 0 + 1, 0 + Len(w)) = w <=> Occurs(s, w, 0)
    BY <2>2, SubSeqSays
  <2>4. SubSeq(s, 1, Len(w)) = w <=> Occurs(s, w, 0)
    BY <2>2, <2>3
  <2>5. buf_start_with(s, w) <=> SubSeq(w, 1, Len(w)) = SubSeq(s, 1, Len(w))
    BY <1>2, Zenon DEF buf_start_with, IsPrefix
  <2> QED
    BY <1>2, <2>1, <2>4, <2>5
<1> QED
  BY <1>1, <1>2

LEMMA FromFrom ==
  ASSUME NEW A, NEW s \in Seq(A), NEW m \in Nat, NEW n \in Nat, m + n <= Len(s)
  PROVE  From(From(s, m), n) = From(s, m + n)
<1>0. m <= Len(s) /\ n <= Len(s) - m /\ m + n \in Nat
  OBVIOUS
<1>1. PICK t : t = From(s, m)
  OBVIOUS
<1>2. t \in Seq(A) /\ Len(t) = Len(s) - m /\ \A i \in 1 .. Len(s) - m : t[i] = s[m + i]
  BY <1>0, <1>1, FromSays
<1>3. PICK u : u = From(t, n)
  OBVIOUS
<1>4. u \in Seq(A) /\ Len(u) = Len(t) - n /\ \A i \in 1 .. Len(t) - n : u[i] = t[n + i]
  <2>1. t \in Seq(A) /\ n <= Len(t)
    BY <1>0, <1>2
  <2> QED
    BY <1>3, <2>1, FromSays
<1>5. PICK v : v = From(s, m + n)
  OBVIOUS
<1>6. /\ v \in Seq(A) /\ Len(v) = Len(s) - (m + n)
      /\ \A i \in 1 .. Len(s) - (m + n) : v[i] = s[(m + n) + i]
  BY <1>0, <1>5, FromSays
<1>7. Len(u) = Len(v)
  BY <1>2, <1>4, <1>6
<1>8. ASSUME NEW i \in 1 .. Len(u) PROVE u[i] = v[i]
  <2>1. i \in 1 .. Len(t) - n /\ n + i \in 1 .. Len(s) - m /\ i \in 1 .. Len(s) - (m + n)
    BY <1>2, <1>4
  <2>2. u[i] = t[n + i] /\ t[n + i] = s[m + (n + i)] /\ v[i] = s[(m + n) + i]
    BY <1>2, <1>4, <1>6, <2>1
  <2>3. m + (n + i) = (m + n) + i
    OBVIOUS
  <2> QED
    BY <2>2, <2>3
<1>9. u = v
  BY <1>4, <1>6, <1>7, <1>8, SeqEqual
<1> QED
  BY <1>1, <1>3, <1>5, <1>9

\* What a parser that is right about where it is has before it
LEMMA Before ==
  ASSUME NEW Chars, NEW E, Ready(Chars, E)
  PROVE  /\ buf \in Seq(Chars) /\ Len(buf) \in Nat /\ Taken \in Nat /\ r \in Nat
         /\ r = Taken + Len(buf) /\ Occurs(Content(form), buf, Taken)
         /\ r <= length /\ length = Len(Content(form)) /\ NotCut
<1>1. buf \in Seq(Chars) /\ Taken >= 0 /\ Occurs(Content(form), buf, Taken) /\ NotCut
  BY Zenon DEF Ready, Reading
<1>2. r \in Nat /\ r <= length /\ length = Len(Content(form))
  BY Zenon DEF Ready, Wired
<1>3. PICK l : l = Len(buf)
  OBVIOUS
<1>4. l \in Nat /\ Taken = r - l
  BY <1>1, <1>3 DEF Taken
<1>5. Taken \in Nat /\ r = Taken + l
  BY <1>1, <1>2, <1>4
<1> QED
  BY <1>1, <1>2, <1>3, <1>4, <1>5

\* A step of the loop that takes n characters
Kept == UNCHANGED <<streamVars, form, cut>>

LEMMA WiredStays ==
  ASSUME NEW Chars, NEW E, Wired(Chars, E), Kept
  PROVE  Wired(Chars, E)'
BY Zenon DEF Wired, Kept, streamVars, WellFormed, LaidOut, Content

\* The parser takes n characters and is where the steps of a proof say it is.
LEMMA Moves ==
  ASSUME NEW Chars, NEW E, Ready(Chars, E), Kept, NEW n \in Nat, n <= Len(buf), buf' = From(buf, n),
         files' \in Seq(Seq(Chars)), parsing' \in {"parse", "true"},
         state_' = "initial boundary" => state_ = "initial boundary"
  PROVE  /\ Wired(Chars, E)' /\ Reading(Chars)' /\ Taken' = Taken + n /\ Len(buf') = Len(buf) - n
         /\ r' = r /\ form' = form
<1>1. r \in Nat /\ r' = r /\ form' = form
  BY Before, Zenon DEF Kept, streamVars
<1>2. Taking(Chars, n)
  BY <1>1, Zenon DEF Taking
<1>3. Reading(Chars)
  BY Zenon DEF Ready
<1>4. Reading(Chars)' /\ Taken' = Taken + n /\ Len(buf') = Len(buf) - n
  BY <1>2, <1>3, Takes, Zenon
<1>5. Wired(Chars, E)'
  BY WiredStays, Zenon DEF Ready
<1> QED
  BY <1>1, <1>4, <1>5, Zenon

LEMMA InitialBoundaryKeeps ==
  ASSUME NEW Chars, NEW E, Ready(Chars, E), InitialBoundary, Kept
  PROVE  Ready(Chars, E)'
<1>1. PICK C, l, w, t, b : /\ C = Content(form) /\ l = Len(form.preamble) /\ w = dash_boundary_crlf_
                           /\ t = Taken /\ b = buf
  OBVIOUS
<1>2. /\ b \in Seq(Chars) /\ Len(b) \in Nat /\ t \in Nat /\ r \in Nat /\ r = t + Len(b)
      /\ Occurs(C, b, t) /\ NotCut
  BY <1>1, Before, Zenon
<1>3. /\ Signs \subseteq Chars /\ WellFormed(Chars, form) /\ C \in Seq(Chars) /\ LaidOut(form, E)
  BY <1>1, Zenon DEF Ready, Wired
<1>4. w \in Seq(Chars) /\ Len(w) = 5
  BY <1>1, <1>3, WordTypes, Zenon
<1>5. l \in Nat /\ E[0] = l + 3 /\ Len(form.files) \in Nat \ {0}
  BY <1>1, <1>3, Marks, Zenon
<1>6. Occurs(C, w, l) /\ \A p \in 0 .. l - 1 : ~Occurs(C, w, p)
  BY <1>1, <1>3, FirstBoundary, Zenon
<1>7. state_ = "initial boundary" /\ parsing = "parse" /\ UNCHANGED <<is_valid_, files>>
  BY Zenon DEF InitialBoundary, Parse
<1>8. files = <<>> /\ ~is_valid_ /\ t <= l
  BY <1>1, <1>7, Zenon DEF Ready, OnTrack, AtPreamble, AtEnd, AtHeaders, AtFile, AtBoundary
<1>9. PICK a \in Nat : a = l - t
  BY <1>2, <1>5, <1>8
<1>10. PICK find : find = buf_find(w)
  OBVIOUS
<1>11. find = IF a + 5 <= Len(b) THEN a ELSE Len(b)
  <2>1. t + a = l
    BY <1>2, <1>5, <1>9
  <2>2. \A i \in 0 .. a - 1 : ~Occurs(C, w, t + i)
    <3>1. ASSUME NEW i \in 0 .. a - 1 PROVE t + i \in 0 .. l - 1
      BY <1>2, <1>9, <2>1
    <3> QED
      BY <1>6, <3>1
  <2>3. Occurs(C, w, t + a)
    BY <1>6, <2>1
  <2>4. buf_find(w) = IF a + Len(w) <= Len(buf) THEN a ELSE Len(buf)
    BY <1>1, <1>2, <1>4, <2>2, <2>3, FindsFirst
  <2> QED
    BY <1>1, <1>4, <1>10, <2>4
<1>12. files' \in Seq(Seq(Chars)) /\ (state_' = "initial boundary" => state_ = "initial boundary")
  BY <1>7, Zenon DEF Ready, Reading
<1>13. CASE a + 5 <= Len(b)
  <2>1. PICK rest : rest = From(b, a)
    OBVIOUS
  <2>2. find = a /\ a <= Len(b) /\ a + 5 \in Nat
    BY <1>2, <1>11, <1>13
  <2>3. rest \in Seq(Chars) /\ Len(rest) = Len(b) - a
    BY <1>2, <2>1, <2>2, FromSays
  <2>4. Occurs(rest, w, 0)
    <3>1. Occurs(b, w, a)
      <4>1. Occurs(C, w, t + a)
        BY <1>2, <1>5, <1>6, <1>9
      <4> QED
        BY <1>2, <1>4, <1>13, <4>1, SaidInPart
    <3>2. \A i \in 1 .. Len(b) - a : rest[i] = b[a + i]
      BY <1>2, <2>1, <2>2, FromSays
    <3>3. ASSUME NEW j \in 1 .. Len(w) PROVE rest[0 + j] = w[j]
      <4>1. j \in 1 .. Len(b) - a /\ 0 + j = j
        BY <1>2, <1>4, <1>13
      <4>2. b[a + j] = w[j]
        BY <3>1 DEF Occurs
      <4> QED
        BY <3>2, <4>1, <4>2
    <3> QED
      BY <3>3 DEF Occurs
  <2>5. buf_start_with(rest, w) /\ ~(Len(w) > Len(rest))
    <3>1. Len(w) <= Len(rest)
      BY <1>2, <1>4, <1>13, <2>3
    <3>2. ~(Len(w) > Len(rest))
      BY <1>4, <2>3, <3>1
    <3> QED
      BY <1>4, <2>3, <2>4, <3>1, <3>2, StartsWith
  <2>6. From(buf, buf_find(dash_boundary_crlf_)) = rest
    BY <1>1, <1>10, <2>1, <2>2
  <2>7. buf' = From(rest, Len(w)) /\ state_' = "new entry" /\ parsing' = "parse"
    BY <1>1, <1>7, <2>5, <2>6, Zenon DEF InitialBoundary, GoOn
  <2>8. buf' = From(buf, a + 5)
    <3>1. From(From(b, a), 5) = From(b, a + 5)
      BY <1>2, <1>13, FromFrom
    <3> QED
      BY <1>1, <1>4, <2>1, <2>7, <3>1, Zenon
  <2>9. a + 5 <= Len(buf) /\ parsing' \in {"parse", "true"}
    BY <1>1, <1>13, <2>7, Zenon
  <2>10. Wired(Chars, E)' /\ Reading(Chars)' /\ Taken' = Taken + (a + 5) /\ form' = form
    BY <1>12, <2>2, <2>8, <2>9, Moves, Zenon
  <2>11. Taken' = E[1 - 1] + 2
    <3>1. Taken' = t + (a + 5)
      BY <1>1, <2>10
    <3>2. t + (a + 5) = (l + 3) + 2
      BY <1>2, <1>5, <1>9
    <3>3. 1 - 1 = 0
      OBVIOUS
    <3> QED
      BY <1>5, <3>1, <3>2, <3>3
  <2>12. Whole(1 - 1)'
    <3>1. files' = <<>>
      BY <1>7, <1>8, Zenon
    <3>2. Len(files') = 1 - 1
      BY <3>1
    <3>3. \A i \in 1 .. 1 - 1 : files'[i] = form'.files[i]
      <4>1. 1 .. 1 - 1 = {}
        OBVIOUS
      <4> QED
        BY <4>1
    <3> QED
      BY <3>2, <3>3, Zenon DEF Whole
  <2>13. AtHeaders(E, 1)'
    BY <1>7, <1>8, <2>7, <2>11, <2>12, Zenon DEF AtHeaders
  <2>14. 1 \in 1 .. Len(form'.files)
    BY <1>5, <2>10
  <2>15. OnTrack(E)'
    BY <2>13, <2>14, Zenon DEF OnTrack
  <2> QED
    BY <2>10, <2>15, Zenon DEF Ready
<1>14. CASE ~ (a + 5 <= Len(b))
  <2>1. r <= l
    <3>1. r \notin l + 1 .. l + 4
      BY <1>1, <1>2, <1>7, Zenon DEF NotCut
    <3>2. PICK x \in Nat : x = Len(b)
      BY <1>2
    <3>3. r = t + x /\ ~ (a + 5 <= x)
      BY <1>2, <1>14, <3>2
    <3>4. r < l + 5
      BY <1>2, <1>5, <1>9, <3>3
    <3> QED
      BY <1>2, <1>5, <3>1, <3>4
  <2>2. From(buf, buf_find(dash_boundary_crlf_)) = From(b, Len(b))
    BY <1>1, <1>10, <1>11, <1>14
  <2>3. PICK rest : rest = From(b, Len(b))
    OBVIOUS
  <2>4. rest \in Seq(Chars) /\ Len(rest) = 0
    <3>1. Len(rest) = Len(b) - Len(b) /\ rest \in Seq(Chars)
      BY <1>2, <2>3, FromSays
    <3> QED
      BY <1>2, <3>1
  <2>5. Len(w) > Len(rest)
    BY <1>4, <2>4
  <2>6. buf' = rest /\ parsing' = "true" /\ state_' = state_
    BY <1>1, <2>2, <2>3, <2>5, Zenon DEF InitialBoundary, Return
  <2>7. buf' = From(buf, Len(b)) /\ Len(b) <= Len(buf) /\ parsing' \in {"parse", "true"}
    BY <1>1, <1>2, <2>3, <2>6
  <2>8. /\ Wired(Chars, E)' /\ Reading(Chars)' /\ Taken' = Taken + Len(b) /\ form' = form /\ r' = r
    BY <1>2, <1>12, <2>7, Moves, Zenon
  <2>9. Taken' <= l
    BY <1>1, <1>2, <2>1, <2>8
  <2>10. AtPreamble'
    BY <1>1, <1>7, <1>8, <2>1, <2>6, <2>8, <2>9, Zenon DEF AtPreamble
  <2> QED
    BY <2>8, <2>10, Zenon DEF Ready, OnTrack
<1> QED
  BY <1>13, <1>14

\* It takes nothing.
Goes(Chars) ==
  /\ files' \in Seq(Seq(Chars)) /\ parsing' \in {"parse", "true"}
  /\ state_' = "initial boundary" => state_ = "initial boundary"

LEMMA Waits ==
  ASSUME NEW Chars, NEW E, Ready(Chars, E), Kept, buf' = buf, Goes(Chars)
  PROVE  /\ Wired(Chars, E)' /\ Reading(Chars)' /\ Taken' = Taken /\ Len(buf') = Len(buf)
         /\ r' = r /\ form' = form
<1>1. PICK b : b = buf
  OBVIOUS
<1>2. b \in Seq(Chars) /\ Len(b) \in Nat /\ Taken \in Nat
  BY <1>1, Before, Zenon
<1>3. From(b, 0) = b
  <2>1. From(b, 0) = SubSeq(b, 1, Len(b))
    BY DEF From
  <2> QED
    BY <1>2, <2>1, SubSeqFull
<1>4. buf' = From(buf, 0) /\ 0 \in Nat /\ 0 <= Len(buf)
  <2>1. PICK n \in Nat : n = Len(b)
    BY <1>2
  <2>2. 0 <= n /\ 0 \in Nat
    OBVIOUS
  <2>3. 0 <= Len(buf)
    BY <1>1, <2>1, <2>2, Zenon
  <2> QED
    BY <1>1, <1>3, <2>2, <2>3, Zenon
<1>5. /\ Wired(Chars, E)' /\ Reading(Chars)' /\ Taken' = Taken + 0 /\ Len(buf') = Len(buf) - 0
      /\ r' = r /\ form' = form
  BY <1>4, Moves, Zenon DEF Goes
<1>6. Taken + 0 = Taken /\ Len(buf) - 0 = Len(buf)
  <2>1. PICK n \in Nat, t \in Nat : n = Len(b) /\ t = Taken
    BY <1>2
  <2>2. t + 0 = t /\ n - 0 = n
    OBVIOUS
  <2> QED
    BY <1>1, <2>1, <2>2, Zenon
<1> QED
  BY <1>5, <1>6

\* Where the k-th file is
LEMMA FileMarks ==
  ASSUME NEW Chars, NEW E, Ready(Chars, E), NEW k \in 1 .. Len(form.files)
  PROVE  /\ k \in Nat /\ E[k - 1] \in Nat /\ E[k] \in Nat /\ Len(form.files[k]) \in Nat
         /\ form.files[k] \in Seq(Chars)
         /\ E[k] = E[k - 1] + Len(form.files[k]) + 12 /\ E[k - 1] + 12 <= E[k]
         /\ E[k] <= E[Len(form.files)]
<1>1. \A j \in 1 .. Len(form.files) :
        /\ form.files[j] \in Seq(Chars) /\ Len(form.files[j]) \in Nat
        /\ E[j - 1] \in Nat /\ E[j] \in Nat /\ E[j] = E[j - 1] + Len(form.files[j]) + 12
        /\ E[j] <= E[Len(form.files)] /\ E[j] <= Len(Content(form)) - Len(form.epilogue)
  BY Marks, Zenon DEF Ready, Wired
<1>2. /\ form.files[k] \in Seq(Chars) /\ Len(form.files[k]) \in Nat
      /\ E[k - 1] \in Nat /\ E[k] \in Nat /\ E[k] = E[k - 1] + Len(form.files[k]) + 12
      /\ E[k] <= E[Len(form.files)]
  BY <1>1
<1>3. PICK e, l, m : e = E[k - 1] /\ l = Len(form.files[k]) /\ m = E[k]
  OBVIOUS
<1>4. e \in Nat /\ l \in Nat /\ m = e + l + 12
  BY <1>2, <1>3
<1>5. e + 12 <= m
  BY <1>4
<1> QED
  BY <1>2, <1>3, <1>5

LEMMA LoopKeeps ==
  ASSUME NEW Chars, NEW E, Ready(Chars, E), Loop, Kept
  PROVE  Ready(Chars, E)'
<1>1. /\ buf = <<>> /\ parsing' = "true" /\ buf' = buf /\ state_' = state_
      /\ is_valid_' = is_valid_ /\ files' = files
  BY DEF Loop, Return
<1>2. Goes(Chars)
  BY <1>1, Zenon DEF Ready, Reading, Goes
<1>3. /\ Wired(Chars, E)' /\ Reading(Chars)' /\ Taken' = Taken /\ Len(buf') = Len(buf)
      /\ r' = r /\ form' = form
  BY <1>1, <1>2, Waits
<1>4. r = Taken /\ Len(buf) = 0
  <2>1. PICK x : x = Len(buf)
    OBVIOUS
  <2>2. x = 0 /\ r = Taken + x /\ Taken \in Nat
    BY <1>1, <2>1, Before
  <2> QED
    BY <2>1, <2>2
<1>5. AtPreamble => AtPreamble'
  <2>1. AtPreamble => state_' = "initial boundary" /\ files' = <<>> /\ ~is_valid_'
    BY <1>1, Zenon DEF AtPreamble
  <2>2. AtPreamble => Taken' <= Len(form'.preamble) /\ r' <= Len(form'.preamble)
    BY <1>3, <1>4, Zenon DEF AtPreamble
  <2> QED
    BY <2>1, <2>2, Zenon DEF AtPreamble
<1>6. AtEnd => AtEnd'
  BY <1>1, <1>3 DEF AtEnd, Whole, Kept, streamVars
<1>7. ASSUME NEW k \in 1 .. Len(form.files)
      PROVE  /\ AtHeaders(E, k) => AtHeaders(E, k)'
             /\ AtFile(E, k) => AtFile(E, k)'
             /\ AtBoundary(E, k) => AtBoundary(E, k)'
  <2>1. E[k - 1] \in Nat /\ E[k] \in Nat /\ E[k - 1] + 12 <= E[k]
    BY FileMarks, Zenon
  <2>2. AtHeaders(E, k) => r' < E[k]
    <3>1. AtHeaders(E, k) => Taken = E[k - 1] + 2 \/ Taken = E[k - 1] + 5
      BY Zenon DEF AtHeaders
    <3>2. PICK e \in Nat, m \in Nat : e = E[k - 1] /\ m = E[k] /\ e + 12 <= m
      BY <2>1
    <3>3. r' = e + 2 \/ r' = e + 5 => r' < m
      BY <3>2
    <3> QED
      BY <1>3, <1>4, <3>1, <3>2, <3>3
  <2>3. AtFile(E, k) => r' < E[k]
    BY <1>3, <1>4, <2>1, Before DEF AtFile
  <2>4. AtHeaders(E, k) => AtHeaders(E, k)'
    BY <1>1, <1>3, <2>2, Zenon DEF AtHeaders, Whole
  <2>5. AtFile(E, k) => AtFile(E, k)'
    BY <1>1, <1>3, <2>3, Zenon DEF AtFile, Copied
  <2>6. AtBoundary(E, k) => AtBoundary(E, k)'
    <3>1. Len(buf') < 2
      BY <1>3, <1>4
    <3> QED
      BY <1>1, <1>3, <3>1, Zenon DEF AtBoundary, Whole
  <2> QED
    BY <2>4, <2>5, <2>6
<1>8. OnTrack(E)'
  BY <1>3, <1>5, <1>6, <1>7, Zenon DEF OnTrack, Ready
<1> QED
  BY <1>3, <1>8, Zenon DEF Ready

\* The end of the next line of the headers, if it has come
LEMMA FindsLine ==
  ASSUME NEW Chars, NEW E, Ready(Chars, E), NEW k \in 1 .. Len(form.files)
  PROVE  /\ Taken = E[k - 1] + 2 => buf_find(crlf_) = IF 3 <= Len(buf) THEN 1 ELSE Len(buf)
         /\ Taken = E[k - 1] + 5 => buf_find(crlf_) = IF 2 <= Len(buf) THEN 0 ELSE Len(buf)
<1>1. PICK C, e, w, t, b : C = Content(form) /\ e = E[k - 1] /\ w = crlf_ /\ t = Taken /\ b = buf
  OBVIOUS
<1>2. b \in Seq(Chars) /\ Len(b) \in Nat /\ t \in Nat /\ Occurs(C, b, t)
  BY <1>1, Before, Zenon
<1>3. Signs \subseteq Chars /\ WellFormed(Chars, form) /\ Content(form) \in Seq(Chars) /\ LaidOut(form, E)
  BY Zenon DEF Ready, Wired
<1>4. w \in Seq(Chars) /\ Len(w) = 2
  BY <1>1, <1>3, WordTypes, Zenon
<1>5. ~Occurs(C, w, e + 2) /\ Occurs(C, w, e + 3) /\ Occurs(C, w, e + 5)
  BY <1>1, <1>3, HeaderLines, Zenon
<1>6. e \in Nat
  BY <1>1, FileMarks, Zenon
<1>7. CASE t = e + 2
  <2>1. t + 1 = e + 3
    BY <1>6, <1>7
  <2>2. \A i \in 0 .. 1 - 1 : ~Occurs(C, w, t + i)
    <3>1. ASSUME NEW i \in 0 .. 1 - 1 PROVE t + i = e + 2
      BY <1>6, <1>7
    <3> QED
      BY <1>5, <3>1
  <2>3. buf_find(w) = IF 1 + Len(w) <= Len(buf) THEN 1 ELSE Len(buf)
    BY <1>1, <1>2, <1>4, <1>5, <2>1, <2>2, FindsFirst
  <2>4. 1 + Len(w) = 3 /\ e + 2 # e + 5
    BY <1>4, <1>6
  <2> QED
    BY <1>1, <1>7, <2>3, <2>4
<1>8. CASE t = e + 5
  <2>1. t + 0 = e + 5 /\ 0 .. 0 - 1 = {}
    BY <1>6, <1>8
  <2>2. \A i \in 0 .. 0 - 1 : ~Occurs(C, w, t + i)
    BY <2>1
  <2>3. buf_find(w) = IF 0 + Len(w) <= Len(buf) THEN 0 ELSE Len(buf)
    BY <1>1, <1>2, <1>4, <1>5, <2>1, <2>2, FindsFirst
  <2>4. 0 + Len(w) = 2 /\ e + 2 # e + 5
    BY <1>4, <1>6
  <2> QED
    BY <1>1, <1>8, <2>3, <2>4
<1> QED
  BY <1>1, <1>7, <1>8

\* In the states of the headers the parser is in those of a file.
LEMMA InHeaders ==
  ASSUME NEW Chars, NEW E, Ready(Chars, E), state_ \in {"new entry", "headers", "header"}
  PROVE  \E k \in 1 .. Len(form.files) : AtHeaders(E, k)
BY Zenon DEF Ready, OnTrack, AtPreamble, AtEnd, AtFile, AtBoundary

\* There it goes on without taking anything.
LEMMA StaysInHeaders ==
  ASSUME NEW Chars, NEW E, Ready(Chars, E), Kept, NEW k \in 1 .. Len(form.files), AtHeaders(E, k),
         UNCHANGED <<buf, files, is_valid_>>, parsing' \in {"parse", "true"},
         state_' \in {"headers", "header"}, parsing' = "true" => r < E[k]
  PROVE  Ready(Chars, E)'
<1>1. Goes(Chars)
  BY Zenon DEF Ready, Reading, Goes
<1>2. /\ Wired(Chars, E)' /\ Reading(Chars)' /\ Taken' = Taken /\ r' = r /\ form' = form
  BY <1>1, Waits
<1>3. Whole(k - 1)' /\ ~is_valid_'
  BY <1>2, Zenon DEF AtHeaders, Whole
<1>4. Taken' = E[k - 1] + 2 \/ (state_' # "new entry" /\ Taken' = E[k - 1] + 5)
  BY <1>2, Zenon DEF AtHeaders
<1>5. AtHeaders(E, k)'
  BY <1>2, <1>3, <1>4, Zenon DEF AtHeaders
<1> QED
  BY <1>2, <1>5, Zenon DEF Ready, OnTrack

LEMMA NewEntryKeeps ==
  ASSUME NEW Chars, NEW E, Ready(Chars, E), NewEntry, Kept
  PROVE  Ready(Chars, E)'
<1>1. /\ state_ = "new entry" /\ parsing = "parse" /\ state_' = "headers" /\ parsing' = parsing
      /\ UNCHANGED <<buf, is_valid_, files>>
  BY Zenon DEF NewEntry, Parse, GoOn
<1>2. PICK k \in 1 .. Len(form.files) : AtHeaders(E, k)
  BY <1>1, InHeaders, Zenon
<1> QED
  BY <1>1, <1>2, StaysInHeaders, Zenon

LEMMA HeadersKeeps ==
  ASSUME NEW Chars, NEW E, Ready(Chars, E), Headers, Kept,
         CPPHTTPLIB_HEADER_MAX_LENGTH \in Nat \ {0, 1}
  PROVE  Ready(Chars, E)'
<1>1. state_ = "headers" /\ parsing = "parse" /\ UNCHANGED <<buf, is_valid_, files>>
  BY DEF Headers, Parse
<1>2. PICK k \in 1 .. Len(form.files) : AtHeaders(E, k)
  BY <1>1, InHeaders
<1>3. PICK n, find : n \in Nat /\ n = Len(buf) /\ find = buf_find(crlf_)
  BY Before
<1>4. find \in Nat /\ find <= 2
  <2>1. \/ find = IF 3 <= n THEN 1 ELSE n
        \/ find = IF 2 <= n THEN 0 ELSE n
    BY <1>2, <1>3, FindsLine, Zenon DEF AtHeaders
  <2> QED
    BY <1>3, <2>1
<1>5. ~(find > CPPHTTPLIB_HEADER_MAX_LENGTH)
  BY <1>4
<1>6. state_' = "header" /\ parsing' = "parse"
  BY <1>1, <1>3, <1>5 DEF Headers, GoOn
<1> QED
  BY <1>1, <1>2, <1>6, StaysInHeaders

LEMMA HeaderKeeps ==
  ASSUME NEW Chars, NEW E, Ready(Chars, E), Header, Kept
  PROVE  Ready(Chars, E)'
<1>1. state_ = "header" /\ parsing = "parse"
  BY DEF Header
<1>2. PICK k \in 1 .. Len(form.files) : AtHeaders(E, k)
  BY <1>1, InHeaders
<1>3. PICK n, find, e, m, b, t :
        /\ n = Len(buf) /\ find = buf_find(crlf_) /\ e = E[k - 1] /\ m = E[k] /\ b = buf /\ t = Taken
  OBVIOUS
<1>4. e \in Nat /\ m \in Nat /\ e + 12 <= m /\ k \in Nat
  BY <1>3, FileMarks
<1>5. n \in Nat /\ r = t + n /\ t \in Nat /\ b \in Seq(Chars) /\ Occurs(Content(form), b, t)
  BY <1>3, Before, Zenon
<1>6. /\ t = e + 2 => find = IF 3 <= n THEN 1 ELSE n
      /\ t = e + 5 => find = IF 2 <= n THEN 0 ELSE n
  BY <1>3, FindsLine
<1>7. t = e + 2 \/ t = e + 5
  BY <1>2, <1>3, Zenon DEF AtHeaders
<1>8. files \in Seq(Seq(Chars)) /\ Whole(k - 1) /\ ~is_valid_
  BY <1>2, Zenon DEF AtHeaders, Ready, Reading
<1>12. Len(b) = n /\ Taken = t
  BY <1>3
<1>9. CASE find = n
  <2>1. parsing' = "true" /\ state_' = "headers" /\ UNCHANGED <<buf, is_valid_, files>>
    BY <1>3, <1>9 DEF Header, Return
  <2>2. n < 3 /\ (t = e + 5 => n < 2)
    BY <1>4, <1>5, <1>6, <1>7, <1>9
  <2>3. r < m
    BY <1>4, <1>5, <1>7, <2>2
  <2> QED
    BY <1>2, <1>3, <2>1, <2>3, StaysInHeaders
<1>10. CASE find # n /\ t = e + 5
  <2>1. find = 0 /\ n >= 2
    BY <1>5, <1>6, <1>10
  <2>2. /\ files' = Append(files, <<>>) /\ buf' = From(buf, Len(crlf_)) /\ state_' = "body"
        /\ parsing' = "parse" /\ is_valid_' = is_valid_
    BY <1>1, <1>3, <1>5, <1>10, <2>1 DEF Header, buf_erase, GoOn
  <2>3. buf' = From(buf, 2) /\ 2 \in Nat /\ 2 <= Len(buf)
    BY <1>3, <2>1, <2>2, Words
  <2>4. Goes(Chars)
    BY <1>8, <2>2 DEF Goes
  <2>5. Wired(Chars, E)' /\ Reading(Chars)' /\ Taken' = Taken + 2 /\ r' = r /\ form' = form
    BY <2>3, <2>4, Moves, Zenon DEF Goes
  <2>6. Copied(k, 0)'
    <3>1. PICK fs, gs : fs = files /\ gs = form.files
      OBVIOUS
    <3>2. Len(fs) = k - 1 /\ \A i \in 1 .. k - 1 : fs[i] = gs[i]
      BY <1>8, <3>1 DEF Whole
    <3>3. files' = Append(fs, <<>>) /\ fs \in Seq(Seq(Chars))
      BY <1>8, <2>2, <3>1
    <3>4. Len(files') = k /\ files'[k] = <<>> /\ \A i \in 1 .. k - 1 : files'[i] = gs[i]
      BY <1>4, <3>2, <3>3
    <3>5. form'.files = gs
      BY <2>5, <3>1
    <3>6. SubSeq(gs[k], 1, 0) = <<>>
      BY SubSeqEmpty
    <3> QED
      BY <3>4, <3>5, <3>6, Zenon DEF Copied
  <2>7. Taken' = e + 7 /\ Taken' \in e + 7 .. m - 5 /\ Taken' - (e + 7) = 0
    <3>1. Taken' = t + 2
      BY <1>12, <2>5
    <3>2. t + 2 = e + 7 /\ t + 2 \in e + 7 .. m - 5 /\ (t + 2) - (e + 7) = 0
      BY <1>4, <1>10
    <3> QED
      BY <3>1, <3>2
  <2>8. AtFile(E, k)'
    BY <1>3, <1>8, <2>2, <2>6, <2>7 DEF AtFile
  <2> QED
    BY <2>5, <2>8, Zenon DEF Ready, OnTrack
<1>11. CASE find # n /\ t = e + 2
  <2>1. find = 1 /\ n >= 3
    BY <1>5, <1>6, <1>11
  <2>2. First(buf, find) = <<"H">>
    <3>1. Content(form)[e + 3] = "H"
      <4>1. WellFormed(Chars, form) /\ Content(form) \in Seq(Chars) /\ LaidOut(form, E) /\ Signs \subseteq Chars
        BY Zenon DEF Ready, Wired
      <4> QED
        BY <1>3, <4>1, HeaderLines, Zenon
    <3>2. b[1] = "H"
      <4>1. 1 \in 1 .. Len(b) /\ t + 1 = e + 3
        <5>1. 1 \in 1 .. n /\ (e + 2) + 1 = e + 3
          BY <1>4, <1>5, <2>1
        <5> QED
          BY <1>11, <1>12, <5>1
      <4> QED
        BY <1>5, <3>1, <4>1 DEF Occurs
    <3>3. First(b, 1) = SubSeq(b, 1, 1)
      BY <1>3, <1>5, <2>1 DEF First
    <3>4. PICK u : u = SubSeq(b, 1, 1)
      OBVIOUS
    <3>5. Len(u) = 1 /\ u[1] = "H" /\ u \in Seq(Chars)
      <4>1. 1 \in 1 .. Len(b)
        BY <1>5, <1>12, <2>1
      <4> QED
        BY <1>5, <3>2, <3>4, <4>1
    <3>6. u = <<"H">>
      BY <3>5
    <3> QED
      BY <1>3, <2>1, <3>3, <3>4, <3>6
  <2>3. buf' = From(buf, find + Len(crlf_)) /\ UNCHANGED <<parsing, state_, is_valid_, files>>
    BY <1>3, <1>5, <1>11, <2>1, <2>2 DEF Header, buf_erase, GoOn
  <2>4. buf' = From(buf, 3) /\ 3 \in Nat /\ 3 <= Len(buf)
    BY <1>3, <2>1, <2>3, Words
  <2>5. Goes(Chars)
    BY <1>1, <1>8, <2>3 DEF Goes
  <2>6. Wired(Chars, E)' /\ Reading(Chars)' /\ Taken' = Taken + 3 /\ r' = r /\ form' = form
    BY <2>4, <2>5, Moves, Zenon DEF Goes
  <2>7. Taken' = e + 5
    <3>1. (e + 2) + 3 = e + 5 /\ Taken' = t + 3
      BY <1>4, <1>12, <2>6
    <3> QED
      BY <1>11, <3>1
  <2>8. Whole(k - 1)'
    BY <1>8, <2>3, <2>6, Zenon DEF Whole
  <2>9. AtHeaders(E, k)'
    BY <1>1, <1>3, <1>8, <2>3, <2>7, <2>8 DEF AtHeaders
  <2> QED
    BY <2>6, <2>9, Zenon DEF Ready, OnTrack
<1> QED
  BY <1>7, <1>9, <1>10, <1>11

\* q characters of the content are added to the k-th file, which they continue.
LEMMA Adds ==
  ASSUME NEW Chars, NEW E, Ready(Chars, E), NEW k \in 1 .. Len(form.files), AtFile(E, k),
         NEW q \in Nat, q <= Len(buf), Taken + q <= E[k] - 5, AddContent(q), form' = form,
         NEW have, have = (Taken + q) - (E[k - 1] + 7)
  PROVE  files' \in Seq(Seq(Chars)) /\ Copied(k, have)'
<1>1. PICK file, C, o, t, b, l, fs, gs :
        /\ file = form.files[k] /\ C = Content(form) /\ o = E[k - 1] + 7 /\ t = Taken /\ b = buf
        /\ l = Len(file) /\ fs = files /\ gs = form.files
  OBVIOUS
<1>2. file \in Seq(Chars) /\ l \in Nat /\ o \in Nat /\ k \in Nat /\ E[k] - 5 = o + l
  <2>1. PICK e, m : e = E[k - 1] /\ m = E[k]
    OBVIOUS
  <2>2. e \in Nat /\ m = e + l + 12 /\ l \in Nat /\ file \in Seq(Chars) /\ k \in Nat
    BY <1>1, <2>1, FileMarks, Zenon
  <2>3. m - 5 = (e + 7) + l /\ e + 7 \in Nat
    BY <2>2
  <2> QED
    BY <1>1, <2>1, <2>2, <2>3
<1>3. b \in Seq(Chars) /\ t \in Nat /\ Occurs(C, b, t) /\ q <= Len(b)
  BY <1>1, Before, Zenon
<1>4. PICK x : x = t - o
  OBVIOUS
<1>5. /\ x \in Nat /\ t = o + x /\ x + q <= l /\ (t + q) - o = x + q
  <2>1. t \in o .. E[k] - 5 /\ t + q <= E[k] - 5
    BY <1>1, Zenon DEF AtFile
  <2>2. t \in o .. o + l /\ t + q <= o + l
    BY <1>2, <2>1
  <2> QED
    BY <1>2, <1>3, <1>4, <2>2
<1>6. Occurs(C, file, o)
  BY <1>1, Zenon DEF Ready, Wired, LaidOut
<1>16. Len(file) = l /\ l \in Nat /\ o \in Nat /\ k \in Nat /\ file \in Seq(Chars)
  BY <1>1, <1>2
<1>7. First(b, q) = SubSeq(file, x + 1, x + q)
  <2>1. PICK u : u = SubSeq(b, 1, q)
    OBVIOUS
  <2>2. u \in Seq(Chars) /\ Len(u) = q /\ \A i \in 1 .. q : u[i] = b[i]
    BY <1>3, <2>1
  <2>3. First(b, q) = u
    BY <1>3, <2>1 DEF First
  <2>4. PICK v : v = SubSeq(file, x + 1, x + q)
    OBVIOUS
  <2>5. v \in Seq(Chars) /\ Len(v) = q /\ \A i \in 1 .. q : v[i] = file[x + i]
    <3>1. PICK y, z : y = x + 1 /\ z = x + q
      OBVIOUS
    <3>2. /\ y \in 1 .. Len(file) + 1 /\ z \in y - 1 .. Len(file) /\ z - y + 1 = q
          /\ (y <= z => Len(v) = z - y + 1) /\ (~(y <= z) => q = 0)
      <4>1. y \in 1 .. l + 1 /\ z \in y - 1 .. l /\ z - y + 1 = q /\ (~(y <= z) => q = 0)
        BY <1>5, <1>16, <3>1
      <4>2. v = SubSeq(file, y, z)
        BY <2>4, <3>1
      <4>3. y \in 1 .. Len(file) + 1 /\ z \in y - 1 .. Len(file)
        BY <1>16, <4>1
      <4>4. Len(v) = IF y <= z THEN z - y + 1 ELSE 0
        BY <1>16, <4>2, <4>3, SubSeqProperties
      <4> QED
        BY <4>1, <4>3, <4>4
    <3>3. /\ v \in Seq(Chars) /\ Len(v) = z - y + 1
          /\ \A i \in 1 .. z - y + 1 : v[i] = file[y + i - 1]
      <4>1. v = SubSeq(file, y, z) /\ y \in 1 .. Len(file) + 1 /\ z \in y - 1 .. Len(file)
        BY <2>4, <3>1, <3>2
      <4>2. /\ SubSeq(file, y, z) \in Seq(Chars)
            /\ \A i \in 1 .. z - y + 1 : SubSeq(file, y, z)[i] = file[y + i - 1]
        <5>1. \A i \in y .. z : i \in 1 .. Len(file)
          BY <1>16, <4>1
        <5>2. y \in Int /\ z \in Int /\ \A i \in y .. z : file[i] \in Chars
          BY <1>16, <4>1, <5>1
        <5> QED
          BY <5>2, SubSeqProperties
      <4>3. Len(v) = z - y + 1
        <5>1. CASE y <= z
          BY <3>2, <5>1
        <5>2. CASE ~(y <= z)
          <6>1. Len(v) = IF y <= z THEN z - y + 1 ELSE 0
            BY <1>16, <4>1, SubSeqProperties
          <6> QED
            BY <3>2, <5>2, <6>1
        <5> QED
          BY <5>1, <5>2
      <4> QED
        BY <4>1, <4>2, <4>3, Zenon
    <3>4. \A i \in 1 .. q : y + i - 1 = x + i
      BY <1>5, <3>1
    <3> QED
      BY <3>2, <3>3, <3>4
  <2>6. ASSUME NEW i \in 1 .. q PROVE u[i] = v[i]
    <3>1. i \in 1 .. Len(b) /\ x + i \in 1 .. Len(file) /\ t + i = o + (x + i)
      <4>1. i \in 1 .. Len(b)
        BY <1>3
      <4>2. x + i \in 1 .. l /\ t + i = o + (x + i)
        BY <1>5, <1>16
      <4> QED
        BY <1>16, <4>1, <4>2
    <3>2. C[t + i] = b[i] /\ C[o + (x + i)] = file[x + i]
      BY <1>3, <1>6, <3>1, Zenon DEF Occurs
    <3> QED
      BY <2>2, <2>5, <3>1, <3>2
  <2>7. u = v
    BY <2>2, <2>5, <2>6, SeqEqual
  <2> QED
    BY <2>3, <2>4, <2>7
<1>8. fs \in Seq(Seq(Chars))
  BY <1>1 DEF Ready, Reading
<1>9. /\ Len(fs) = k /\ \A i \in 1 .. k - 1 : fs[i] = gs[i]
      /\ fs[k] = SubSeq(file, 1, x)
  BY <1>1, <1>4, Zenon DEF AtFile, Copied
<1>10. files' = [fs EXCEPT ![k] = fs[k] \o SubSeq(file, x + 1, x + q)]
  <2>1. files' = [fs EXCEPT ![Len(fs)] = @ \o First(b, q)]
    BY <1>1 DEF AddContent
  <2> QED
    BY <1>7, <1>9, <2>1
<1>11. fs[k] \o SubSeq(file, x + 1, x + q) = SubSeq(file, 1, x + q)
  <2>1. 1 \in 1 .. Len(file) + 1 /\ x \in 1 - 1 .. Len(file) /\ x + q \in x .. Len(file)
    <3>1. 1 \in 1 .. l + 1 /\ x \in 1 - 1 .. l /\ x + q \in x .. l
      BY <1>5, <1>16
    <3> QED
      BY <1>16, <3>1
  <2>2. SubSeq(file, 1, x) \o SubSeq(file, x + 1, x + q) = SubSeq(file, 1, x + q)
    BY <1>16, <2>1, ConcatAdjacentSubSeq
  <2> QED
    BY <1>9, <2>2
<1>12. PICK new : new = SubSeq(file, 1, x + q)
  OBVIOUS
<1>13. new \in Seq(Chars) /\ files' = [fs EXCEPT ![k] = new]
  <2>1. x + q \in 0 .. l
    BY <1>5, <1>16
  <2>2. new \in Seq(Chars)
    BY <1>12, <1>16, <2>1
  <2>3. files' = [fs EXCEPT ![k] = new]
    BY <1>10, <1>11, <1>12, Zenon
  <2> QED
    BY <2>2, <2>3
<1>14. /\ files' \in Seq(Seq(Chars)) /\ Len(files') = k /\ files'[k] = new
       /\ \A i \in 1 .. k - 1 : files'[i] = fs[i]
  <2>1. k \in 1 .. Len(fs)
    BY <1>2, <1>9
  <2> QED
    BY <1>2, <1>8, <1>9, <1>13, <2>1
<1>15. Copied(k, x + q)'
  <2>1. form'.files = gs /\ gs[k] = file
    BY <1>1
  <2>2. \A i \in 1 .. k - 1 : files'[i] = gs[i]
    BY <1>9, <1>14, Zenon
  <2> QED
    BY <1>12, <1>14, <2>1, <2>2, Zenon DEF Copied
<1>17. have = x + q
  BY <1>1, <1>5
<1> QED
  BY <1>14, <1>15, <1>17

LEMMA BodyKeeps ==
  ASSUME NEW Chars, NEW E, Ready(Chars, E), Body, Kept
  PROVE  Ready(Chars, E)'
<1>1. state_ = "body" /\ parsing = "parse" /\ is_valid_' = is_valid_
  BY DEF Body, Parse
<1>2. PICK k \in 1 .. Len(form.files) : AtFile(E, k)
  BY <1>1, Zenon DEF Ready, OnTrack, AtPreamble, AtEnd, AtHeaders, AtBoundary
<1>3. PICK n, find, e, m, b, t, w, C, l :
        /\ n = Len(buf) /\ find = buf_find(crlf_dash_boundary_) /\ e = E[k - 1] /\ m = E[k] /\ b = buf
        /\ t = Taken /\ w = crlf_dash_boundary_ /\ C = Content(form) /\ l = Len(form.files[k])
  OBVIOUS
<1>4. e \in Nat /\ m \in Nat /\ k \in Nat /\ l \in Nat /\ m = e + l + 12
  BY <1>3, FileMarks
<1>5. n \in Nat /\ r = t + n /\ t \in Nat /\ b \in Seq(Chars) /\ Occurs(C, b, t) /\ r \in Nat
  BY <1>3, Before, Zenon
<1>6. t \in e + 7 .. m - 5 /\ ~is_valid_ /\ Copied(k, t - (e + 7))
  BY <1>2, <1>3 DEF AtFile
<1>7. /\ Signs \subseteq Chars /\ WellFormed(Chars, form) /\ Content(form) \in Seq(Chars)
      /\ LaidOut(form, E)
  BY Zenon DEF Ready, Wired
<1>8. w \in Seq(Chars) /\ Len(w) = 5
  BY <1>3, <1>7, WordTypes, Zenon
<1>9. PICK a \in Nat : a = (m - 5) - t
  BY <1>4, <1>6
<1>10. find = IF a + 5 <= n THEN a ELSE n
  <2>1. Occurs(C, w, m - 5) /\ \A p \in 0 .. l - 1 : ~Occurs(C, w, (e + 7) + p)
    BY <1>3, <1>7, FileBoundary, Zenon
  <2>2. t + a = m - 5
    BY <1>4, <1>5, <1>9
  <2>3. \A i \in 0 .. a - 1 : ~Occurs(C, w, t + i)
    <3>1. ASSUME NEW i \in 0 .. a - 1 PROVE ~Occurs(C, w, t + i)
      <4>1. PICK p : p = (t + i) - (e + 7)
        OBVIOUS
      <4>2. p \in 0 .. l - 1 /\ (e + 7) + p = t + i
        BY <1>4, <1>5, <1>6, <1>9, <4>1
      <4> QED
        BY <2>1, <4>2
    <3> QED
      BY <3>1
  <2>4. Occurs(C, w, t + a)
    BY <2>1, <2>2
  <2>5. buf_find(w) = IF a + Len(w) <= Len(buf) THEN a ELSE Len(buf)
    BY <1>3, <1>5, <1>8, <1>9, <2>3, <2>4, FindsFirst
  <2> QED
    BY <1>3, <1>8, <2>5
<1>11. Len(b) = n /\ Taken = t /\ E[k] = m /\ E[k - 1] = e
  BY <1>3
<1>12. CASE n - 5 < 0
  <2>1. parsing' = "true" /\ UNCHANGED <<buf, state_, files>>
    <3>1. find = n /\ ~(find < n)
      BY <1>5, <1>10, <1>12
    <3> QED
      BY <1>3, <1>8, <1>12, <3>1 DEF Body, Return
  <2>2. Goes(Chars)
    BY <2>1, Zenon DEF Ready, Reading, Goes
  <2>3. Wired(Chars, E)' /\ Reading(Chars)' /\ Taken' = Taken /\ r' = r /\ form' = form
    BY <2>1, <2>2, Waits
  <2>4. r < m
    BY <1>4, <1>5, <1>6, <1>12
  <2>5. AtFile(E, k)'
    <3>1. Copied(k, Taken - (E[k - 1] + 7))'
      BY <1>3, <1>6, <2>1, <2>3, Zenon DEF Copied
    <3>2. Taken' \in E[k - 1] + 7 .. E[k] - 5 /\ r' < E[k]
      BY <1>6, <1>11, <2>3, <2>4
    <3> QED
      BY <1>1, <1>6, <2>1, <3>1, <3>2, Zenon DEF AtFile
  <2> QED
    BY <2>3, <2>5, Zenon DEF Ready, OnTrack
<1>13. CASE ~(n - 5 < 0) /\ a + 5 <= n
  <2>1. find = a /\ find < n /\ a <= n
    BY <1>5, <1>10, <1>13
  <2>2. /\ AddContent(a) /\ buf' = From(buf, a + 5) /\ state_' = "boundary" /\ parsing' = "parse"
    BY <1>1, <1>3, <1>8, <1>13, <2>1 DEF Body, buf_erase, GoOn
  <2>3. form' = form
    BY DEF Kept
  <2>4. files' \in Seq(Seq(Chars)) /\ Copied(k, (t + a) - (e + 7))'
    <3>1. t + a <= m - 5
      BY <1>4, <1>5, <1>9
    <3>2. a <= Len(buf) /\ Taken + a <= E[k] - 5
      BY <1>3, <2>1, <3>1
    <3>3. PICK have : have = (t + a) - (e + 7)
      OBVIOUS
    <3>4. files' \in Seq(Seq(Chars)) /\ Copied(k, have)'
      BY <1>2, <1>11, <2>2, <2>3, <3>2, <3>3, Adds
    <3> QED
      BY <3>3, <3>4, Zenon
  <2>5. Goes(Chars)
    BY <2>2, <2>4 DEF Goes
  <2>6. Wired(Chars, E)' /\ Reading(Chars)' /\ Taken' = Taken + (a + 5) /\ r' = r
    <3>1. a + 5 \in Nat /\ a + 5 <= Len(buf)
      BY <1>3, <1>13
    <3> QED
      BY <2>2, <2>5, <3>1, Moves DEF Goes
  <2>7. Taken' = E[k]
    <3>1. t + (a + 5) = m
      BY <1>4, <1>5, <1>9
    <3> QED
      BY <1>11, <2>6, <3>1
  <2>8. Whole(k)'
    <3>1. PICK gs, file : gs = form.files /\ file = form.files[k]
      OBVIOUS
    <3>2. (t + a) - (e + 7) = l
      BY <1>4, <1>5, <1>9
    <3>3. SubSeq(file, 1, l) = file
      <4>1. file \in Seq(Chars) /\ l = Len(file)
        BY <1>3, <3>1, FileMarks, Zenon
      <4> QED
        BY <4>1, SubSeqFull
    <3>4. Copied(k, l)'
      BY <2>4, <3>2
    <3>5. Len(files') = k /\ (\A i \in 1 .. k - 1 : files'[i] = gs[i]) /\ files'[k] = gs[k]
      BY <2>3, <3>1, <3>3, <3>4, Zenon DEF Copied
    <3>6. \A i \in 1 .. k : files'[i] = gs[i]
      <4>1. ASSUME NEW i \in 1 .. k PROVE files'[i] = gs[i]
        <5>1. i \in 1 .. k - 1 \/ i = k
          BY <1>4
        <5> QED
          BY <3>5, <5>1
      <4> QED
        BY <4>1
    <3> QED
      BY <2>3, <3>1, <3>5, <3>6, Zenon DEF Whole
  <2>9. AtBoundary(E, k)'
    BY <1>1, <1>6, <2>2, <2>7, <2>8 DEF AtBoundary
  <2> QED
    BY <2>3, <2>6, <2>9, Zenon DEF Ready, OnTrack
<1>14. CASE ~(n - 5 < 0) /\ ~(a + 5 <= n)
  <2>1. find = n
    BY <1>10, <1>14
  <2>2. PICK q \in Nat : q = n - 5
    BY <1>5, <1>14
  <2>3. /\ AddContent(q) /\ buf' = From(buf, q) /\ state_' = "body" /\ parsing' = "true"
    BY <1>1, <1>3, <1>5, <1>8, <1>14, <2>1, <2>2 DEF Body, buf_erase, Return
  <2>4. form' = form
    BY DEF Kept
  <2>5. t + q <= m - 5 /\ q <= n /\ t + q \in e + 7 .. m - 5 /\ r < m
    BY <1>4, <1>5, <1>6, <1>9, <1>14, <2>2
  <2>6. files' \in Seq(Seq(Chars)) /\ Copied(k, (t + q) - (e + 7))'
    <3>1. q <= Len(buf) /\ Taken + q <= E[k] - 5
      BY <1>3, <2>5
    <3>3. PICK have : have = (t + q) - (e + 7)
      OBVIOUS
    <3>4. files' \in Seq(Seq(Chars)) /\ Copied(k, have)'
      BY <1>2, <1>11, <2>3, <2>4, <3>1, <3>3, Adds
    <3> QED
      BY <3>3, <3>4, Zenon
  <2>7. Goes(Chars)
    BY <1>1, <2>3, <2>6 DEF Goes
  <2>8. Wired(Chars, E)' /\ Reading(Chars)' /\ Taken' = Taken + q /\ r' = r
    <3>1. q <= Len(buf)
      BY <1>3, <2>5
    <3> QED
      BY <2>3, <2>7, <3>1, Moves DEF Goes
  <2>9. AtFile(E, k)'
    <3>1. Taken' = t + q
      BY <1>11, <2>8
    <3>2. Copied(k, Taken - (E[k - 1] + 7))'
      BY <1>11, <2>6, <3>1, Zenon DEF Copied
    <3>3. Taken' \in E[k - 1] + 7 .. E[k] - 5 /\ r' < E[k]
      BY <1>11, <2>5, <2>8, <3>1
    <3> QED
      BY <1>1, <1>6, <2>3, <3>2, <3>3, Zenon DEF AtFile
  <2> QED
    BY <2>4, <2>8, <2>9, Zenon DEF Ready, OnTrack
<1> QED
  BY <1>12, <1>13, <1>14

LEMMA BoundaryKeeps ==
  ASSUME NEW Chars, NEW E, Ready(Chars, E), Boundary, Kept
  PROVE  Ready(Chars, E)'
<1>1. state_ = "boundary" /\ parsing = "parse" /\ buf # <<>> /\ files' = files
  BY Zenon DEF Boundary, Parse
<1>2. PICK k \in 1 .. Len(form.files) : AtBoundary(E, k)
  BY <1>1, Zenon DEF Ready, OnTrack, AtPreamble, AtEnd, AtHeaders, AtFile
<1>3. PICK n, m, b, t, C, last :
        /\ n = Len(buf) /\ m = E[k] /\ b = buf /\ t = Taken /\ C = Content(form)
        /\ last = Len(form.files)
  OBVIOUS
<1>4. m \in Nat /\ k \in Nat
  BY <1>3, FileMarks
<1>5. n \in Nat /\ r = t + n /\ t \in Nat /\ b \in Seq(Chars) /\ Occurs(C, b, t) /\ r \in Nat
  BY <1>3, Before, Zenon
<1>6. t = m /\ ~is_valid_ /\ Whole(k)
  BY <1>2, <1>3 DEF AtBoundary
<1>7. /\ Signs \subseteq Chars /\ WellFormed(Chars, form) /\ Content(form) \in Seq(Chars)
      /\ LaidOut(form, E)
  BY Zenon DEF Ready, Wired
<1>8. Len(b) = n /\ Taken = t /\ E[k] = m /\ files \in Seq(Seq(Chars))
  BY <1>3 DEF Ready, Reading
<1>9. Len(crlf_) = 2 /\ Len(dash_) = 2 /\ crlf_ \in Seq(Chars) /\ dash_ \in Seq(Chars)
  BY <1>7, WordTypes, Zenon
<1>10. CASE n < 2
  <2>1. parsing' = "true" /\ UNCHANGED <<buf, state_, is_valid_>>
    <3>1. ~(Len(crlf_) <= Len(b)) /\ ~(Len(dash_) <= Len(b)) /\ Len(crlf_) > Len(buf)
      BY <1>3, <1>5, <1>9, <1>10
    <3>2. ~buf_start_with(buf, crlf_) /\ ~buf_start_with(buf, dash_)
      BY <1>3, <1>5, <1>9, <3>1, StartsWith
    <3> QED
      BY <3>1, <3>2, Zenon DEF Boundary, Return
  <2>2. Goes(Chars)
    BY <1>1, <1>8, <2>1 DEF Goes
  <2>3. Wired(Chars, E)' /\ Reading(Chars)' /\ Taken' = Taken /\ Len(buf') = Len(buf) /\ form' = form
    BY <2>1, <2>2, Waits
  <2>4. AtBoundary(E, k)'
    <3>1. Len(buf') < 2 /\ Taken' = E[k]
      BY <1>3, <1>6, <1>10, <2>3
    <3>2. Whole(k)'
      BY <1>1, <1>6, <2>3, Zenon DEF Whole
    <3> QED
      BY <1>1, <1>6, <2>1, <3>1, <3>2, Zenon DEF AtBoundary
  <2> QED
    BY <2>3, <2>4, Zenon DEF Ready, OnTrack
<1>11. ASSUME n >= 2, NEW x, NEW y, C[m + 1] = x, C[m + 2] = y
       PROVE  b[1] = x /\ b[2] = y
  <2>1. 1 \in 1 .. Len(b) /\ 2 \in 1 .. Len(b)
    BY <1>5, <1>8, <1>11
  <2>2. C[t + 1] = b[1] /\ C[t + 2] = b[2]
    BY <1>5, <2>1 DEF Occurs
  <2> QED
    BY <1>6, <1>11, <2>2
<1>12. CASE n >= 2 /\ k < last
  <2>1. k + 1 \in 1 .. Len(form.files) /\ (k + 1) - 1 = k
    BY <1>3, <1>4, <1>12
  <2>2. C[m + 1] = "r" /\ C[m + 2] = "n"
    <3>1. C[E[(k + 1) - 1] + 1] = "r" /\ C[E[(k + 1) - 1] + 2] = "n"
      <4>1. PICK j : j = k + 1
        OBVIOUS
      <4>2. j \in 1 .. Len(form.files)
        BY <2>1, <4>1
      <4>3. Content(form)[E[j - 1] + 1] = "r" /\ Content(form)[E[j - 1] + 2] = "n"
        BY <1>7, <4>2, HeaderLines, Zenon
      <4> QED
        BY <1>3, <4>1, <4>3, Zenon
    <3> QED
      BY <1>8, <2>1, <3>1
  <2>3. b[1] = "r" /\ b[2] = "n"
    BY <1>11, <1>12, <2>2
  <2>4. buf_start_with(b, crlf_)
    <3>1. crlf_ = <<"r", "n">>
      BY Words
    <3>2. Occurs(b, crlf_, 0)
      BY <2>3, <3>1 DEF Occurs
    <3>3. Len(crlf_) <= Len(b)
      BY <1>8, <1>9, <1>12
    <3> QED
      BY <1>5, <1>9, <3>2, <3>3, StartsWith
  <2>5. buf' = From(buf, 2) /\ state_' = "new entry" /\ parsing' = "parse" /\ is_valid_' = is_valid_
    <3>1. ~(Len(crlf_) > Len(buf)) /\ buf_start_with(buf, crlf_)
      BY <1>3, <1>5, <1>9, <1>12, <2>4
    <3>2. ~(buf_start_with(buf, dash_))
      <4>1. dash_ = <<"-", "-">>
        BY Words
      <4>2. ~Occurs(b, dash_, 0)
        BY <2>3, <4>1 DEF Occurs
      <4> QED
        BY <1>3, <1>5, <1>9, <4>2, StartsWith
    <3> QED
      BY <1>1, <1>9, <3>1, <3>2, Zenon DEF Boundary, buf_erase, GoOn
  <2>6. Goes(Chars)
    BY <1>1, <1>8, <2>5, Zenon DEF Goes
  <2>7. Wired(Chars, E)' /\ Reading(Chars)' /\ Taken' = Taken + 2 /\ form' = form
    <3>1. 2 \in Nat /\ 2 <= Len(buf)
      BY <1>3, <1>12
    <3> QED
      BY <2>5, <2>6, <3>1, Moves, Zenon DEF Goes
  <2>8. Whole((k + 1) - 1)'
    BY <1>1, <1>6, <2>1, <2>7, Zenon DEF Whole
  <2>9. Taken' = E[(k + 1) - 1] + 2
    BY <1>6, <1>8, <2>1, <2>7
  <2>10. AtHeaders(E, k + 1)'
    BY <1>6, <2>5, <2>8, <2>9, Zenon DEF AtHeaders
  <2> QED
    BY <2>1, <2>7, <2>10, Zenon DEF Ready, OnTrack
<1>13. CASE n >= 2 /\ ~(k < last)
  <2>1. k = last /\ E[last] = m
    BY <1>3, <1>4, <1>13, Marks DEF Ready, Wired
  <2>2. PICK epi, len : epi = Len(form.epilogue) /\ len = length
    OBVIOUS
  <2>3. /\ epi \in Nat /\ len = m + (IF form.closed THEN 2 ELSE 0) + epi
        /\ r <= len /\ len = Len(C) /\ r \notin Len(C) - epi .. Len(C) - 1
    <3>1. /\ Len(form.epilogue) \in Nat
          /\ Len(Content(form)) = E[Len(form.files)] + (IF form.closed THEN 2 ELSE 0) + Len(form.epilogue)
      BY <1>7, Marks, Zenon
    <3>2. r <= length /\ length = Len(Content(form)) /\ NotCut
      BY Before, Zenon
    <3> QED
      BY <1>3, <2>1, <2>2, <3>1, <3>2, Zenon DEF NotCut
  <2>4. form.closed
    <3>1. SUFFICES ASSUME ~form.closed PROVE FALSE
      OBVIOUS
    <3>2. form.epilogue = <<>>
      BY <1>7, <3>1, Zenon DEF WellFormed
    <3>3. epi = 0
      BY <2>2, <3>2
    <3>4. len = m + 0 + epi
      BY <2>3, <3>1, Zenon
    <3> QED
      BY <1>4, <1>5, <1>6, <1>13, <2>3, <3>3, <3>4
  <2>5. r = length
    <3>1. len = m + 2 + epi
      BY <2>3, <2>4, Zenon
    <3>2. r = m + n /\ r >= len - epi /\ r <= len /\ r \notin len - epi .. len - 1
      BY <1>4, <1>5, <1>6, <1>13, <2>3, <3>1
    <3>3. r = len
      BY <1>4, <1>5, <2>3, <3>1, <3>2
    <3> QED
      BY <2>2, <3>3
  <2>6. C[m + 1] = "-" /\ C[m + 2] = "-"
    <3>1. Occurs(Content(form), <<"-", "-">>, E[Len(form.files)])
      BY <1>7, <2>4, Zenon DEF LaidOut
    <3>2. Occurs(C, <<"-", "-">>, m)
      BY <1>3, <2>1, <3>1
    <3> QED
      BY <1>4, <3>2 DEF Occurs
  <2>7. b[1] = "-" /\ b[2] = "-"
    BY <1>11, <1>13, <2>6
  <2>8. ~buf_start_with(buf, crlf_) /\ buf_start_with(buf, dash_) /\ ~(Len(crlf_) > Len(buf))
    <3>1. crlf_ = <<"r", "n">> /\ dash_ = <<"-", "-">>
      BY Words
    <3>2. ~Occurs(b, crlf_, 0) /\ Occurs(b, dash_, 0)
      BY <2>7, <3>1 DEF Occurs
    <3>3. Len(dash_) <= Len(b) /\ ~(Len(crlf_) > Len(b))
      BY <1>5, <1>8, <1>9, <1>13
    <3> QED
      BY <1>3, <1>5, <1>9, <3>2, <3>3, StartsWith
  <2>9. buf' = <<>> /\ is_valid_' = TRUE /\ parsing' = "parse" /\ state_' = "boundary"
    BY <1>1, <2>8, Zenon DEF Boundary, GoOn
  <2>10. buf' = From(buf, n)
    <3>1. From(b, n) \in Seq(Chars) /\ Len(From(b, n)) = Len(b) - n
      <4>1. n <= Len(b)
        BY <1>5, <1>8
      <4> QED
        BY <1>5, <4>1, FromSays
    <3>2. Len(b) - n = 0
      BY <1>5, <1>8
    <3>3. From(b, n) = <<>>
      BY <3>1, <3>2
    <3> QED
      BY <1>3, <2>9, <3>3
  <2>11. Goes(Chars)
    BY <1>1, <1>8, <2>9 DEF Goes
  <2>12. Wired(Chars, E)' /\ Reading(Chars)' /\ r' = r /\ form' = form
    <3>1. n <= Len(buf)
      BY <1>3, <1>5
    <3> QED
      BY <1>5, <2>10, <2>11, <3>1, Moves, Zenon DEF Goes
  <2>13. Whole(Len(form.files))'
    BY <1>1, <1>3, <1>6, <2>1, <2>12, Zenon DEF Whole
  <2>14. length' = length
    BY DEF Kept, streamVars
  <2>15. AtEnd'
    BY <2>4, <2>5, <2>9, <2>12, <2>13, <2>14 DEF AtEnd
  <2> QED
    BY <2>12, <2>15, Zenon DEF Ready, OnTrack
<1> QED
  BY <1>5, <1>10, <1>12, <1>13

-----------------------------------------------------------------------------
(***************************************************************************)
(* The parser is fed.                                                      *)
(***************************************************************************)

\* The line before the content is the three characters that are sent before it.
LEMMA LineRead ==
  ASSUME NEW Chars, NEW E, IInv(Chars), Wired(Chars, E), reading = "content"
  PROVE  Len(ptr) = 3 /\ \A i \in 1 .. length : sent[3 + i] = Content(form)[i]
<1>1. PICK C, s, p : C = Content(form) /\ s = sent /\ p = ptr
  OBVIOUS
<1>2. C \in Seq(Chars) /\ s = <<"L", "i", "n">> \o C \o <<"L">> /\ length = Len(C)
  BY <1>1, Zenon DEF Wired
<1>3. PICK h : h = <<"L", "i", "n">> \o C
  OBVIOUS
<1>4. {"L", "i", "n"} \subseteq Chars
  BY DEF Wired, Signs
<1>5. /\ h \in Seq(Chars) /\ Len(h) = 3 + Len(C) /\ h[1] = "L" /\ h[2] = "i" /\ h[3] = "n"
      /\ \A i \in 1 .. Len(C) : h[3 + i] = C[i]
  BY <1>2, <1>3, <1>4
<1>6. s = h \o <<"L">>
  BY <1>2, <1>3
<1>7. Len(s) = Len(h) + 1 /\ \A i \in 1 .. Len(h) : s[i] = h[i]
  BY <1>4, <1>5, <1>6
<1>8. s[1] = "L" /\ s[2] = "i" /\ s[3] = "n"
  <2>1. 1 \in 1 .. Len(h) /\ 2 \in 1 .. Len(h) /\ 3 \in 1 .. Len(h)
    BY <1>2, <1>5
  <2> QED
    BY <1>5, <1>7, <2>1
<1>9. ASSUME NEW i \in 1 .. Len(C) PROVE s[3 + i] = C[i]
  <2>1. 3 + i \in 1 .. Len(h)
    BY <1>2, <1>5
  <2> QED
    BY <1>5, <1>7, <2>1
<1>10. /\ p = SubSeq(s, 1, Len(p)) /\ Len(p) > 0 /\ p[Len(p)] = "n"
       /\ \A i \in 1 .. Len(p) - 1 : p[i] # "n"
  BY <1>1 DEF IInv, Line
<1>11. Len(p) \in Nat /\ Len(p) <= Len(s) /\ s \in Seq(Chars)
  <2>1. p \in Seq(Chars) /\ s \in Seq(Chars)
    BY <1>1 DEF IInv, Types, ptr
  <2>2. Len(p) + r <= Len(s) /\ r \in Nat
    BY <1>1 DEF IInv, Positions, Done, Types
  <2> QED
    BY <2>1, <2>2
<1>12. PICK l \in Nat : l = Len(p)
  BY <1>11
<1>13. \A i \in 1 .. l : p[i] = s[i]
  <2>1. PICK v : v = SubSeq(s, 1, l)
    OBVIOUS
  <2>2. \A i \in 1 .. l : v[i] = s[i]
    BY <1>11, <1>12, <2>1
  <2>3. p = v
    BY <1>10, <1>12, <2>1
  <2> QED
    BY <2>2, <2>3
<1>14. ~(l > 3)
  <2>1. SUFFICES ASSUME l > 3 PROVE FALSE
    OBVIOUS
  <2>2. 3 \in 1 .. l - 1 /\ 3 \in 1 .. l
    BY <2>1
  <2> QED
    BY <1>8, <1>10, <1>12, <1>13, <2>2
<1>15. l # 1 /\ l # 2 /\ l > 0
  <2>1. l > 0 /\ l \in 1 .. l
    BY <1>10, <1>12
  <2>2. s[l] = "n"
    BY <1>10, <1>12, <1>13, <2>1
  <2> QED
    BY <1>8, <2>1, <2>2
<1>16. l = 3
  BY <1>14, <1>15
<1>17. Len(ptr) = 3
  BY <1>1, <1>12, <1>16
<1>18. \A i \in 1 .. length : sent[3 + i] = Content(form)[i]
  BY <1>1, <1>2, <1>9, Zenon
<1> QED
  BY <1>17, <1>18

LEMMA FeedKeeps ==
  ASSUME NEW Chars, NEW E, IInv(Chars), Wired(Chars, E), ~cut => Ready(Chars, E), Feed
  PROVE  Wired(Chars, E)' /\ (~cut' => Ready(Chars, E)')
<1>1. /\ parsing = "true" /\ read_content_with_length /\ buf' = buf \o given' /\ parsing' = "parse"
      /\ UNCHANGED <<state_, is_valid_, files, form>>
  BY Zenon DEF Feed, buf_append, Return
<1>2. /\ reading = "content" /\ r < length /\ r' = r + Len(given')
      /\ UNCHANGED <<sent, length, fixed_buffer_, glowable_buffer_, reading>>
  BY <1>1 DEF read_content_with_length
<1>3. IInv(Chars)'
  BY <1>1, ContentKeeps
<1>4. PICK g, C, b, t : g = given' /\ C = Content(form) /\ b = buf /\ t = Taken
  OBVIOUS
<1>5. g \in Seq(Chars) /\ r \in Nat /\ r' \in Nat /\ r' <= length /\ length \in Nat
  BY <1>2, <1>3, <1>4 DEF IInv, Types, Positions, Wired
<1>6. Wired(Chars, E)'
  BY <1>1, <1>2, <1>5, Zenon DEF Wired, WellFormed, LaidOut, Content
<1>7. Len(ptr') = 3 /\ ptr' = ptr /\ \A i \in 1 .. length : sent[3 + i] = C[i]
  <2>1. Len(ptr) = 3 /\ \A i \in 1 .. length : sent[3 + i] = Content(form)[i]
    BY <1>2, LineRead
  <2>2. ptr' = ptr
    BY <1>2 DEF ptr
  <2> QED
    BY <1>4, <2>1, <2>2
<1>8. \A i \in 1 .. Len(g) : C[r + i] = g[i]
  <2>1. PICK d, s, n : d = Done' /\ s = sent /\ n = Len(g)
    OBVIOUS
  <2>2. n \in Nat /\ d = 3 + r + n /\ s \in Seq(Chars) /\ r + n <= length
    <3>1. d = Len(ptr') + r'
      BY <2>1 DEF Done
    <3>2. r' = r + n
      BY <1>2, <1>4, <2>1
    <3>3. s \in Seq(Chars)
      BY <2>1 DEF IInv, Types
    <3> QED
      BY <1>5, <1>7, <2>1, <3>1, <3>2, <3>3
  <2>3. d <= Len(s) /\ g = SubSeq(s, d - n + 1, d)
    BY <1>2, <1>3, <1>4, <2>1 DEF IInv, Positions
  <2>4. PICK f : f = d - n + 1
    OBVIOUS
  <2>5. f = 4 + r /\ f \in 1 .. Len(s) + 1 /\ d \in f - 1 .. Len(s) /\ d - f + 1 = n
    <3>1. PICK l \in Nat : l = Len(s)
      BY <2>2
    <3>2. f = 4 + r /\ d <= l /\ d = 3 + r + n
      BY <1>5, <2>2, <2>3, <2>4, <3>1
    <3>3. f \in 1 .. l + 1 /\ d \in f - 1 .. l /\ d - f + 1 = n
      BY <1>5, <2>2, <3>2
    <3> QED
      BY <3>1, <3>2, <3>3
  <2>6. \A i \in 1 .. d - f + 1 : SubSeq(s, f, d)[i] = s[f + i - 1]
    <3>1. f \in Int /\ d \in Int /\ \A i \in f .. d : i \in 1 .. Len(s)
      BY <1>5, <2>2, <2>5
    <3>2. \A i \in f .. d : s[i] \in Chars
      BY <2>2, <3>1
    <3> QED
      BY <3>1, <3>2, SubSeqProperties
  <2>7. ASSUME NEW i \in 1 .. n PROVE C[r + i] = g[i]
    <3>1. f + i - 1 = 3 + (r + i) /\ r + i \in 1 .. length
      BY <1>5, <2>2, <2>5
    <3>2. SubSeq(s, f, d)[i] = s[f + i - 1]
      BY <2>5, <2>6
    <3>3. g[i] = s[f + i - 1]
      BY <2>3, <2>4, <3>2
    <3>4. sent[3 + (r + i)] = C[r + i]
      BY <1>7, <3>1
    <3> QED
      BY <2>1, <3>1, <3>3, <3>4
  <2> QED
    BY <2>1, <2>7
<1>9. ASSUME ~cut' PROVE Ready(Chars, E)'
  <2>1. Ready(Chars, E)
    BY <1>9, Zenon DEF Feed
  <2>2. b \in Seq(Chars) /\ Occurs(C, b, t) /\ t \in Nat /\ r = t + Len(b)
    BY <1>4, <2>1, Before, Zenon
  <2>3. PICK bb : bb = buf'
    OBVIOUS
  <2>4. bb = b \o g
    BY <1>1, <1>4, <2>3
  <2>5. /\ bb \in Seq(Chars) /\ Len(bb) = Len(b) + Len(g)
        /\ Occurs(bb, b, 0) /\ Occurs(bb, g, Len(b))
    BY <1>5, <2>2, <2>4, ConcatSays
  <2>6. Taken' = t
    <3>1. Taken' = r' - Len(bb)
      BY <2>3 DEF Taken
    <3>2. PICK x, y : x = Len(b) /\ y = Len(g)
      OBVIOUS
    <3>3. x \in Nat /\ y \in Nat /\ r' = r + y /\ r = t + x /\ Len(bb) = x + y
      BY <1>2, <1>4, <1>5, <2>2, <2>5, <3>2
    <3>4. r' - Len(bb) = t
      BY <2>2, <3>3
    <3> QED
      BY <3>1, <3>4
  <2>7. Occurs(C, bb, t)
    <3>1. ASSUME NEW i \in 1 .. Len(bb) PROVE C[t + i] = bb[i]
      <4>1. CASE i <= Len(b)
        <5>1. i \in 1 .. Len(b) /\ 0 + i = i
          BY <2>2, <4>1
        <5>2. C[t + i] = b[i] /\ bb[0 + i] = b[i]
          BY <2>2, <2>5, <5>1, Zenon DEF Occurs
        <5> QED
          BY <5>1, <5>2
      <4>2. CASE ~(i <= Len(b))
        <5>1. PICK j : j = i - Len(b)
          OBVIOUS
        <5>2. j \in 1 .. Len(g) /\ Len(b) + j = i /\ t + i = r + j
          BY <1>5, <2>2, <2>5, <4>2, <5>1
        <5>3. bb[Len(b) + j] = g[j]
          BY <2>5, <5>2, Zenon DEF Occurs
        <5>4. C[r + j] = g[j]
          BY <1>8, <5>2
        <5> QED
          BY <5>2, <5>3, <5>4
      <4> QED
        BY <4>1, <4>2
    <3> QED
      BY <3>1, Zenon DEF Occurs
  <2>8. Content(form)' = C /\ form' = form
    BY <1>1, <1>4
  <2>9. NotCut'
    <3>1. PICK p, q : p = Len(form.preamble) /\ q = Len(form.epilogue)
      OBVIOUS
    <3>2. p \in Nat
      BY <3>1, Marks DEF Wired
    <3>3. /\ state_ = "initial boundary" => r' \notin p + 1 .. (p + Len(dash_boundary_crlf_)) - 1
          /\ r' \notin Len(C) - q .. Len(C) - 1
      BY <1>4, <1>9, <3>1, Zenon DEF Feed
    <3>4. Len(dash_boundary_crlf_) = 5
      BY WordTypes DEF Wired
    <3>5. (p + 5) - 1 = p + 4
      BY <3>2
    <3>6. state_ = "initial boundary" => r' \notin p + 1 .. p + 4
      BY <3>3, <3>4, <3>5, Zenon
    <3> QED
      BY <1>1, <2>8, <3>1, <3>3, <3>6, Zenon DEF NotCut
  <2>10. Reading(Chars)'
    <3>1. files' \in Seq(Seq(Chars))
      BY <1>1, <2>1 DEF Ready, Reading
    <3>2. Taken' >= 0
      BY <2>2, <2>6
    <3> QED
      BY <1>1, <2>3, <2>5, <2>6, <2>7, <2>8, <2>9, <3>1, <3>2 DEF Reading
  <2>11. ~AtEnd
    BY <1>2, <1>5 DEF AtEnd
  <2>12. AtPreamble => AtPreamble'
    BY <1>1, <1>4, <2>6, Zenon DEF AtPreamble
  <2>13. ASSUME NEW k
         PROVE  /\ AtHeaders(E, k) => AtHeaders(E, k)'
                /\ AtFile(E, k) => AtFile(E, k)'
                /\ AtBoundary(E, k) => AtBoundary(E, k)'
    BY <1>1, <1>4, <2>6, Zenon DEF AtHeaders, AtFile, AtBoundary, Whole, Copied
  <2>14. OnTrack(E)'
    BY <1>1, <2>1, <2>11, <2>12, <2>13, Zenon DEF Ready, OnTrack
  <2> QED
    BY <1>6, <2>10, <2>14 DEF Ready
<1> QED
  BY <1>6, <1>9

-----------------------------------------------------------------------------
(***************************************************************************)
(* The form arrives as it was sent.                                        *)
(***************************************************************************)

\* Bytes that arrive and the line before the content are nothing to the parser.
LEMMA Unmoved ==
  ASSUME NEW Chars, NEW E, Arrive \/ getline, UNCHANGED <<parserVars, form, cut>>
  PROVE  /\ Wired(Chars, E) => Wired(Chars, E)'
         /\ Ready(Chars, E) => Ready(Chars, E)'
<1>1. UNCHANGED <<sent, length, r, form, buf, state_, parsing, is_valid_, files>>
  BY DEF Arrive, getline, parserVars
<1>2. Wired(Chars, E) => Wired(Chars, E)'
  BY <1>1 DEF Wired, WellFormed, LaidOut, Content
<1>3. Content(form)' = Content(form) /\ Taken' = Taken
  BY <1>1 DEF Content, Taken
<1>4. Reading(Chars) => Reading(Chars)'
  BY <1>1, <1>3, Zenon DEF Reading, NotCut
<1>5. AtPreamble => AtPreamble'
  BY <1>1, <1>3, Zenon DEF AtPreamble
<1>6. AtEnd => AtEnd'
  BY <1>1, <1>3 DEF AtEnd, Whole
<1>7. ASSUME NEW k
      PROVE  /\ AtHeaders(E, k) => AtHeaders(E, k)'
             /\ AtFile(E, k) => AtFile(E, k)'
             /\ AtBoundary(E, k) => AtBoundary(E, k)'
  BY <1>1, <1>3, Zenon DEF AtHeaders, AtFile, AtBoundary, Whole, Copied
<1>8. OnTrack(E) => OnTrack(E)'
  BY <1>1, <1>5, <1>6, <1>7, Zenon DEF OnTrack
<1> QED
  BY <1>2, <1>4, <1>8, Zenon DEF Ready

\* A step of the parser keeps it right about where it is.
LEMMA ParserKeeps ==
  ASSUME NEW Chars, NEW E, PInv(Chars, E), [MultipartNext]_vars,
         CPPHTTPLIB_HEADER_MAX_LENGTH \in Nat \ {0, 1}
  PROVE  PInv(Chars, E)'
<1>1. IInv(Chars)'
  <2>1. [StreamNext]_streamVars
    BY Zenon DEF MultipartNext, Feed, parse, vars, StreamNext
  <2> QED
    BY <2>1, NextIInv DEF PInv
<1>2. CASE (Arrive \/ getline) /\ UNCHANGED <<parserVars, form, cut>>
  <2>1. cut' = cut
    BY <1>2
  <2>2. (Wired(Chars, E) => Wired(Chars, E)') /\ (Ready(Chars, E) => Ready(Chars, E)')
    BY <1>2, Unmoved
  <2> QED
    BY <1>1, <2>1, <2>2, Zenon DEF PInv
<1>3. CASE Feed
  BY <1>1, <1>3, FeedKeeps, Zenon DEF PInv
<1>4. CASE parse
  <2>1. Kept /\ cut' = cut
    BY <1>4 DEF parse, Kept
  <2>2. Wired(Chars, E)'
    BY <2>1, WiredStays DEF PInv
  <2>3. ASSUME ~cut' PROVE Ready(Chars, E)'
    <3>1. Ready(Chars, E)
      BY <2>1, <2>3 DEF PInv
    <3> QED
      BY <1>4, <2>1, <3>1, LoopKeeps, InitialBoundaryKeeps, NewEntryKeeps, HeadersKeeps, HeaderKeeps,
         BodyKeeps, BoundaryKeeps, Zenon DEF parse
  <2> QED
    BY <1>1, <2>2, <2>3 DEF PInv
<1>5. CASE UNCHANGED vars
  <2>1. Kept /\ cut' = cut /\ UNCHANGED parserVars
    BY <1>5 DEF vars, Kept
  <2>2. Wired(Chars, E)'
    BY <2>1, WiredStays DEF PInv
  <2>3. Ready(Chars, E) => Ready(Chars, E)'
    BY <2>1, <2>2, Zenon DEF Kept, streamVars, parserVars, Ready, Reading, NotCut, OnTrack, Taken,
       Content, AtPreamble, AtEnd, AtHeaders, AtFile, AtBoundary, Whole, Copied
  <2> QED
    BY <1>1, <2>1, <2>2, <2>3 DEF PInv
<1> QED
  BY <1>2, <1>3, <1>4, <1>5 DEF MultipartNext

LEMMA ParserInit ==
  ASSUME NEW Chars, Signs \subseteq Chars, NEW forms, \A f \in forms : WellFormed(Chars, f),
         MultipartInit(forms)
  PROVE  \E E : PInv(Chars, E)
<1>1. WellFormed(Chars, form)
  BY Zenon DEF MultipartInit
<1>2. Content(form) \in Seq(Chars) /\ \E E : LaidOut(form, E)
  BY <1>1, FormLaidOut
<1>3. PICK E : LaidOut(form, E)
  BY <1>2
<1>4. PICK C : C = Content(form)
  OBVIOUS
<1>5. /\ StreamInit(<<"L", "i", "n">> \o C \o <<"L">>, Len(C))
      /\ buf = <<>> /\ state_ = "initial boundary" /\ parsing = "true"
      /\ is_valid_ = FALSE /\ files = <<>>
  BY <1>4, Zenon DEF MultipartInit
<1>6. C \in Seq(Chars) /\ Len(C) \in Nat
  BY <1>2, <1>4
<1>7. IInv(Chars)
  <2>1. <<"L", "i", "n">> \o C \o <<"L">> \in Seq(Chars)
    <3>1. <<"L", "i", "n">> \in Seq(Chars) /\ <<"L">> \in Seq(Chars)
      BY DEF Signs
    <3> QED
      BY <1>6, <3>1
  <2> QED
    BY <1>5, <1>6, <2>1, InitIInv, Zenon
<1>8. r = 0 /\ length = Len(C) /\ sent = <<"L", "i", "n">> \o C \o <<"L">>
  BY <1>5, Zenon DEF StreamInit
<1>9. Wired(Chars, E)
  <2>1. r \in Nat /\ r <= length
    BY <1>6, <1>8
  <2> QED
    BY <1>1, <1>2, <1>3, <1>4, <1>8, <2>1, Zenon DEF Wired
<1>10. Taken = 0
  <2>1. Len(buf) = 0
    BY <1>5, Zenon
  <2> QED
    BY <1>8, <2>1 DEF Taken
<1>11. PICK l, x : l = Len(form.preamble) /\ x = Len(form.epilogue)
  OBVIOUS
<1>12. l \in Nat /\ x \in Nat /\ Len(C) > x
  <2>1. PICK y, last : y = Len(form.files) /\ last = E[Len(form.files)]
    OBVIOUS
  <2>2. /\ y \in Nat \ {0} /\ l \in Nat /\ x \in Nat /\ last \in Nat
        /\ Len(C) = last + (IF form.closed THEN 2 ELSE 0) + x
    BY <1>1, <1>2, <1>3, <1>4, <1>11, <2>1, Marks, Zenon
  <2>3. last > 0
    <3>1. \A k \in 1 .. Len(form.files) :
            /\ form.files[k] \in Seq(Chars) /\ Len(form.files[k]) \in Nat
            /\ E[k - 1] \in Nat /\ E[k] \in Nat /\ E[k] = E[k - 1] + Len(form.files[k]) + 12
            /\ E[k] <= E[Len(form.files)] /\ E[k] <= Len(Content(form)) - Len(form.epilogue)
      BY <1>1, <1>2, <1>3, Marks, Zenon
    <3>2. y \in 1 .. Len(form.files)
      BY <2>1, <2>2
    <3>3. PICK e, n : e = E[y - 1] /\ n = Len(form.files[y])
      OBVIOUS
    <3>4. e \in Nat /\ n \in Nat /\ last = e + n + 12
      BY <2>1, <3>1, <3>2, <3>3
    <3> QED
      BY <3>4
  <2>4. PICK z \in Nat : z = IF form.closed THEN 2 ELSE 0
    OBVIOUS
  <2> QED
    BY <2>2, <2>3, <2>4
<1>15. buf = <<>> /\ files = <<>> /\ state_ = "initial boundary" /\ ~is_valid_ /\ parsing = "true"
  BY <1>5, Zenon
<1>13. Reading(Chars)
  <2>1. NotCut
    <3>1. r \notin l + 1 .. l + 4 /\ r \notin Len(C) - x .. Len(C) - 1
      BY <1>6, <1>8, <1>12
    <3> QED
      BY <1>4, <1>11, <3>1, Zenon DEF NotCut
  <2>2. buf \in Seq(Chars) /\ files \in Seq(Seq(Chars)) /\ Taken >= 0
    <3>1. <<>> \in Seq(Chars) /\ <<>> \in Seq(Seq(Chars)) /\ 0 >= 0
      OBVIOUS
    <3> QED
      BY <1>10, <1>15, <3>1, Zenon
  <2>3. Occurs(Content(form), buf, Taken)
    <3>1. PICK b, t : b = buf /\ t = Taken
      OBVIOUS
    <3>2. 1 .. Len(b) = {}
      <4>1. b = <<>>
        BY <1>15, <3>1, Zenon
      <4>2. Len(b) = 0 /\ 1 .. 0 = {}
        BY <4>1
      <4> QED
        BY <4>2
    <3>3. Occurs(C, b, t)
      BY <3>2 DEF Occurs
    <3> QED
      BY <1>4, <3>1, <3>3
  <2> QED
    BY <1>15, <2>1, <2>2, <2>3, Zenon DEF Reading
<1>14. AtPreamble
  <2>1. Taken <= Len(form.preamble) /\ r <= Len(form.preamble)
    BY <1>8, <1>10, <1>11, <1>12
  <2> QED
    BY <1>15, <2>1, Zenon DEF AtPreamble
<1> QED
  BY <1>7, <1>9, <1>13, <1>14, Zenon DEF PInv, Ready, OnTrack

\* When all content is read and the parser waits for more, it is behind the last boundary.
LEMMA Arrives ==
  ASSUME NEW Chars, NEW E, PInv(Chars, E)
  PROVE  FormAsSent
<1> SUFFICES ASSUME r = length, parsing # "parse", ~cut
             PROVE  IF form.closed THEN Accepted /\ files = form.files ELSE ~Accepted
  BY DEF FormAsSent
<1>1. Ready(Chars, E)
  BY DEF PInv
<1>2. parsing = "true" /\ files \in Seq(Seq(Chars))
  BY <1>1 DEF Ready, Reading
<1>3. PICK last, C : last = Len(form.files) /\ C = Content(form)
  OBVIOUS
<1>4. /\ WellFormed(Chars, form) /\ Content(form) \in Seq(Chars) /\ LaidOut(form, E)
      /\ length = Len(C)
  BY <1>1, <1>3, Zenon DEF Ready, Wired
<1>5. /\ last \in Nat \ {0} /\ Len(form.preamble) \in Nat /\ Len(form.epilogue) \in Nat
      /\ E[last] \in Nat /\ E[0] = Len(form.preamble) + 3
      /\ Len(C) = E[last] + (IF form.closed THEN 2 ELSE 0) + Len(form.epilogue)
  BY <1>3, <1>4, Marks, Zenon
<1>6. E[last] <= r
  <2>1. PICK z \in Nat : z = IF form.closed THEN 2 ELSE 0
    OBVIOUS
  <2> QED
    BY <1>4, <1>5, <2>1
<1>7. ASSUME NEW k \in 1 .. Len(form.files) PROVE ~(r < E[k])
  <2>1. E[k] \in Nat /\ E[k] <= E[last]
    BY <1>1, <1>3, FileMarks, Zenon
  <2>2. r \in Nat
    BY <1>1, Before, Zenon
  <2> QED
    BY <1>5, <1>6, <2>1, <2>2
<1>8. ~AtPreamble
  <2>1. SUFFICES ASSUME AtPreamble PROVE FALSE
    OBVIOUS
  <2>2. r <= Len(form.preamble)
    BY <1>2, <2>1, Zenon DEF AtPreamble
  <2>3. E[0] <= E[last]
    <3>1. 1 \in 1 .. Len(form.files) /\ 1 - 1 = 0
      BY <1>3, <1>5
    <3>2. E[1 - 1] + 12 <= E[1] /\ E[1] <= E[Len(form.files)] /\ E[1 - 1] \in Nat /\ E[1] \in Nat
      BY <1>1, <3>1, FileMarks, Zenon
    <3> QED
      BY <1>3, <1>5, <3>1, <3>2
  <2>4. r \in Nat
    BY <1>1, Before, Zenon
  <2> QED
    BY <1>5, <1>6, <2>2, <2>3, <2>4
<1>9. AtEnd \/ \E k \in 1 .. Len(form.files) : AtBoundary(E, k)
  BY <1>1, <1>2, <1>7, <1>8, Zenon DEF Ready, OnTrack, AtHeaders, AtFile
<1>10. CASE AtEnd
  <2>1. is_valid_ /\ form.closed /\ Whole(last)
    BY <1>3, <1>10 DEF AtEnd
  <2>2. files = form.files
    <3>1. PICK fs, gs : fs = files /\ gs = form.files
      OBVIOUS
    <3>2. gs \in Seq(Seq(Chars)) /\ fs \in Seq(Seq(Chars)) /\ Len(gs) = last
      BY <1>2, <1>3, <1>4, <3>1 DEF WellFormed
    <3>3. Len(fs) = Len(gs) /\ \A i \in 1 .. Len(fs) : fs[i] = gs[i]
      BY <2>1, <3>1, <3>2 DEF Whole
    <3>4. fs = gs
      BY <3>2, <3>3, SeqEqual
    <3> QED
      BY <3>1, <3>4
  <2> QED
    BY <1>2, <2>1, <2>2 DEF Accepted
<1>11. CASE \E k \in 1 .. Len(form.files) : AtBoundary(E, k)
  <2>1. PICK k \in 1 .. Len(form.files) : AtBoundary(E, k)
    BY <1>11
  <2>2. ~is_valid_ /\ Taken = E[k] /\ Len(buf) < 2
    BY <1>2, <2>1 DEF AtBoundary
  <2>3. ~form.closed
    <3>1. SUFFICES ASSUME form.closed PROVE FALSE
      OBVIOUS
    <3>2. Len(C) = E[last] + 2 + Len(form.epilogue)
      BY <1>5, <3>1, Zenon
    <3>3. E[k] \in Nat /\ E[k] <= E[last]
      BY <1>1, <1>3, FileMarks, Zenon
    <3>4. PICK n : n = Len(buf)
      OBVIOUS
    <3>5. n \in Nat /\ r = E[k] + n /\ n < 2
      BY <1>1, <2>2, <3>4, Before
    <3>6. PICK e, x, y : e = E[last] /\ x = Len(form.epilogue) /\ y = E[k]
      OBVIOUS
    <3>7. e \in Nat /\ x \in Nat /\ y \in Nat /\ y <= e /\ r = y + n /\ r = e + 2 + x
      BY <1>4, <1>5, <3>2, <3>3, <3>5, <3>6
    <3> QED
      BY <3>5, <3>7
  <2> QED
    BY <2>2, <2>3 DEF Accepted
<1> QED
  BY <1>9, <1>10, <1>11

\* There are such forms: one with a file that ends like the beginning of a boundary.
LEMMA SomeFormIsWellFormed ==
  ASSUME NEW Chars, Signs \subseteq Chars
  PROVE  WellFormed(Chars, [preamble |-> <<>>, files |-> <<<<"r", "n">>>>, epilogue |-> <<>>,
                            closed |-> TRUE])
<1>1. PICK file : file = <<"r", "n">>
  OBVIOUS
<1>2. file \in Seq(Chars) /\ Len(file) = 2
  BY <1>1 DEF Signs
<1>3. Lacks(<<>>, dash_boundary_crlf_) /\ Lacks(file, crlf_dash_boundary_)
  <2>1. PICK v, w : v = dash_boundary_crlf_ /\ w = crlf_dash_boundary_
    OBVIOUS
  <2>2. v = <<"-", "-", "b", "r", "n">> /\ w = <<"r", "n", "-", "-", "b">>
    BY <2>1, Words, Zenon
  <2>3. Len(v) = 5 /\ Len(w) = 5 /\ Len(<<>>) = 0
    BY <2>2
  <2>4. 0 .. Len(<<>>) - Len(v) = {} /\ 0 .. Len(file) - Len(w) = {}
    BY <1>2, <2>3
  <2> QED
    BY <2>1, <2>4, Zenon DEF Lacks
<1>4. <<file>> \in Seq(Seq(Chars)) /\ <<file>> # <<>> /\ <<>> \in Seq(Chars)
  BY <1>2
<1>5. \A k \in DOMAIN <<file>> : Lacks(<<file>>[k], crlf_dash_boundary_)
  BY <1>3
<1>6. PICK f : f = [preamble |-> <<>>, files |-> <<file>>, epilogue |-> <<>>, closed |-> TRUE]
  OBVIOUS
<1>7. f.preamble = <<>> /\ f.files = <<file>> /\ f.epilogue = <<>> /\ f.closed
  BY <1>6
<1>8. WellFormed(Chars, f)
  BY <1>3, <1>4, <1>5, <1>7, Zenon DEF WellFormed
<1> QED
  BY <1>1, <1>6, <1>8, Zenon

\* A form that a client writes - the boundary is not in what comes before it nor in a file, there
\* is a file - is accepted exactly if it was closed, and then with the files that were sent, each
\* whole and in its place: for every form, all sizes of the buffers it goes through, and any
\* limit of a header line of at least two, in whatever pieces the content comes as long as no
\* read ends within the first boundary or within what follows the last (~cut in FormAsSent).
\* Then the parser loses the boundary, and with it the first file, or takes the epilogue for a part.
THEOREM FormArrivesAsSent ==
  ASSUME NEW Chars, Signs \subseteq Chars, NEW forms, \A f \in forms : WellFormed(Chars, f),
         CPPHTTPLIB_HEADER_MAX_LENGTH \in Nat \ {0, 1}
  PROVE  MultipartInit(forms) /\ [][MultipartNext]_vars => []FormAsSent
<1> DEFINE Inv == \E E : PInv(Chars, E)
<1>1. MultipartInit(forms) => Inv
  BY ParserInit
<1>2. Inv /\ [MultipartNext]_vars => Inv'
  <2> SUFFICES ASSUME NEW E, PInv(Chars, E), [MultipartNext]_vars PROVE PInv(Chars, E)'
    OBVIOUS
  <2> QED
    BY ParserKeeps
<1>3. Inv => FormAsSent
  BY Arrives
<1> QED
  BY <1>1, <1>2, <1>3, PTL

-----------------------------------------------------------------------------
(***************************************************************************)
(* Ranges and paths.  A fold over a sequence goes through the values that  *)
(* Computes says; Turn is what HttpRanges and HttpText do in one turn of   *)
(* their folds.                                                            *)
(***************************************************************************)
\* One turn of the folds this is about
Turn(fold, content, v, x) ==
  CASE fold = "length" -> v + (IF x.part THEN x.length ELSE 1)
    [] fold = "data"   -> v \o (IF x.part THEN H!Slice(content, x) ELSE <<x.token>>)
    [] fold = "utf8"   -> v * 64 + x - 128
    [] fold = "hex"    -> v * 16 + HexValue(x)
    [] fold = "parts"  -> ReadPart(v, x)
    [] fold = "new"    -> IfNew(v, x)
    [] fold = "keyed"  -> WithKey(v, x)
    [] OTHER           -> IF v < 0 THEN v ELSE Level(v, x)

\* The function such a fold of the first n elements of s is defined with
Folds(fold, content, base, s, n, g) ==
  g = [places \in SUBSET (1 .. n) |->
         IF places = {} THEN base
         ELSE Turn(fold, content, g[places \ {Max(places)}], s[Max(places)])]

\* The value of the fold, and its values v on the way to it
FoldValue(fold, content, base, s, n) ==
  (CHOOSE g : Folds(fold, content, base, s, n, g))[1 .. n]

Computes(fold, content, base, s, n, v) ==
  /\ v[0] = base /\ \A i \in 1 .. n : v[i] = Turn(fold, content, v[i - 1], s[i])
  /\ FoldValue(fold, content, base, s, n) = v[n]

LEMMA MaxSays ==
  ASSUME NEW m \in Nat, NEW S \in SUBSET (1 .. m + 1), m + 1 \in S
  PROVE  Max(S) = m + 1
<1>1. \A y \in S : m + 1 >= y
  OBVIOUS
<1>2. ASSUME NEW x \in S, \A y \in S : x >= y PROVE x = m + 1
  BY <1>2
<1> QED
  BY <1>1, <1>2 DEF Max

LEMMA Folding ==
  ASSUME NEW fold, NEW content, NEW base, NEW s, NEW n \in Nat
  PROVE  \E v : Computes(fold, content, base, s, n, v)
<1> DEFINE Upto(m, g) == Folds(fold, content, base, s, m, g)
           S == {m \in Nat : \E g : Upto(m, g)}
<1>1. 0 \in S
  <2> DEFINE g == [places \in SUBSET (1 .. 0) |-> base]
  <2>1. \A places \in SUBSET (1 .. 0) : places = {}
    OBVIOUS
  <2>2. Upto(0, g)
    BY <2>1 DEF Folds
  <2> QED
    BY <2>2
<1>2. ASSUME NEW m \in Nat, m \in S PROVE m + 1 \in S
  <2>1. PICK g : Upto(m, g)
    BY <1>2
  <2> DEFINE h == [places \in SUBSET (1 .. m + 1) |->
                     IF places \in SUBSET (1 .. m) THEN g[places]
                     ELSE Turn(fold, content, g[places \ {m + 1}], s[m + 1])]
             body(f, places) == IF places = {} THEN base
                                ELSE Turn(fold, content, f[places \ {Max(places)}], s[Max(places)])
  <2>2. g = [places \in SUBSET (1 .. m) |-> body(g, places)]
    BY <2>1 DEF Folds
  <2>3. SUBSET (1 .. m) \subseteq SUBSET (1 .. m + 1)
    OBVIOUS
  <2>4. \A places \in SUBSET (1 .. m) : h[places] = g[places]
    BY <2>3, Zenon
  <2>5. ASSUME NEW places \in SUBSET (1 .. m + 1) PROVE h[places] = body(h, places)
    <3>1. CASE places \in SUBSET (1 .. m)
      <4>1. places \ {Max(places)} \in SUBSET (1 .. m)
        BY <3>1
      <4>2. h[places] = g[places] /\ h[places \ {Max(places)}] = g[places \ {Max(places)}]
        BY <2>4, <3>1, <4>1, Zenon
      <4> HIDE DEF h
      <4>3. g[places] = body(g, places)
        BY <2>2, <3>1
      <4> QED
        BY <4>2, <4>3, Zenon
    <3>2. CASE ~(places \in SUBSET (1 .. m))
      <4>1. m + 1 \in places
        BY <3>2
      <4>2. Max(places) = m + 1 /\ places # {}
        BY <4>1, MaxSays
      <4>3. places \ {m + 1} \in SUBSET (1 .. m)
        OBVIOUS
      <4>4. h[places] = Turn(fold, content, g[places \ {m + 1}], s[m + 1])
        BY <3>2, Zenon
      <4>5. h[places \ {m + 1}] = g[places \ {m + 1}]
        BY <2>4, <4>3, Zenon
      <4> HIDE DEF h
      <4> QED
        BY <4>2, <4>4, <4>5, Zenon
    <3> QED
      BY <3>1, <3>2
  <2>6. Upto(m + 1, h)
    <3>1. h = [places \in SUBSET (1 .. m + 1) |-> h[places]]
      BY Zenon
    <3>2. [places \in SUBSET (1 .. m + 1) |-> h[places]] = [places \in SUBSET (1 .. m + 1) |-> body(h, places)]
      BY <2>5, Zenon
    <3> HIDE DEF h
    <3> QED
      BY <3>1, <3>2, Zenon DEF Folds
  <2> HIDE DEF h, Upto
  <2> QED
    BY <2>6
<1>3. PICK g : Upto(n, g)
  <2> HIDE DEF S
  <2>1. n \in S
    BY <1>1, <1>2, Counting
  <2> QED
    BY <2>1 DEF S
<1> DEFINE h == CHOOSE g1 : Upto(n, g1)
<1>4. Upto(n, h)
  BY <1>3, Zenon
<1> HIDE DEF h
<1>5. \A places \in SUBSET (1 .. n) :
        h[places] = IF places = {} THEN base
                    ELSE Turn(fold, content, h[places \ {Max(places)}], s[Max(places)])
  BY <1>4 DEF Folds
<1> DEFINE v == [i \in 0 .. n |-> h[1 .. i]]
<1>6. v[0] = base
  <2>1. v[0] = h[1 .. 0] /\ 1 .. 0 = {} /\ 1 .. 0 \in SUBSET (1 .. n)
    OBVIOUS
  <2> HIDE DEF v
  <2> QED
    BY <1>5, <2>1
<1>7. ASSUME NEW i \in 1 .. n PROVE v[i] = Turn(fold, content, v[i - 1], s[i])
  <2>1. v[i] = h[1 .. i] /\ v[i - 1] = h[1 .. i - 1]
    OBVIOUS
  <2>2. 1 .. i \in SUBSET (1 .. n) /\ 1 .. i # {} /\ (1 .. i) \ {i} = 1 .. i - 1
    OBVIOUS
  <2>3. Max(1 .. i) = i
    <3>1. PICK m : m = i - 1
      OBVIOUS
    <3>2. m \in Nat /\ m + 1 = i /\ 1 .. i \in SUBSET (1 .. m + 1) /\ m + 1 \in 1 .. i
      BY <3>1
    <3> QED
      BY <3>2, MaxSays
  <2> HIDE DEF v
  <2>4. h[1 .. i] = Turn(fold, content, h[(1 .. i) \ {i}], s[i])
    BY <1>5, <2>2, <2>3, Zenon
  <2> QED
    BY <2>1, <2>2, <2>4, Zenon
<1>8. v[n] = h[1 .. n]
  OBVIOUS
<1>9. h[1 .. n] = FoldValue(fold, content, base, s, n)
  BY Zenon DEF h, FoldValue
<1> HIDE DEF v
<1> QED
  BY <1>6, <1>7, <1>8, <1>9, Zenon DEF Computes

LEMMA LengthFolds ==
  ASSUME NEW rs, NEW len, NEW type, NEW n, NEW t,
         t = H!process_multipart_ranges_data(rs, len, type), DOMAIN t = 1 .. n
  PROVE  H!get_multipart_ranges_data_length(rs, len, type)
           = FoldValue("length", <<>>, 0, t, n)
<1>1. H!FoldLeft(LAMBDA k, x : k + IF x.part THEN x.length ELSE 1, 0, t)
        = FoldValue("length", <<>>, 0, t, n)
  BY Zenon DEF H!FoldLeft, H!MapThenFoldSet, FoldValue, Folds, Turn, H!Max, Max
<1> QED
  BY <1>1, Zenon DEF H!get_multipart_ranges_data_length

LEMMA DataFolds ==
  ASSUME NEW rs, NEW content, NEW type, NEW n, NEW t,
         t = H!process_multipart_ranges_data(rs, Len(content), type), DOMAIN t = 1 .. n
  PROVE  H!make_multipart_ranges_data(rs, content, type)
           = FoldValue("data", content, <<>>, t, n)
<1>1. H!FoldLeft(LAMBDA data, x : data \o IF x.part THEN H!Slice(content, x) ELSE <<x.token>>, <<>>, t)
        = FoldValue("data", content, <<>>, t, n)
  BY Zenon DEF H!FoldLeft, H!MapThenFoldSet, FoldValue, Folds, Turn, H!Max, Max
<1> QED
  BY <1>1, Zenon DEF H!make_multipart_ranges_data

\* What a multipart body is made of: words, and parts of a content of length len
Pieces(words, len) ==
  {x \in [part : BOOLEAN, token : words, offset : Nat, length : Nat] : x.offset + x.length <= len}

LEMMA TokensArePieces ==
  ASSUME NEW words, NEW len \in Nat, NEW s \in Seq(words)
  PROVE  H!Tokens(s) \in Seq(Pieces(words, len))
<1>1. \A i \in 1 .. Len(s) : H!Token(s[i]) \in Pieces(words, len)
  BY DEF H!Token, Pieces
<1>2. H!Tokens(s) = [i \in 1 .. Len(s) |-> H!Token(s[i])]
  BY DEF H!Tokens
<1> QED
  BY <1>1, <1>2

\* A range within a content of length len
Within(rg, len) == rg[1] \in Nat /\ rg[2] \in Nat /\ rg[1] <= rg[2] /\ rg[2] <= len - 1

LEMMA TwoOf == ASSUME NEW W, NEW a \in W, NEW b \in W PROVE <<a, b>> \in Seq(W)
OBVIOUS
LEMMA ThreeOf == ASSUME NEW W, NEW a \in W, NEW b \in W, NEW z \in W PROVE <<a, b, z>> \in Seq(W)
OBVIOUS
LEMMA TokenIsPiece ==
  ASSUME NEW words, NEW len \in Nat, NEW y \in words PROVE H!Token(y) \in Pieces(words, len)
BY DEF H!Token, Pieces

\* Words a part of a multipart body is written with
Ample(words, rg, len) ==
  /\ "--" \in words /\ "boundary" \in words /\ "crlf" \in words /\ "" \in words
  /\ "Content-Type" \in words /\ "Content-Range" \in words
  /\ H!make_content_range_header_field(H!get_range_offset_and_length(rg), len) \in words

LEMMA JoinsPieces == ASSUME NEW A, NEW x \in Seq(A), NEW y \in Seq(A) PROVE x \o y \in Seq(A)
OBVIOUS

LEMMA PartIsPieces ==
  ASSUME NEW words, NEW len \in Nat, NEW type \in words, NEW rg, Within(rg, len),
         Ample(words, rg, len)
  PROVE  H!Part(rg, len, type) \in Seq(Pieces(words, len))
<1>1. PICK A : A = Pieces(words, len)
  OBVIOUS
<1>2. PICK ol : ol = H!get_range_offset_and_length(rg)
  OBVIOUS
<1>3. PICK field : field = H!make_content_range_header_field(ol, len)
  OBVIOUS
<1>4. PICK place, size : place = ol.offset /\ size = ol.length
  OBVIOUS
<1>5. place \in Nat /\ size \in Nat /\ place + size <= len
  <2>1. PICK a, b : a = rg[1] /\ b = rg[2]
    OBVIOUS
  <2>2. a \in Nat /\ b \in Nat /\ a <= b /\ b <= len - 1
    BY <2>1, Zenon DEF Within
  <2>3. ol = [offset |-> a, length |-> b - a + 1]
    BY <1>2, <2>1, Zenon DEF H!get_range_offset_and_length
  <2>4. place = a /\ size = b - a + 1
    BY <1>4, <2>3
  <2> QED
    BY <2>2, <2>4
<1>6. /\ "--" \in words /\ "boundary" \in words /\ "crlf" \in words /\ "" \in words
      /\ "Content-Type" \in words /\ "Content-Range" \in words
  BY Zenon DEF Ample
<1>7. field \in words
  BY <1>2, <1>3, Zenon DEF Ample
<1>8. \A y \in words : H!Token(y) \in A
  BY <1>1, TokenIsPiece
<1>9. PICK s1 : s1 = <<"--", "boundary", "crlf">>
  OBVIOUS
<1>10. s1 \in Seq(words)
  BY <1>6, <1>9, ThreeOf, Zenon
<1>11. PICK s2 : s2 = <<"Content-Type", type, "crlf">>
  OBVIOUS
<1>12. s2 \in Seq(words)
  BY <1>6, <1>11, ThreeOf, Zenon
<1>13. PICK s3 : s3 = <<"crlf", "crlf">>
  OBVIOUS
<1>14. s3 \in Seq(words)
  BY <1>6, <1>13, TwoOf, Zenon
<1>15. H!Tokens(s1) \in Seq(A) /\ H!Tokens(s2) \in Seq(A) /\ H!Tokens(s3) \in Seq(A)
  BY <1>1, <1>10, <1>12, <1>14, TokensArePieces
<1>16. PICK u1 : u1 = IF type = "" THEN <<>> ELSE H!Tokens(s2)
  BY Zenon
<1>17. u1 \in Seq(A)
  <2>1. <<>> \in Seq(A)
    OBVIOUS
  <2> QED
    BY <1>15, <1>16, <2>1, Zenon
<1>18. PICK u2 : u2 = <<H!Token("Content-Range"), H!Token(field)>>
  OBVIOUS
<1>19. u2 \in Seq(A)
  <2>1. H!Token("Content-Range") \in A /\ H!Token(field) \in A
    BY <1>6, <1>7, <1>8, Zenon
  <2> QED
    BY <1>18, <2>1
<1>20. PICK it : it = [part |-> TRUE, token |-> "", offset |-> place, length |-> size]
  BY Zenon
<1>21. it \in A
  BY <1>1, <1>5, <1>6, <1>20, Zenon DEF Pieces
<1>22. PICK u3 : u3 = <<it, H!Token("crlf")>>
  OBVIOUS
<1>23. u3 \in Seq(A)
  <2>1. H!Token("crlf") \in A
    BY <1>6, <1>8, Zenon
  <2> QED
    BY <1>21, <1>22, <2>1
<1>24. H!Part(rg, len, type) = H!Tokens(s1) \o u1 \o u2 \o H!Tokens(s3) \o u3
  BY <1>2, <1>3, <1>4, <1>9, <1>11, <1>13, <1>16, <1>18, <1>20, <1>22, Zenon DEF H!Part
<1>25. H!Tokens(s1) \o u1 \o u2 \o H!Tokens(s3) \o u3 \in Seq(A)
  <2>1. H!Tokens(s1) \o u1 \in Seq(A)
    BY <1>15, <1>17, JoinsPieces
  <2>2. H!Tokens(s1) \o u1 \o u2 \in Seq(A)
    BY <1>19, <2>1, JoinsPieces
  <2>3. H!Tokens(s1) \o u1 \o u2 \o H!Tokens(s3) \in Seq(A)
    BY <1>15, <2>2, JoinsPieces
  <2> QED
    BY <1>23, <2>3, JoinsPieces
<1> QED
  BY <1>1, <1>24, <1>25, Zenon

\* Ranges within a content of length len
AllWithin(rs, n, len) == \A i \in 1 .. n : Within(rs[i], len)

\* The tokens and parts of a multipart body, whatever the ranges
LEMMA BodyIsPieces ==
  ASSUME NEW len \in Nat, NEW type, NEW rs, NEW n \in Nat, DOMAIN rs = 1 .. n,
         AllWithin(rs, n, len)
  PROVE  \E words : H!process_multipart_ranges_data(rs, len, type) \in Seq(Pieces(words, len))
<1> DEFINE field(i) == H!make_content_range_header_field(H!get_range_offset_and_length(rs[i]), len)
           words == {"--", "boundary", "crlf", "Content-Type", "Content-Range", "", type}
                    \cup {field(i) : i \in 1 .. n}
<1>1. PICK A : A = Pieces(words, len)
  BY Zenon
<1>2. /\ "--" \in words /\ "boundary" \in words /\ "crlf" \in words /\ "" \in words
      /\ "Content-Type" \in words /\ "Content-Range" \in words /\ type \in words
  BY Zenon
<1>3. \A i \in 1 .. n : field(i) \in words
  BY Zenon
<1> HIDE DEF words
<1>4. \A i \in 1 .. n : Ample(words, rs[i], len) /\ Within(rs[i], len)
  BY <1>2, <1>3, Zenon DEF Ample, AllWithin
<1>5. \A i \in 1 .. n : H!Part(rs[i], len, type) \in Seq(A)
  BY <1>1, <1>2, <1>4, PartIsPieces, Zenon
<1>6. PICK s1 : s1 = <<"--", "boundary", "--">>
  OBVIOUS
<1>7. s1 \in Seq(words)
  BY <1>2, <1>6, ThreeOf, Zenon
<1>8. H!Tokens(s1) \in Seq(A)
  BY <1>1, <1>7, TokensArePieces
<1>9. PICK ss : ss = [i \in 1 .. n |-> H!Part(rs[i], len, type)]
  OBVIOUS
<1>10. ss \in Seq(Seq(A))
  BY <1>5, <1>9
<1>11. H!FlattenSeq(ss) \in Seq(A)
  <2>1. FlattenSeq(ss) \in Seq(A)
    BY <1>10, Flattened
  <2>2. H!FlattenSeq(ss) = FlattenSeq(ss)
    BY Zenon DEF H!FlattenSeq, FlattenSeq
  <2> QED
    BY <2>1, <2>2, Zenon
<1>12. H!process_multipart_ranges_data(rs, len, type) = H!FlattenSeq(ss) \o H!Tokens(s1)
  BY <1>6, <1>9, Zenon DEF H!process_multipart_ranges_data
<1>13. H!FlattenSeq(ss) \o H!Tokens(s1) \in Seq(A)
  BY <1>8, <1>11, JoinsPieces
<1> QED
  BY <1>1, <1>12, <1>13, Zenon

\* A part or a token adds its length.
LEMMA SameTurn ==
  ASSUME NEW content \in Seq(Int), NEW words, NEW b \in Seq(Int \cup words),
         NEW x \in Pieces(words, Len(content))
  PROVE  /\ Turn("data", content, b, x) \in Seq(Int \cup words)
         /\ Turn("length", <<>>, Len(b), x) = Len(Turn("data", content, b, x))
<1>1. PICK p, q, y : p = x.offset /\ q = x.length /\ y = x.token
  OBVIOUS
<1>2. /\ p \in Nat /\ q \in Nat /\ p + q <= Len(content) /\ y \in words /\ x.part \in BOOLEAN
      /\ Len(content) \in Nat
  BY <1>1 DEF Pieces
<1>3. CASE x.part
  <2>1. PICK s : s = SubSeq(content, p + 1, p + q)
    OBVIOUS
  <2>2. Turn("length", <<>>, Len(b), x) = Len(b) + q /\ Turn("data", content, b, x) = b \o s
    BY <1>1, <1>3, <2>1, Zenon DEF Turn, H!Slice
  <2>3. s \in Seq(Int) /\ Len(s) = q
    <3>1. /\ p + 1 \in Int /\ p + q \in Int
          /\ \A i \in p + 1 .. p + q : i \in 1 .. Len(content)
      BY <1>2
    <3>2. \A i \in p + 1 .. p + q : content[i] \in Int
      BY <3>1
    <3>3. Len(s) = (IF p + 1 <= p + q THEN (p + q) - (p + 1) + 1 ELSE 0) /\ s \in Seq(Int)
      BY <2>1, <3>1, <3>2, SubSeqProperties
    <3> QED
      BY <1>2, <3>3
  <2>4. s \in Seq(Int \cup words)
    BY <2>3
  <2>5. b \o s \in Seq(Int \cup words) /\ Len(b \o s) = Len(b) + Len(s)
    BY <2>4
  <2> QED
    BY <2>2, <2>3, <2>5, Zenon
<1>4. CASE ~x.part
  <2>1. Turn("length", <<>>, Len(b), x) = Len(b) + 1 /\ Turn("data", content, b, x) = b \o <<y>>
    BY <1>1, <1>4, Zenon DEF Turn
  <2>2. <<y>> \in Seq(Int \cup words) /\ Len(<<y>>) = 1
    BY <1>2
  <2>3. b \o <<y>> \in Seq(Int \cup words) /\ Len(b \o <<y>>) = Len(b) + 1
    BY <2>2
  <2> QED
    BY <2>1, <2>3, Zenon
<1> QED
  BY <1>2, <1>3, <1>4

\* The length computed for a provider is that of what is sent.
LEMMA MultipartLength ==
  ASSUME NEW content \in Seq(Int), NEW type, NEW rs, NEW k \in Nat, DOMAIN rs = 1 .. k,
         AllWithin(rs, k, Len(content))
  PROVE  H!get_multipart_ranges_data_length(rs, Len(content), type)
           = Len(H!make_multipart_ranges_data(rs, content, type))
<1>1. PICK len, t : len = Len(content) /\ t = H!process_multipart_ranges_data(rs, len, type)
  OBVIOUS
<1>2. len \in Nat
  BY <1>1
<1>3. PICK words : t \in Seq(Pieces(words, len))
  BY <1>1, <1>2, BodyIsPieces
<1>4. PICK n \in Nat : n = Len(t) /\ DOMAIN t = 1 .. n
  BY <1>3
<1>5. PICK v : Computes("length", <<>>, 0, t, n, v)
  BY <1>4, Folding
<1>6. PICK w : Computes("data", content, <<>>, t, n, w)
  BY <1>4, Folding
<1>7. v[n] = H!get_multipart_ranges_data_length(rs, len, type)
  <2>1. FoldValue("length", <<>>, 0, t, n) = v[n]
    BY <1>5, Zenon DEF Computes
  <2>2. t = H!process_multipart_ranges_data(rs, Len(content), type) /\ DOMAIN t = 1 .. n
    BY <1>1, <1>4, Zenon
  <2>3. H!get_multipart_ranges_data_length(rs, Len(content), type) = FoldValue("length", <<>>, 0, t, n)
    BY <2>2, LengthFolds
  <2> QED
    BY <1>1, <2>1, <2>3, Zenon
<1>8. w[n] = H!make_multipart_ranges_data(rs, content, type)
  <2>1. FoldValue("data", content, <<>>, t, n) = w[n]
    BY <1>6, Zenon DEF Computes
  <2>2. t = H!process_multipart_ranges_data(rs, Len(content), type) /\ DOMAIN t = 1 .. n
    BY <1>1, <1>4, Zenon
  <2>3. H!make_multipart_ranges_data(rs, content, type) = FoldValue("data", content, <<>>, t, n)
    BY <2>2, DataFolds
  <2> QED
    BY <1>1, <2>1, <2>3, Zenon
<1>21. PICK D : D = Int \cup words
  OBVIOUS
<1> DEFINE Same(m) == w[m] \in Seq(D) /\ v[m] = Len(w[m])
           S == {m \in Nat : m <= n => Same(m)}
<1>9. 0 \in S
  <2>1. v[0] = 0 /\ w[0] = <<>>
    BY <1>5, <1>6, Zenon DEF Computes
  <2>2. <<>> \in Seq(D) /\ Len(<<>>) = 0
    OBVIOUS
  <2>3. Same(0)
    BY <2>1, <2>2, Zenon
  <2> QED
    BY <2>3
<1>10. ASSUME NEW m \in Nat, m \in S PROVE m + 1 \in S
  <2> SUFFICES ASSUME m + 1 <= n PROVE Same(m + 1)
    OBVIOUS
  <2>1. Same(m) /\ m + 1 \in 1 .. n /\ (m + 1) - 1 = m
    BY <1>4, <1>10
  <2>2. PICK x : x = t[m + 1]
    OBVIOUS
  <2>3. x \in Pieces(words, len)
    BY <1>3, <1>4, <2>1, <2>2
  <2>4. PICK b : b = w[m]
    OBVIOUS
  <2>5. b \in Seq(D) /\ v[m] = Len(b)
    BY <2>1, <2>4, Zenon
  <2>6. v[m + 1] = Turn("length", <<>>, Len(b), x) /\ w[m + 1] = Turn("data", content, b, x)
    BY <1>5, <1>6, <2>1, <2>2, <2>4, <2>5, Zenon DEF Computes
  <2>7. /\ Turn("data", content, b, x) \in Seq(D)
        /\ Turn("length", <<>>, Len(b), x) = Len(Turn("data", content, b, x))
    BY <1>1, <1>2, <1>21, <2>3, <2>5, SameTurn
  <2> QED
    BY <2>6, <2>7, Zenon
<1>11. Same(n)
  <2> HIDE DEF S
  <2>1. n \in S
    BY <1>9, <1>10, Counting
  <2> QED
    BY <2>1 DEF S
<1> QED
  BY <1>1, <1>7, <1>8, <1>11

Numbers == Nat \cup {-1}

\* A range as parse_range_header reads it: two numbers, or one, or none
LEMMA Completes ==
  ASSUME NEW len \in Nat, NEW x \in Numbers, NEW y \in Numbers, NEW rg, rg = <<x, y>>,
         H!InContent(H!Complete(rg, len), len)
  PROVE  \E a, b \in Nat : /\ H!Complete(rg, len) = <<a, b>> /\ a <= b /\ b <= len - 1
                           /\ Selected(rg, len) = a .. b
<1>1. rg[1] = x /\ rg[2] = y
  OBVIOUS
<1>2. x \in Int /\ y \in Int /\ (x = -1 \/ x \in Nat) /\ (y = -1 \/ y \in Nat)
  BY DEF Numbers
<1>3. PICK p : p = H!Complete(rg, len)
  OBVIOUS
<1>4. 0 <= p[1] /\ p[1] <= p[2] /\ p[2] <= len - 1
  BY <1>3 DEF H!InContent
<1>5. CASE x = -1 /\ y = -1
  <2>1. rg = <<-1, -1>>
    BY <1>5
  <2>2. p = <<0, len>>
    BY <1>3, <2>1 DEF H!Complete
  <2>3. p[2] = len
    BY <2>2
  <2> QED
    BY <1>4, <2>3
<1>6. CASE x = -1 /\ y \in Nat
  <2>1. rg # <<-1, -1>> /\ rg[1] = -1 /\ rg[2] = y
    BY <1>1, <1>6
  <2>2. p = <<len - y, len - 1>>
    BY <1>3, <1>6, <2>1 DEF H!Complete
  <2>3. p[1] = len - y /\ p[2] = len - 1
    BY <2>2
  <2>4. len - y \in Nat /\ len - 1 \in Nat /\ len - y <= len - 1
    BY <1>4, <1>6, <2>3
  <2>5. Selected(rg, len) = len - y .. len - 1
    BY <2>1 DEF Selected
  <2> QED
    BY <1>3, <2>2, <2>4, <2>5
<1>7. CASE x \in Nat /\ y = -1
  <2>1. rg # <<-1, -1>> /\ rg[1] = x /\ rg[2] = -1 /\ x # -1
    BY <1>1, <1>7
  <2>2. p = <<x, len - 1>>
    BY <1>3, <1>7, <2>1 DEF H!Complete
  <2>3. p[1] = x /\ p[2] = len - 1
    BY <2>2
  <2>4. x \in Nat /\ len - 1 \in Nat /\ x <= len - 1
    BY <1>4, <1>7, <2>3
  <2>5. Selected(rg, len) = x .. len - 1
    BY <2>1 DEF Selected
  <2> QED
    BY <1>3, <2>2, <2>4, <2>5
<1>8. CASE x \in Nat /\ y \in Nat
  <2>1. rg # <<-1, -1>> /\ rg[1] = x /\ rg[2] = y /\ x # -1 /\ y # -1
    BY <1>1, <1>8
  <2>2. p = rg
    BY <1>3, <2>1 DEF H!Complete
  <2>3. x <= y /\ y <= len - 1
    BY <1>4, <2>1, <2>2
  <2>4. Selected(rg, len) = x .. y
    BY <2>1 DEF Selected
  <2> QED
    BY <1>3, <1>8, <2>2, <2>3, <2>4
<1> QED
  BY <1>2, <1>5, <1>6, <1>7, <1>8

\* The contents that RangesRight cuts
Counted(len) == [i \in 1 .. len |-> i - 1]

\* s is what a range from a to b cuts out.
IsCut(rg, a, b, s) ==
  /\ H!get_range_offset_and_length(rg).length = b - a + 1
  /\ s \in Seq(Int) /\ Len(s) = b - a + 1 /\ ToSet(s) = a .. b

LEMMA CutSays ==
  ASSUME NEW len \in Nat, NEW a \in Nat, NEW b \in Nat, a <= b, b <= len - 1,
         NEW rg, rg = <<a, b>>,
         NEW s, s = H!Slice(Counted(len), H!get_range_offset_and_length(rg))
  PROVE  IsCut(rg, a, b, s)
<1>1. PICK q : q = b - a + 1
  OBVIOUS
<1>2. H!get_range_offset_and_length(rg) = [offset |-> a, length |-> q]
  BY <1>1 DEF H!get_range_offset_and_length
<1>3. s = SubSeq(Counted(len), a + 1, a + q)
  <2>1. PICK ol : ol = H!get_range_offset_and_length(rg)
    OBVIOUS
  <2>2. ol.offset = a /\ ol.length = q
    BY <1>2, <2>1
  <2> QED
    BY <2>1, <2>2, Zenon DEF H!Slice
<1>4. q \in Nat /\ a + q = b + 1 /\ a + 1 <= a + q
  BY <1>1
<1>5. \A i \in a + 1 .. a + q : Counted(len)[i] = i - 1 /\ i - 1 \in Int
  BY <1>4 DEF Counted
<1>6. /\ Len(s) = q /\ s \in Seq(Int)
      /\ \A i \in 1 .. q : s[i] = Counted(len)[a + 1 + i - 1]
  <2>1. PICK k, e, v, D : k = a + 1 /\ e = a + q /\ v = Counted(len) /\ D = Int
    OBVIOUS
  <2>2. k \in Int /\ e \in Int /\ k <= e /\ e - k + 1 = q
    BY <1>4, <2>1
  <2>3. \A i \in k .. e : v[i] \in D
    BY <1>5, <2>1
  <2>4. /\ SubSeq(v, k, e) \in Seq(D)
        /\ Len(SubSeq(v, k, e)) = IF k <= e THEN e - k + 1 ELSE 0
        /\ \A i \in 1 .. e - k + 1 : SubSeq(v, k, e)[i] = v[k + i - 1]
    BY <2>2, <2>3, SubSeqProperties
  <2>5. s = SubSeq(v, k, e)
    BY <1>3, <2>1, Zenon
  <2>6. Len(s) = q /\ s \in Seq(D) /\ \A i \in 1 .. q : s[i] = v[k + i - 1]
    BY <2>2, <2>4, <2>5
  <2> QED
    BY <2>1, <2>6, Zenon
<1>7. \A i \in 1 .. q : s[i] = a + i - 1
  <2> SUFFICES ASSUME NEW i \in 1 .. q PROVE s[i] = a + i - 1
    OBVIOUS
  <2>1. PICK j : j = a + 1 + i - 1
    OBVIOUS
  <2>2. j \in a + 1 .. a + q /\ j = a + i
    BY <1>4, <2>1
  <2>3. s[i] = Counted(len)[j]
    BY <1>6, <2>1, Zenon
  <2>4. Counted(len)[j] = j - 1
    BY <1>5, <2>2
  <2> QED
    BY <2>2, <2>3, <2>4
<1>8. ToSet(s) = {s[i] : i \in 1 .. q}
  <2>1. DOMAIN s = 1 .. q
    BY <1>4, <1>6
  <2> QED
    BY <2>1, Zenon DEF ToSet
<1>9. {s[i] : i \in 1 .. q} = a .. b
  <2>1. ASSUME NEW z \in a .. b PROVE z - a + 1 \in 1 .. q /\ s[z - a + 1] = z
    BY <1>1, <1>7
  <2>2. ASSUME NEW i \in 1 .. q PROVE s[i] \in a .. b
    BY <1>4, <1>7
  <2> QED
    BY <2>1, <2>2
<1>10. H!get_range_offset_and_length(rg).length = q
  BY <1>2
<1> QED
  BY <1>1, <1>6, <1>8, <1>9, <1>10, Zenon DEF IsCut

\* The largest of the last positions before a range is there.
LEMMA LastSays ==
  ASSUME NEW n \in Nat, NEW f \in [1 .. n -> Int], NEW m \in 0 .. n,
         NEW V, V = {-1} \cup {f[j] : j \in 1 .. m}
  PROVE  \A y \in V : H!Max(V) \in Int /\ H!Max(V) >= y
<1> DEFINE Upto(k) == {-1} \cup {f[j] : j \in 1 .. k}
           S == {k \in Nat : k <= n => \E x \in Upto(k) : \A y \in Upto(k) : x >= y}
<1>1. 0 \in S
  <2>1. Upto(0) = {-1}
    OBVIOUS
  <2> HIDE DEF Upto
  <2> QED
    BY <2>1
<1>2. ASSUME NEW k \in Nat, k \in S PROVE k + 1 \in S
  <2> SUFFICES ASSUME k + 1 <= n PROVE \E x \in Upto(k + 1) : \A y \in Upto(k + 1) : x >= y
    OBVIOUS
  <2>1. Upto(k + 1) = Upto(k) \cup {f[k + 1]} /\ Upto(k) \subseteq Int /\ f[k + 1] \in Int
    OBVIOUS
  <2>2. PICK x \in Upto(k) : \A y \in Upto(k) : x >= y
    BY <1>2
  <2> HIDE DEF Upto
  <2>3. CASE x >= f[k + 1]
    BY <2>1, <2>2, <2>3
  <2>4. CASE ~(x >= f[k + 1])
    BY <2>1, <2>2, <2>4
  <2> QED
    BY <2>3, <2>4
<1>3. \E x \in V : \A y \in V : x >= y
  <2> HIDE DEF S
  <2>1. m \in Nat /\ m <= n
    OBVIOUS
  <2>2. \A k \in Nat : k \in S => k + 1 \in S
    BY <1>2
  <2>3. m \in S
    BY <1>1, <2>1, <2>2, Counting
  <2> QED
    BY <2>1, <2>3 DEF S
<1>4. V \subseteq Int
  OBVIOUS
<1>5. H!Max(V) \in V /\ \A y \in V : H!Max(V) >= y
  BY <1>3 DEF H!Max
<1> QED
  BY <1>4, <1>5

\* If no more than two ranges begin at or before the end of one before them, no position is in
\* more than three.
Repeating(F, E, n, O) == \A i, j \in 1 .. n : j < i /\ F[i] <= E[j] => i \in O

Holding(F, E, n, p) == {i \in 1 .. n : F[i] <= p /\ p <= E[i]}

LEMMA ThriceAtMost ==
  ASSUME NEW n \in Nat, NEW F \in [1 .. n -> Int], NEW E \in [1 .. n -> Int],
         NEW O \in SUBSET (1 .. n), Cardinality(O) <= 2, Repeating(F, E, n, O), NEW p \in Int
  PROVE  Cardinality(Holding(F, E, n, p)) <= 3
<1> DEFINE T == {i \in 1 .. n : F[i] <= p /\ p <= E[i]}
<1>1. IsFiniteSet(1 .. n)
  BY FS_Interval
<1>2. T \in SUBSET (1 .. n)
  OBVIOUS
<1> SUFFICES Cardinality(T) <= 3
  BY Zenon DEF Holding
<1> HIDE DEF T
<1>3. IsFiniteSet(T) /\ IsFiniteSet(O)
  <2>1. IsFiniteSet(T)
    BY <1>1, <1>2, FS_Subset, Zenon
  <2>2. IsFiniteSet(O)
    BY <1>1, FS_Subset, Zenon
  <2> QED
    BY <2>1, <2>2
<1>4. CASE T = {}
  <2>1. Cardinality({}) = 0
    BY FS_EmptySet
  <2>2. Cardinality(T) = 0
    BY <1>4, <2>1, Zenon
  <2> QED
    BY <2>2
<1>5. CASE T # {}
  <2>1. PICK m \in T : \A i \in T : m <= i
    <3> SUFFICES ASSUME \A m \in T : \E i \in T : ~(m <= i) PROVE FALSE
      OBVIOUS
    <3> DEFINE S == {k \in Nat : \A i \in T : k < i}
    <3>1. 0 \in S
      BY <1>2
    <3>2. \A k \in Nat : k \in S => k + 1 \in S
      <4> SUFFICES ASSUME NEW k \in Nat, \A i \in T : k < i, NEW i \in T PROVE k + 1 < i
        OBVIOUS
      <4>1. PICK j \in T : ~(i <= j)
        OBVIOUS
      <4> QED
        BY <1>2, <4>1
    <3> HIDE DEF S
    <3>3. Nat \subseteq S
      BY <3>1, <3>2, Counting
    <3>4. PICK i : i \in T
      BY <1>5
    <3>5. i \in Nat
      BY <1>2, <3>4
    <3>6. i \in S
      BY <3>3, <3>5
    <3>7. i < i
      BY <3>4, <3>6 DEF S
    <3> QED
      BY <3>5, <3>7
  <2>2. T \ {m} \in SUBSET O
    <3> SUFFICES ASSUME NEW i \in T, i # m PROVE i \in O
      OBVIOUS
    <3>1. i \in 1 .. n /\ m \in 1 .. n /\ m < i
      BY <1>2, <2>1
    <3>2. F[i] <= p /\ p <= E[m] /\ F[i] \in Int /\ E[m] \in Int
      BY <2>1, <3>1 DEF T
    <3>3. F[i] <= E[m]
      BY <3>2
    <3> QED
      BY <3>1, <3>3, Zenon DEF Repeating
  <2>3. Cardinality(T \ {m}) <= Cardinality(O)
    BY <1>3, <2>2, FS_Subset
  <2>4. IsFiniteSet(T \ {m}) /\ Cardinality(T \ {m}) = Cardinality(T) - 1
    BY <1>3, <2>1, FS_RemoveElement
  <2>5. Cardinality(T) \in Nat /\ Cardinality(O) \in Nat
    BY <1>3, FS_CardinalityType
  <2> QED
    BY <2>3, <2>4, <2>5
<1> QED
  BY <1>4, <1>5

\* Where ranges that range_error lets through begin and end
Lets(rs, len, n, F, E) ==
  /\ F \in [1 .. n -> Nat] /\ E \in [1 .. n -> Nat]
  /\ \A i \in 1 .. n : /\ H!Complete(rs[i], len) = <<F[i], E[i]>> /\ F[i] <= E[i]
                       /\ E[i] <= len - 1 /\ Selected(rs[i], len) = F[i] .. E[i]

LEMMA LetsThrough ==
  ASSUME NEW len \in Nat, NEW rs \in Seq(Numbers \X Numbers), NEW n \in Nat, n = Len(rs),
         ~H!range_error(rs, len)
  PROVE  \E F, E : Lets(rs, len, n, F, E)
<1>1. ASSUME NEW i \in 1 .. n
      PROVE  \E a, b \in Nat : /\ H!Complete(rs[i], len) = <<a, b>> /\ a <= b /\ b <= len - 1
                               /\ Selected(rs[i], len) = a .. b
  <2>1. PICK x \in Numbers, y \in Numbers : rs[i] = <<x, y>>
    OBVIOUS
  <2>2. H!InContent(H!Complete(rs[i], len), len)
    <3>1. DOMAIN rs = 1 .. n
      OBVIOUS
    <3>2. H!Completed(rs, len) = [j \in 1 .. n |-> H!Complete(rs[j], len)]
      BY <3>1, Zenon DEF H!Completed
    <3>3. DOMAIN H!Completed(rs, len) = 1 .. n /\ H!Completed(rs, len)[i] = H!Complete(rs[i], len)
      BY <3>2, Zenon
    <3> QED
      BY <3>3, Zenon DEF H!range_error
  <2> QED
    BY <2>1, <2>2, Completes
<1> DEFINE Ok(i, a, b) == /\ H!Complete(rs[i], len) = <<a, b>> /\ a <= b /\ b <= len - 1
                          /\ Selected(rs[i], len) = a .. b
           F == [i \in 1 .. n |-> CHOOSE a \in Nat : \E b \in Nat : Ok(i, a, b)]
           E == [i \in 1 .. n |-> CHOOSE b \in Nat : Ok(i, F[i], b)]
<1>2. \A i \in 1 .. n : \E a \in Nat : \E b \in Nat : Ok(i, a, b)
  BY <1>1, Zenon
<1> HIDE DEF Ok
<1>3. \A i \in 1 .. n : F[i] \in Nat /\ \E b \in Nat : Ok(i, F[i], b)
  BY <1>2, Zenon
<1>4. F \in [1 .. n -> Nat]
  BY <1>3, Zenon
<1> HIDE DEF F
<1>5. \A i \in 1 .. n : E[i] \in Nat /\ Ok(i, F[i], E[i])
  BY <1>3, Zenon
<1>6. E \in [1 .. n -> Nat]
  BY <1>5, Zenon
<1> HIDE DEF E
<1>7. \A i \in 1 .. n : /\ H!Complete(rs[i], len) = <<F[i], E[i]>> /\ F[i] <= E[i]
                       /\ E[i] <= len - 1 /\ Selected(rs[i], len) = F[i] .. E[i]
  BY <1>5, Zenon DEF Ok
<1> QED
  BY <1>4, <1>6, <1>7, Zenon DEF Lets

LEMMA NoneOften ==
  ASSUME NEW len \in Nat, NEW rs \in Seq(Numbers \X Numbers), NEW n \in Nat, n = Len(rs),
         ~H!range_error(rs, len), NEW F, NEW E, Lets(rs, len, n, F, E), NEW p \in Int
  PROVE  Cardinality({i \in 1 .. n : p \in Selected(rs[i], len)}) <= 3
<1>1. PICK cs : cs = H!Completed(rs, len)
  OBVIOUS
<1>2. cs = [j \in 1 .. n |-> H!Complete(rs[j], len)]
  <2>1. DOMAIN rs = 1 .. n
    OBVIOUS
  <2> QED
    BY <1>1, <2>1, Zenon DEF H!Completed
<1>3. F \in [1 .. n -> Int] /\ E \in [1 .. n -> Int]
  <2>1. F \in [1 .. n -> Nat] /\ E \in [1 .. n -> Nat]
    BY Zenon DEF Lets
  <2> QED
    BY <2>1
<1>4. \A i \in 1 .. n : cs[i][1] = F[i] /\ cs[i][2] = E[i]
  BY <1>2 DEF Lets
<1> DEFINE O == {i \in 1 .. n : cs[i][1] <= H!LastBefore(cs, i)}
<1>5. Cardinality(O) <= 2
  <2>1. DOMAIN cs = 1 .. n
    BY <1>2
  <2>6. Cardinality(O) = H!Cardinality(O)
    BY Zenon DEF Cardinality, IsFiniteSet, H!Cardinality, H!IsFiniteSet
  <2>7. ~(H!Cardinality(O) > 2)
    BY <1>1, <2>1, Zenon DEF H!range_error
  <2>2. ~(Cardinality(O) > 2)
    BY <2>6, <2>7, Zenon
  <2>3. IsFiniteSet(1 .. n)
    BY FS_Interval
  <2>4. O \in SUBSET (1 .. n)
    OBVIOUS
  <2> HIDE DEF O
  <2>5. Cardinality(O) \in Nat
    BY <2>3, <2>4, FS_Subset, FS_CardinalityType, Zenon
  <2> QED
    BY <2>2, <2>5
<1>6. Repeating(F, E, n, O)
  <2> SUFFICES ASSUME NEW i \in 1 .. n, NEW j \in 1 .. n, j < i, F[i] <= E[j] PROVE i \in O
    BY Zenon DEF Repeating
  <2>1. PICK m : m = i - 1
    OBVIOUS
  <2>2. m \in 0 .. n /\ j \in 1 .. m /\ 1 .. m \subseteq 1 .. n
    BY <2>1
  <2>3. PICK V : V = {-1} \cup {E[k] : k \in 1 .. m}
    OBVIOUS
  <2>4. {-1} \cup {cs[k][2] : k \in 1 .. m} = V
    <3>1. \A k \in 1 .. m : cs[k][2] = E[k]
      BY <1>4, <2>2, Zenon
    <3>2. {cs[k][2] : k \in 1 .. m} = {E[k] : k \in 1 .. m}
      BY <3>1, Zenon
    <3> QED
      BY <2>3, <3>2, Zenon
  <2>5. H!LastBefore(cs, i) = H!Max(V)
    BY <2>1, <2>4, Zenon DEF H!LastBefore
  <2>6. E[j] \in V
    BY <2>2, <2>3
  <2>7. H!Max(V) \in Int /\ H!Max(V) >= E[j]
    BY <1>3, <2>2, <2>3, <2>6, LastSays
  <2>8. F[i] \in Int /\ E[j] \in Int /\ cs[i][1] = F[i]
    BY <1>3, <1>4
  <2>9. F[i] <= H!Max(V)
    BY <2>7, <2>8
  <2> QED
    BY <2>5, <2>8, <2>9, Zenon
<1>7. {i \in 1 .. n : p \in Selected(rs[i], len)} = Holding(F, E, n, p)
  <2>1. ASSUME NEW i \in 1 .. n PROVE p \in Selected(rs[i], len) <=> F[i] <= p /\ p <= E[i]
    <3>1. Selected(rs[i], len) = F[i] .. E[i] /\ F[i] \in Int /\ E[i] \in Int
      BY <1>3, Zenon DEF Lets
    <3> QED
      BY <3>1
  <2> QED
    BY <2>1, Zenon DEF Holding
<1>8. O \in SUBSET (1 .. n)
  OBVIOUS
<1> HIDE DEF O
<1>9. Cardinality(Holding(F, E, n, p)) <= 3
  BY <1>3, <1>5, <1>6, <1>8, ThriceAtMost
<1> QED
  BY <1>7, <1>9, Zenon

\* An item of ranges: the length of the content, and pairs of numbers
RangeItem(x) == x.len \in Nat /\ x.ranges \in Seq(Numbers \X Numbers)

\* RangesRight for given ranges
CutRight(ranges, len, provided) ==
  LET content == [i \in 1 .. len |-> i - 1]
      rs      == H!Completed(ranges, len)
      answer  == H!apply_ranges(rs, content, "t", provided)
      parts   == [i \in DOMAIN rs |-> H!Slice(content, H!get_range_offset_and_length(rs[i]))]
      times(p) == Cardinality({i \in DOMAIN rs : p \in Selected(ranges[i], len)})
  IN /\ \A i \in DOMAIN rs :
          /\ ToSet(parts[i]) = Selected(ranges[i], len)
          /\ parts[i] # <<>> /\ ToSet(parts[i]) \subseteq 0 .. len - 1
     /\ answer.length = Len(answer.data)
     /\ Len(rs) = 1 => answer.data = parts[1]
     /\ \A p \in 0 .. len - 1 : times(p) <= 3

LEMMA AllCutRight ==
  ASSUME NEW len \in Nat, NEW ranges \in Seq(Numbers \X Numbers), ranges # <<>>, NEW provided,
         ~H!range_error(ranges, len)
  PROVE  CutRight(ranges, len, provided)
<1>1. PICK n \in Nat : n = Len(ranges) /\ DOMAIN ranges = 1 .. n /\ n # 0
  OBVIOUS
<1>2. PICK F, E : Lets(ranges, len, n, F, E)
  BY <1>1, LetsThrough
<1>3. PICK rs : rs = H!Completed(ranges, len)
  OBVIOUS
<1>4. rs = [i \in 1 .. n |-> H!Complete(ranges[i], len)]
  BY <1>1, <1>3, Zenon DEF H!Completed
<1>5. PICK content : content = Counted(len)
  OBVIOUS
<1>6. content \in Seq(Int) /\ Len(content) = len
  BY <1>5 DEF Counted
<1>7. ASSUME NEW i \in 1 .. n
      PROVE  /\ F[i] \in Nat /\ E[i] \in Nat /\ F[i] <= E[i] /\ E[i] <= len - 1
             /\ rs[i] = <<F[i], E[i]>> /\ Selected(ranges[i], len) = F[i] .. E[i]
  <2>1. F \in [1 .. n -> Nat] /\ E \in [1 .. n -> Nat]
    BY <1>2, Zenon DEF Lets
  <2>2. F[i] \in Nat /\ E[i] \in Nat
    BY <2>1
  <2> QED
    BY <1>2, <1>4, <2>2, Zenon DEF Lets
<1>8. DOMAIN rs = 1 .. n /\ Len(rs) = n /\ rs # <<>>
  <2>1. rs \in Seq(Nat \X Nat)
    <3>1. ASSUME NEW i \in 1 .. n PROVE H!Complete(ranges[i], len) \in Nat \X Nat
      <4>1. F[i] \in Nat /\ E[i] \in Nat /\ H!Complete(ranges[i], len) = <<F[i], E[i]>>
        BY <1>4, <1>7, Zenon
      <4> QED
        BY <4>1
    <3> QED
      BY <1>4, <3>1
  <2>2. DOMAIN rs = 1 .. n
    BY <1>4
  <2> QED
    BY <1>1, <2>1, <2>2
<1> DEFINE part(i) == H!Slice(content, H!get_range_offset_and_length(rs[i]))
<1>9. ASSUME NEW i \in 1 .. n
      PROVE  /\ H!get_range_offset_and_length(rs[i]).length = Len(part(i))
             /\ part(i) \in Seq(Int) /\ Len(part(i)) = E[i] - F[i] + 1 /\ ToSet(part(i)) = F[i] .. E[i]
  <2>1. PICK a \in Nat, b \in Nat : a = F[i] /\ b = E[i]
    BY <1>7
  <2>2. a \in Nat /\ b \in Nat /\ a <= b /\ b <= len - 1 /\ rs[i] = <<a, b>>
    BY <1>7, <2>1, Zenon
  <2>3. PICK s : s = part(i)
    OBVIOUS
  <2>4. PICK rg : rg = rs[i] /\ rg = <<a, b>>
    BY <2>2, Zenon
  <2>7. s = H!Slice(Counted(len), H!get_range_offset_and_length(rg))
    BY <1>5, <2>3, <2>4, Zenon
  <2>5. a <= b /\ b <= len - 1 /\ rg = <<a, b>>
    BY <2>2, <2>4, Zenon
  <2>6. IsCut(rg, a, b, s)
    BY <2>5, <2>7, CutSays
  <2> QED
    BY <2>1, <2>3, <2>4, <2>6, Zenon DEF IsCut
<1>10. \A i \in 1 .. n : /\ ToSet(part(i)) = Selected(ranges[i], len)
                         /\ part(i) # <<>> /\ ToSet(part(i)) \subseteq 0 .. len - 1
  <2> SUFFICES ASSUME NEW i \in 1 .. n
               PROVE  /\ ToSet(part(i)) = Selected(ranges[i], len)
                      /\ part(i) # <<>> /\ ToSet(part(i)) \subseteq 0 .. len - 1
    OBVIOUS
  <2>1. ToSet(part(i)) = Selected(ranges[i], len)
    BY <1>7, <1>9, Zenon
  <2>2. PICK a \in Nat, b \in Nat : a = F[i] /\ b = E[i]
    BY <1>7
  <2>3. a <= b /\ b <= len - 1 /\ Len(part(i)) = b - a + 1 /\ ToSet(part(i)) = a .. b
    BY <1>7, <1>9, <2>2, Zenon
  <2>4. Len(part(i)) # 0
    BY <2>3
  <2>5. a .. b \subseteq 0 .. len - 1
    BY <2>3
  <2>6. part(i) # <<>>
    <3>1. Len(<<>>) = 0
      OBVIOUS
    <3> QED
      BY <2>4, <3>1, Zenon
  <2> QED
    BY <2>1, <2>3, <2>5, <2>6, Zenon
<1> HIDE DEF part
<1>11. PICK answer : answer = H!apply_ranges(rs, content, "t", provided)
  OBVIOUS
<1>12. answer.length = Len(answer.data) /\ (n = 1 => answer.data = part(1))
  <2>1. CASE n = 1
    <3>1. rs # <<>> /\ Len(rs) = 1
      BY <1>8, <2>1, Zenon
    <3>2. PICK q : q = H!get_range_offset_and_length(rs[1]).length
      OBVIOUS
    <3>3. part(1) = H!Slice(content, H!get_range_offset_and_length(rs[1]))
      BY Zenon DEF part
    <3>4. answer = [data |-> part(1), length |-> IF provided THEN q ELSE Len(part(1))]
      BY <1>11, <3>1, <3>2, <3>3, Zenon DEF H!apply_ranges
    <3>5. q = Len(part(1))
      BY <1>9, <2>1, <3>2
    <3> QED
      BY <3>4, <3>5
  <2>2. CASE n # 1
    <3>1. rs # <<>> /\ Len(rs) # 1
      BY <1>8, <2>2, Zenon
    <3>2. PICK d : d = H!make_multipart_ranges_data(rs, content, "t")
      OBVIOUS
    <3>3. PICK q : q = H!get_multipart_ranges_data_length(rs, Len(content), "t")
      OBVIOUS
    <3>4. answer = [data |-> d, length |-> IF provided THEN q ELSE Len(d)]
      BY <1>11, <3>1, <3>2, <3>3, Zenon DEF H!apply_ranges
    <3>5. AllWithin(rs, n, Len(content))
      <4>1. ASSUME NEW i \in 1 .. n PROVE Within(rs[i], len)
        <5>1. rs[i][1] = F[i] /\ rs[i][2] = E[i]
          BY <1>7
        <5> QED
          BY <1>7, <5>1, Zenon DEF Within
      <4> QED
        BY <1>6, <4>1, Zenon DEF AllWithin
    <3>6. q = Len(d)
      BY <1>6, <1>8, <3>2, <3>3, <3>5, MultipartLength
    <3> QED
      BY <2>2, <3>4, <3>6
  <2> QED
    BY <2>1, <2>2
<1>13. ASSUME NEW p \in 0 .. len - 1
       PROVE  Cardinality({i \in 1 .. n : p \in Selected(ranges[i], len)}) <= 3
  <2>1. p \in Int
    OBVIOUS
  <2> QED
    BY <1>1, <1>2, <2>1, NoneOften, Zenon
<1>14. content = [i \in 1 .. len |-> i - 1]
  BY <1>5, Zenon DEF Counted
<1>15. \A i \in DOMAIN rs :
         LET s == [j \in DOMAIN rs |-> H!Slice(content, H!get_range_offset_and_length(rs[j]))][i]
         IN /\ ToSet(s) = Selected(ranges[i], len)
            /\ s # <<>> /\ ToSet(s) \subseteq 0 .. len - 1
  BY <1>8, <1>10, Zenon DEF part
<1>16. \A p \in 0 .. len - 1 : Cardinality({i \in DOMAIN rs : p \in Selected(ranges[i], len)}) <= 3
  BY <1>8, <1>13, Zenon
<1>17. Len(rs) = 1 => answer.data = [j \in DOMAIN rs |-> H!Slice(content, H!get_range_offset_and_length(rs[j]))][1]
  <2>1. 1 \in 1 .. n
    BY <1>1
  <2> QED
    BY <1>8, <1>12, <2>1, Zenon DEF part
<1> QED
  BY <1>3, <1>11, <1>12, <1>14, <1>15, <1>16, <1>17, Zenon DEF CutRight

\* Whatever ranges are asked for, of a content of any length: those that are let through select
\* what the header says, within the content, and the length announced is the length sent.
THEOREM RangesAreRight ==
  item.kind = "ranges" /\ RangeItem(item) /\ [][Next]_<<vars, item>> => []RangesRight
<1> DEFINE Inv == item.kind = "ranges" /\ RangeItem(item)
<1>1. Inv => RangesRight
  <2> SUFFICES ASSUME item.kind = "ranges", RangeItem(item), item.ranges # <<>>,
                      ~H!range_error(item.ranges, item.len)
               PROVE  CutRight(item.ranges, item.len, item.provided)
    BY Zenon DEF RangesRight, CutRight
  <2>1. item.len \in Nat /\ item.ranges \in Seq(Numbers \X Numbers)
    BY Zenon DEF RangeItem
  <2> QED
    BY <2>1, AllCutRight
<1>2. Inv /\ [Next]_<<vars, item>> => Inv'
  BY DEF Next, RangeItem
<1> QED
  BY <1>1, <1>2, PTL

\* Of the first i components, those that go up and those that go down
Ups(parts, i)   == {j \in 1 .. i : parts[j] = <<c.dot, c.dot>>}
Downs(parts, i) == {j \in 1 .. i : parts[j] \notin {<<c.dot>>, <<c.dot, c.dot>>}}

Depth(parts, i) == Cardinality(Downs(parts, i)) - Cardinality(Ups(parts, i))

LEMMA Grows ==
  ASSUME NEW i \in Nat, NEW A \in SUBSET (1 .. i)
  PROVE  Cardinality(A) \in Nat /\ Cardinality(A \cup {i + 1}) = Cardinality(A) + 1
<1>1. IsFiniteSet(1 .. i)
  BY FS_Interval
<1>2. IsFiniteSet(A)
  BY <1>1, FS_Subset, Zenon
<1>3. i + 1 \notin A
  OBVIOUS
<1> QED
  BY <1>2, <1>3, FS_AddElement, FS_CardinalityType

\* The level after one more component is the depth of its path.
LEMMA DepthSteps ==
  ASSUME NEW parts, NEW i \in Nat
  PROVE  Depth(parts, i) \in Int /\ Depth(parts, i + 1) = Level(Depth(parts, i), parts[i + 1])
<1>1. PICK U, D : U = Ups(parts, i) /\ D = Downs(parts, i)
  OBVIOUS
<1>2. U \in SUBSET (1 .. i) /\ D \in SUBSET (1 .. i)
  BY <1>1 DEF Ups, Downs
<1>3. PICK u, d : u = Cardinality(U) /\ d = Cardinality(D)
  OBVIOUS
<1>4. /\ u \in Nat /\ d \in Nat
      /\ Cardinality(U \cup {i + 1}) = u + 1 /\ Cardinality(D \cup {i + 1}) = d + 1
  BY <1>2, <1>3, Grows
<1>5. Depth(parts, i) = d - u
  BY <1>1, <1>3, Zenon DEF Depth
<1>6. \A j : j \in 1 .. i + 1 <=> j \in 1 .. i \/ j = i + 1
  OBVIOUS
<1>7. <<c.dot>> # <<c.dot, c.dot>>
  OBVIOUS
<1>8. CASE parts[i + 1] = <<c.dot>>
  <2>1. Ups(parts, i + 1) = U /\ Downs(parts, i + 1) = D
    BY <1>1, <1>6, <1>7, <1>8, Zenon DEF Ups, Downs
  <2>2. Depth(parts, i + 1) = d - u
    BY <1>3, <2>1, Zenon DEF Depth
  <2>3. Level(d - u, parts[i + 1]) = d - u
    BY <1>7, <1>8, Zenon DEF Level
  <2> QED
    BY <1>4, <1>5, <2>2, <2>3
<1>9. CASE parts[i + 1] = <<c.dot, c.dot>>
  <2>1. Ups(parts, i + 1) = U \cup {i + 1} /\ Downs(parts, i + 1) = D
    BY <1>1, <1>6, <1>7, <1>9, Zenon DEF Ups, Downs
  <2>2. Depth(parts, i + 1) = d - (u + 1)
    BY <1>3, <1>4, <2>1, Zenon DEF Depth
  <2>3. Level(d - u, parts[i + 1]) = d - u - 1
    BY <1>7, <1>9, Zenon DEF Level
  <2> QED
    BY <1>4, <1>5, <2>2, <2>3
<1>10. CASE parts[i + 1] \notin {<<c.dot>>, <<c.dot, c.dot>>}
  <2>1. Ups(parts, i + 1) = U /\ Downs(parts, i + 1) = D \cup {i + 1}
    BY <1>1, <1>6, <1>10, Zenon DEF Ups, Downs
  <2>2. Depth(parts, i + 1) = (d + 1) - u
    BY <1>3, <1>4, <2>1, Zenon DEF Depth
  <2>3. Level(d - u, parts[i + 1]) = d - u + 1
    BY <1>10, Zenon DEF Level
  <2> QED
    BY <1>4, <1>5, <2>2, <2>3
<1> QED
  BY <1>8, <1>9, <1>10, Zenon

\* The level of is_valid_path for the components it goes through
LevelOf(parts) == FoldLeft(LAMBDA n, x : IF n < 0 THEN n ELSE Level(n, x), 0, parts)

LEMMA LevelFolds ==
  ASSUME NEW parts, NEW n, DOMAIN parts = 1 .. n
  PROVE  LevelOf(parts) = FoldValue("level", <<>>, 0, parts, n)
BY Zenon DEF LevelOf, FoldLeft, MapThenFoldSet, FoldValue, Folds, Turn, Max

\* The level is never below zero exactly if no beginning of the path goes up more often than
\* down.
LEMMA LevelCounts ==
  ASSUME NEW parts, NEW n \in Nat, DOMAIN parts = 1 .. n
  PROVE  LevelOf(parts) >= 0 <=> \A i \in 0 .. n : Depth(parts, i) >= 0
<1>1. PICK v : Computes("level", <<>>, 0, parts, n, v)
  BY Folding
<1>2. v[0] = 0 /\ v[n] = LevelOf(parts)
  BY <1>1, LevelFolds, Zenon DEF Computes
<1>3. ASSUME NEW i \in 1 .. n
      PROVE  v[i] = IF v[i - 1] < 0 THEN v[i - 1] ELSE Level(v[i - 1], parts[i])
  <2>1. v[i] = Turn("level", <<>>, v[i - 1], parts[i])
    BY <1>1, Zenon DEF Computes
  <2>2. "level" # "length" /\ "level" # "data"
    OBVIOUS
  <2> QED
    BY <2>1, <2>2, Zenon DEF Turn
<1> DEFINE Fine(m) == v[m] = Depth(parts, m) /\ \A i \in 0 .. m : Depth(parts, i) >= 0
           Gone(m) == v[m] \in Int /\ v[m] < 0 /\ \E i \in 0 .. m : Depth(parts, i) < 0
           S == {m \in Nat : m <= n => Fine(m) \/ Gone(m)}
<1>4. 0 \in S
  <2>1. Ups(parts, 0) = {} /\ Downs(parts, 0) = {}
    BY DEF Ups, Downs
  <2>2. Cardinality({}) = 0
    BY FS_EmptySet
  <2>3. Depth(parts, 0) = 0 - 0
    BY <2>1, <2>2, Zenon DEF Depth
  <2> QED
    BY <1>2, <2>3
<1>5. ASSUME NEW m \in Nat, m \in S PROVE m + 1 \in S
  <2> SUFFICES ASSUME m + 1 <= n PROVE Fine(m + 1) \/ Gone(m + 1)
    OBVIOUS
  <2>1. PICK a, b, w : a = v[m] /\ b = v[m + 1] /\ w = Depth(parts, m + 1)
    OBVIOUS
  <2>2. b = IF a < 0 THEN a ELSE Level(a, parts[m + 1])
    <3>1. m + 1 \in 1 .. n /\ (m + 1) - 1 = m
      OBVIOUS
    <3> QED
      BY <1>3, <2>1, <3>1
  <2>3. /\ Depth(parts, m) \in Int /\ w = Level(Depth(parts, m), parts[m + 1]) /\ w \in Int
    <3>1. m + 1 \in Nat
      OBVIOUS
    <3> QED
      BY <2>1, <3>1, DepthSteps, Zenon
  <2>4. \A i : i \in 0 .. m + 1 <=> i \in 0 .. m \/ i = m + 1
    OBVIOUS
  <2>5. CASE Fine(m)
    <3>1. a = Depth(parts, m) /\ a >= 0 /\ a \in Int
      BY <2>1, <2>3, <2>5
    <3>2. b = w
      BY <2>2, <2>3, <3>1
    <3>3. CASE w >= 0
      BY <2>1, <2>4, <2>5, <3>2, <3>3
    <3>4. CASE ~(w >= 0)
      BY <2>1, <2>3, <2>4, <3>2, <3>4
    <3> QED
      BY <3>3, <3>4
  <2>6. CASE Gone(m)
    <3>1. b = a
      BY <2>1, <2>2, <2>6
    <3> QED
      BY <2>1, <2>4, <2>6, <3>1
  <2> QED
    BY <1>5, <2>5, <2>6
<1>6. Fine(n) \/ Gone(n)
  <2> HIDE DEF S
  <2>1. \A m \in Nat : m \in S => m + 1 \in S
    BY <1>5
  <2>2. n \in S
    BY <1>4, <2>1, Counting
  <2> QED
    BY <2>2 DEF S
<1>7. CASE Fine(n)
  <2>1. Depth(parts, n) >= 0
    BY <1>7
  <2> QED
    BY <1>2, <1>7, <2>1, Zenon
<1>8. CASE Gone(n)
  <2>1. ~(v[n] >= 0)
    BY <1>8
  <2>2. PICK i \in 0 .. n : Depth(parts, i) < 0
    BY <1>8
  <2>3. Depth(parts, i) \in Int
    BY DepthSteps
  <2>4. ~(Depth(parts, i) >= 0)
    BY <2>2, <2>3
  <2> QED
    BY <1>2, <2>1, <2>4, Zenon
<1> QED
  BY <1>6, <1>7, <1>8

LEMMA PartsFold ==
  ASSUME NEW s, NEW n, DOMAIN s = 1 .. n
  PROVE  FoldLeft(ReadPart, <<<<>>>>, s) = FoldValue("parts", <<>>, <<<<>>>>, s, n)
BY Zenon DEF FoldLeft, MapThenFoldSet, FoldValue, Folds, Turn, Max

\* What has been read is a sequence of components, the last of which is still open.
Parts(parts) == parts \in Seq(Seq(Int)) /\ Len(parts) >= 1

LEMMA FrontIs ==
  ASSUME NEW A, NEW s \in Seq(A), Len(s) >= 1
  PROVE  Front(s) \in Seq(A) /\ Len(Front(s)) = Len(s) - 1
<1>1. PICK n \in Nat : n = Len(s) /\ n >= 1
  OBVIOUS
<1>2. 1 \in Int /\ n - 1 \in Int /\ \A i \in 1 .. n - 1 : s[i] \in A
  BY <1>1
<1>3. SubSeq(s, 1, n - 1) \in Seq(A) /\ Len(SubSeq(s, 1, n - 1)) = IF 1 <= n - 1 THEN n - 1 - 1 + 1 ELSE 0
  BY <1>2, SubSeqProperties
<1>4. (IF 1 <= n - 1 THEN n - 1 - 1 + 1 ELSE 0) = n - 1
  BY <1>1
<1> QED
  BY <1>1, <1>3, <1>4, Zenon DEF Front

LEMMA PartsStay ==
  ASSUME NEW parts, Parts(parts), NEW x \in Int PROVE Parts(ReadPart(parts, x))
<1>1. PICK n \in Nat : n = Len(parts) /\ n >= 1
  BY DEF Parts
<1>2. PICK last \in Seq(Int) : last = Last(parts)
  <2>1. parts \in Seq(Seq(Int)) /\ n \in DOMAIN parts
    BY <1>1 DEF Parts
  <2>2. parts[n] \in Seq(Int)
    BY <2>1
  <2> QED
    BY <1>1, <2>2 DEF Last
<1>3. PICK front \in Seq(Seq(Int)) : front = Front(parts)
  <2>1. parts \in Seq(Seq(Int)) /\ Len(parts) >= 1
    BY DEF Parts
  <2>2. Front(parts) \in Seq(Seq(Int))
    BY <2>1, FrontIs
  <2> QED
    BY <2>2, Zenon
<1>4. PICK more \in Seq(Int) : more = Append(last, x)
  <2>1. Append(last, x) \in Seq(Int)
    OBVIOUS
  <2> QED
    BY <2>1, Zenon
<1>5. CASE x # c.slash
  <2>1. ReadPart(parts, x) = Append(front, more)
    BY <1>2, <1>3, <1>4, <1>5, Zenon DEF ReadPart
  <2>2. Append(front, more) \in Seq(Seq(Int)) /\ Len(Append(front, more)) >= 1
    OBVIOUS
  <2> QED
    BY <2>1, <2>2, Zenon DEF Parts
<1>6. CASE x = c.slash /\ last = <<>>
  BY <1>2, <1>6, Zenon DEF ReadPart
<1>7. CASE x = c.slash /\ last # <<>>
  <2>1. ReadPart(parts, x) = Append(parts, <<>>)
    BY <1>2, <1>7, Zenon DEF ReadPart
  <2>2. Append(parts, <<>>) \in Seq(Seq(Int)) /\ Len(Append(parts, <<>>)) >= 1
    BY DEF Parts
  <2> QED
    BY <2>1, <2>2, Zenon DEF Parts
<1> QED
  BY <1>5, <1>6, <1>7

LEMMA ComponentsSay ==
  ASSUME NEW path \in Seq(Int) PROVE Components(path) \in Seq(Seq(Int))
<1>1. PICK s \in Seq(Int) : s = Append(path, c.slash)
  <2>1. PICK x \in Int : x = c.slash
    BY DEF c
  <2>2. Append(path, x) \in Seq(Int)
    OBVIOUS
  <2> QED
    BY <2>1, <2>2, Zenon
<1>2. PICK n \in Nat : n = Len(s) /\ DOMAIN s = 1 .. n
  OBVIOUS
<1>3. PICK v : Computes("parts", <<>>, <<<<>>>>, s, n, v)
  BY Folding
<1>4. v[0] = <<<<>>>> /\ v[n] = FoldLeft(ReadPart, <<<<>>>>, s)
  BY <1>2, <1>3, PartsFold, Zenon DEF Computes
<1>5. ASSUME NEW i \in 1 .. n PROVE v[i] = ReadPart(v[i - 1], s[i])
  <2>1. v[i] = Turn("parts", <<>>, v[i - 1], s[i])
    BY <1>3, Zenon DEF Computes
  <2> QED
    BY <2>1, Zenon DEF Turn
<1> DEFINE S == {m \in Nat : m <= n => Parts(v[m])}
<1>6. 0 \in S
  <2>1. Parts(<<<<>>>>)
    BY DEF Parts
  <2> QED
    BY <1>4, <2>1
<1>7. ASSUME NEW m \in Nat, m \in S PROVE m + 1 \in S
  <2> SUFFICES ASSUME m + 1 <= n PROVE Parts(v[m + 1])
    OBVIOUS
  <2>1. m + 1 \in 1 .. n /\ (m + 1) - 1 = m /\ Parts(v[m])
    BY <1>7
  <2>2. s[m + 1] \in Int
    BY <1>2, <2>1
  <2>3. v[m + 1] = ReadPart(v[m], s[m + 1])
    BY <1>5, <2>1
  <2> QED
    BY <2>1, <2>2, <2>3, PartsStay
<1>8. n \in S
  <2> HIDE DEF S
  <2>1. \A m \in Nat : m \in S => m + 1 \in S
    BY <1>7
  <2> QED
    BY <1>2, <1>6, <2>1, Counting
<1>9. Parts(v[n])
  BY <1>2, <1>8
<1>10. PICK parts : parts = v[n] /\ Components(path) = Front(parts)
  BY <1>1, <1>4, Zenon DEF Components
<1> QED
  BY <1>9, <1>10, FrontIs DEF Parts

\* A path without the two characters that are refused everywhere
PathItem(x) == x.path \in Seq(Int) /\ \A i \in DOMAIN x.path : x.path[i] \notin {c.nul, c.backslash}

\* Of paths of any length is_valid_path lets through those, and only those, that no component
\* leads out of the directory of the mount point, not even on the way to a place inside.
LEMMA PathsStayBelow ==
  item.kind = "path" /\ PathItem(item) /\ [][Next]_<<vars, item>> => []PathBelowMount
<1> DEFINE Inv == item.kind = "path" /\ PathItem(item)
<1>1. Inv => PathBelowMount
  <2> SUFFICES ASSUME PathItem(item) PROVE PathBelowMount
    OBVIOUS
  <2>1. PICK parts : parts = Components(item.path)
    OBVIOUS
  <2>2. PICK n \in Nat : n = Len(parts) /\ DOMAIN parts = 1 .. n
    <3>1. parts \in Seq(Seq(Int))
      BY <2>1, ComponentsSay DEF PathItem
    <3> QED
      BY <3>1
  <2>3. is_valid_path(item.path) <=> LevelOf(parts) >= 0
    BY <2>1, Zenon DEF is_valid_path, LevelOf, PathItem
  <2>4. LevelOf(parts) >= 0 <=> \A i \in 0 .. n : Depth(parts, i) >= 0
    BY <2>2, LevelCounts
  <2>5. ASSUME NEW i \in 0 .. n
        PROVE  Depth(parts, i) >= 0 <=> Cardinality(Ups(parts, i)) <= Cardinality(Downs(parts, i))
    <3>1. IsFiniteSet(1 .. i)
      BY FS_Interval
    <3>2. Ups(parts, i) \in SUBSET (1 .. i) /\ Downs(parts, i) \in SUBSET (1 .. i)
      BY DEF Ups, Downs
    <3>3. Cardinality(Ups(parts, i)) \in Nat /\ Cardinality(Downs(parts, i)) \in Nat
      BY <3>1, <3>2, FS_Subset, FS_CardinalityType, Zenon
    <3> QED
      BY <3>3 DEF Depth
  <2>6. is_valid_path(item.path)
          <=> \A i \in 0 .. Len(parts) : Cardinality(Ups(parts, i)) <= Cardinality(Downs(parts, i))
    BY <2>2, <2>3, <2>4, <2>5, Zenon
  <2> QED
    BY <2>1, <2>6, Zenon DEF PathBelowMount, Ups, Downs
<1>2. Inv /\ [Next]_<<vars, item>> => Inv'
  BY DEF Next, PathItem
<1> QED
  BY <1>1, <1>2, PTL

Mark(n) == CASE n = 1 -> 0 [] n = 2 -> 192 [] n = 3 -> 224 [] n = 4 -> 240

DecodeFold(base, s) == FoldLeft(LAMBDA v, b : v * 64 + b - 128, base, s)

LEMMA DecodeFolds ==
  ASSUME NEW base, NEW s, NEW n, DOMAIN s = 1 .. n
  PROVE  DecodeFold(base, s) = FoldValue("utf8", <<>>, base, s, n)
BY Zenon DEF DecodeFold, FoldLeft, MapThenFoldSet, FoldValue, Folds, Turn, Max

\* The values a decoder goes through
DecodesBy(bytes, m, n, v) ==
  /\ v[0] = bytes[1] - Mark(m) /\ v[n] = Utf8Value(bytes)
  /\ \A i \in 1 .. n : v[i] = v[i - 1] * 64 + bytes[i + 1] - 128

LEMMA Decodes ==
  ASSUME NEW bytes \in Seq(Nat), NEW m \in Nat, m = Len(bytes), NEW n \in Nat, m = n + 1
  PROVE  \E v : DecodesBy(bytes, m, n, v)
<1>1. PICK s, base : s = Tail(bytes) /\ base = bytes[1] - Mark(m)
  OBVIOUS
<1>2. DOMAIN s = 1 .. n /\ \A i \in 1 .. n : s[i] = bytes[i + 1]
  <2>1. bytes # <<>> /\ Len(bytes) = n + 1
    <3>1. Len(<<>>) = 0
      OBVIOUS
    <3>2. Len(bytes) = n + 1
      OBVIOUS
    <3>3. n + 1 # 0
      OBVIOUS
    <3> QED
      BY <3>1, <3>2, <3>3, Zenon
  <2> QED
    BY <1>1, <2>1, HeadTailProperties
<1>3. PICK v : Computes("utf8", <<>>, base, s, n, v)
  BY Folding
<1>4. v[0] = base /\ v[n] = DecodeFold(base, s)
  BY <1>2, <1>3, DecodeFolds, Zenon DEF Computes
<1>5. Utf8Value(bytes) = DecodeFold(base, s)
  <2>1. Utf8Value(bytes) = DecodeFold(bytes[1] - Mark(Len(bytes)), Tail(bytes))
    BY Zenon DEF Utf8Value, DecodeFold, Mark
  <2> QED
    BY <1>1, <2>1, Zenon
<1>6. ASSUME NEW i \in 1 .. n PROVE v[i] = v[i - 1] * 64 + bytes[i + 1] - 128
  <2>1. v[i] = Turn("utf8", <<>>, v[i - 1], s[i])
    BY <1>3, Zenon DEF Computes
  <2>2. "utf8" # "length" /\ "utf8" # "data"
    OBVIOUS
  <2> QED
    BY <1>2, <2>1, <2>2, Zenon DEF Turn
<1> QED
  BY <1>1, <1>4, <1>5, <1>6, Zenon DEF DecodesBy

\* Every character is decoded from its bytes, of which all but the first are marked as such.
Decoded(n) ==
  /\ to_utf8(n) # <<>> /\ Utf8Value(to_utf8(n)) = n
  /\ \A i \in DOMAIN to_utf8(n) : i > 1 => to_utf8(n)[i] \in 128 .. 191

TwoLong(n)   == n >= 128 /\ n < 2048
ThreeLong(n) == n >= 2048 /\ n < 65536 /\ n \notin 55296 .. 57343
FourLong(n)  == n >= 65536 /\ n < 1114112

LEMMA OneByte == ASSUME NEW n \in Nat, n < 128 PROVE Decoded(n)
<1>1. PICK s : s = to_utf8(n)
  OBVIOUS
<1>2. s = <<n>>
  BY <1>1, SMT DEF to_utf8
<1>3. s \in Seq(Nat) /\ Len(s) = 1 /\ s[1] = n /\ s # <<>> /\ 1 = 0 + 1
  BY <1>2
<1>4. PICK v : DecodesBy(s, 1, 0, v)
  BY <1>3, Decodes
<1>20. v[0] = s[1] - Mark(1) /\ v[0] = Utf8Value(s)
  BY <1>4, Zenon DEF DecodesBy
<1>5. Mark(1) = 0
  BY DEF Mark
<1>6. Utf8Value(s) = n
  BY <1>3, <1>5, <1>20
<1>7. \A i \in DOMAIN s : i > 1 => s[i] \in 128 .. 191
  BY <1>3
<1> QED
  BY <1>1, <1>3, <1>6, <1>7, Zenon DEF Decoded

LEMMA TwoBytes == ASSUME NEW n \in Nat, TwoLong(n) PROVE Decoded(n)
<1>1. PICK s : s = to_utf8(n)
  OBVIOUS
<1>2. PICK a \in Nat, b \in Nat : a = n \div 64 /\ b = n % 64
  OBVIOUS
<1>3. n = a * 64 + b /\ b < 64
  BY <1>2, SMT
<1>4. s = <<192 + a, 128 + b>>
  <2>1. (n \div 1) % 64 = b
    BY <1>2
  <2> QED
    BY <1>1, <1>2, <2>1, SMT DEF to_utf8, TwoLong
<1>5. /\ s \in Seq(Nat) /\ Len(s) = 2 /\ s # <<>> /\ 2 = 1 + 1
      /\ s[1] = 192 + a /\ s[2] = 128 + b
  BY <1>4
<1>6. PICK v : DecodesBy(s, 2, 1, v)
  BY <1>5, Decodes
<1>20. /\ v[0] = s[1] - Mark(2) /\ v[1] = Utf8Value(s)
       /\ \A i \in 1 .. 1 : v[i] = v[i - 1] * 64 + s[i + 1] - 128
  BY <1>6, Zenon DEF DecodesBy
<1>7. Mark(2) = 192
  BY DEF Mark
<1>8. v[0] = a
  BY <1>5, <1>20, <1>7
<1>9. v[1] = a * 64 + (128 + b) - 128
  BY <1>5, <1>20, <1>8
<1>10. Utf8Value(s) = n
  <2>1. n = v[1]
    BY <1>3, <1>9
  <2> QED
    BY <1>20, <2>1, Zenon
<1>11. \A i \in DOMAIN s : i > 1 => s[i] \in 128 .. 191
  <2>1. ASSUME NEW i \in 1 .. 2, i > 1 PROVE i = 2
    BY <2>1
  <2>2. b < 64
    BY <1>3
  <2>3. s[2] \in 128 .. 191
    BY <1>5, <2>2
  <2>4. DOMAIN s = 1 .. 2
    BY <1>5
  <2> QED
    BY <2>1, <2>3, <2>4
<1> QED
  BY <1>1, <1>5, <1>10, <1>11, Zenon DEF Decoded

LEMMA ThreeBytes == ASSUME NEW n \in Nat, ThreeLong(n) PROVE Decoded(n)
<1>1. PICK s : s = to_utf8(n)
  OBVIOUS
<1>2. PICK a \in Nat, b \in Nat, d \in Nat : a = n \div 4096 /\ b = (n \div 64) % 64 /\ d = n % 64
  BY SMT
<1>3. n = (a * 64 + b) * 64 + d /\ b < 64 /\ d < 64
  BY <1>2, SMT
<1>4. s = <<224 + a, 128 + b, 128 + d>>
  <2>1. (n \div 1) % 64 = d
    BY <1>2, SMT
  <2> QED
    BY <1>1, <1>2, <2>1, SMT DEF to_utf8, ThreeLong
<1>5. /\ s \in Seq(Nat) /\ Len(s) = 3 /\ s # <<>> /\ 3 = 2 + 1
      /\ s[1] = 224 + a /\ s[2] = 128 + b /\ s[3] = 128 + d
  BY <1>4
<1>6. PICK v : DecodesBy(s, 3, 2, v)
  BY <1>5, Decodes
<1>20. /\ v[0] = s[1] - Mark(3) /\ v[2] = Utf8Value(s)
       /\ \A i \in 1 .. 2 : v[i] = v[i - 1] * 64 + s[i + 1] - 128
  BY <1>6, Zenon DEF DecodesBy
<1>7. Mark(3) = 224
  BY DEF Mark
<1>8. v[0] = a
  BY <1>5, <1>20, <1>7
<1>9. v[1] = a * 64 + b
  BY <1>5, <1>20, <1>8
<1>10. v[2] = (a * 64 + b) * 64 + d
  BY <1>5, <1>20, <1>9
<1>11. Utf8Value(s) = n
  <2>1. n = v[2]
    BY <1>3, <1>10
  <2> QED
    BY <1>20, <2>1, Zenon
<1>12. \A i \in DOMAIN s : i > 1 => s[i] \in 128 .. 191
  <2>1. ASSUME NEW i \in 1 .. 3, i > 1 PROVE i = 2 \/ i = 3
    BY <2>1
  <2>2. b < 64 /\ d < 64
    BY <1>3
  <2>3. s[2] \in 128 .. 191 /\ s[3] \in 128 .. 191
    BY <1>5, <2>2
  <2>4. DOMAIN s = 1 .. 3
    BY <1>5
  <2> QED
    BY <2>1, <2>3, <2>4
<1> QED
  BY <1>1, <1>5, <1>11, <1>12, Zenon DEF Decoded

LEMMA FourBytes == ASSUME NEW n \in Nat, FourLong(n) PROVE Decoded(n)
<1>1. PICK s : s = to_utf8(n)
  OBVIOUS
<1>2. PICK a \in Nat, b \in Nat, d \in Nat, e \in Nat :
        a = n \div 262144 /\ b = (n \div 4096) % 64 /\ d = (n \div 64) % 64 /\ e = n % 64
  BY SMT
<1>3. n = ((a * 64 + b) * 64 + d) * 64 + e /\ b < 64 /\ d < 64 /\ e < 64
  BY <1>2, SMT
<1>4. s = <<240 + a, 128 + b, 128 + d, 128 + e>>
  <2>1. (n \div 1) % 64 = e
    BY <1>2, SMT
  <2> QED
    BY <1>1, <1>2, <2>1, SMT DEF to_utf8, FourLong
<1>5. /\ s \in Seq(Nat) /\ Len(s) = 4 /\ s # <<>> /\ 4 = 3 + 1
      /\ s[1] = 240 + a /\ s[2] = 128 + b /\ s[3] = 128 + d /\ s[4] = 128 + e
  BY <1>4
<1>6. PICK v : DecodesBy(s, 4, 3, v)
  BY <1>5, Decodes
<1>20. /\ v[0] = s[1] - Mark(4) /\ v[3] = Utf8Value(s)
       /\ \A i \in 1 .. 3 : v[i] = v[i - 1] * 64 + s[i + 1] - 128
  BY <1>6, Zenon DEF DecodesBy
<1>7. Mark(4) = 240
  BY DEF Mark
<1>8. v[0] = a
  BY <1>5, <1>20, <1>7
<1>9. v[1] = a * 64 + b
  BY <1>5, <1>20, <1>8
<1>10. v[2] = (a * 64 + b) * 64 + d
  BY <1>5, <1>20, <1>9
<1>11. v[3] = ((a * 64 + b) * 64 + d) * 64 + e
  <2>1. PICK w \in Nat : w = (a * 64 + b) * 64 + d
    OBVIOUS
  <2>2. v[3] = v[2] * 64 + s[4] - 128
    BY <1>20
  <2>3. v[3] = w * 64 + e
    BY <1>5, <1>10, <2>1, <2>2
  <2> QED
    BY <2>1, <2>3
<1>12. Utf8Value(s) = n
  <2>1. n = v[3]
    BY <1>3, <1>11
  <2> QED
    BY <1>20, <2>1, Zenon
<1>13. \A i \in DOMAIN s : i > 1 => s[i] \in 128 .. 191
  <2>1. ASSUME NEW i \in 1 .. 4, i > 1 PROVE i = 2 \/ i = 3 \/ i = 4
    BY <2>1
  <2>2. b < 64 /\ d < 64 /\ e < 64
    BY <1>3
  <2>3. s[2] \in 128 .. 191 /\ s[3] \in 128 .. 191 /\ s[4] \in 128 .. 191
    BY <1>5, <2>2
  <2>4. DOMAIN s = 1 .. 4
    BY <1>5
  <2> QED
    BY <2>1, <2>3, <2>4
<1> QED
  BY <1>1, <1>5, <1>12, <1>13, Zenon DEF Decoded

\* The code points that are characters
Scalar(n) == n < 1114112 /\ n \notin 55296 .. 57343

\* What to_utf8 makes of a code point is decoded to that code point, and marked as UTF-8 is: for
\* all of them but the halves of a surrogate pair.
THEOREM CharactersRoundTrip ==
  ASSUME NEW n \in Nat, Scalar(n)
  PROVE  /\ to_utf8(n) # <<>> /\ Utf8Value(to_utf8(n)) = n
         /\ \A i \in DOMAIN to_utf8(n) : i > 1 => to_utf8(n)[i] \in 128 .. 191
<1>1. n < 128 \/ TwoLong(n) \/ ThreeLong(n) \/ FourLong(n)
  BY SMT DEF Scalar, TwoLong, ThreeLong, FourLong
<1>2. Decoded(n)
  BY <1>1, OneByte, TwoBytes, ThreeBytes, FourBytes
<1> QED
  BY <1>2, Zenon DEF Decoded

-----------------------------------------------------------------------------
(***************************************************************************)
(* Hexadecimal digits                                                      *)
(***************************************************************************)
Digits(s) == s \in Seq(Nat) /\ \A i \in 1 .. Len(s) : is_hex(s[i])

LEMMA DigitSays ==
  ASSUME NEW d \in 0 .. 15, NEW ten \in {65, 97}
  PROVE  /\ HexDigit(d, ten) \in Nat /\ HexValue(HexDigit(d, ten)) = d /\ is_hex(HexDigit(d, ten))
         /\ HexDigit(d, ten) # 117
<1>1. PICK x : x = HexDigit(d, ten)
  OBVIOUS
<1>2. CASE d < 10
  <2>1. x = 48 + d
    BY <1>1, <1>2 DEF HexDigit
  <2>2. x \in 48 .. 57
    BY <1>2, <2>1
  <2>3. HexValue(x) = d
    BY <2>1, <2>2 DEF HexValue
  <2> QED
    BY <1>1, <2>2, <2>3 DEF is_hex
<1>3. CASE ~(d < 10) /\ ten = 65
  <2>1. x = 55 + d
    BY <1>1, <1>3 DEF HexDigit
  <2>2. x \in 65 .. 70 /\ x \notin 48 .. 57
    BY <1>3, <2>1
  <2>3. HexValue(x) = d
    BY <2>1, <2>2 DEF HexValue
  <2> QED
    BY <1>1, <2>2, <2>3 DEF is_hex
<1>4. CASE ~(d < 10) /\ ten = 97
  <2>1. x = 87 + d
    BY <1>1, <1>4 DEF HexDigit
  <2>2. x \in 97 .. 102 /\ x \notin 48 .. 57 /\ x \notin 65 .. 70
    BY <1>4, <2>1
  <2>3. HexValue(x) = d
    BY <2>1, <2>2 DEF HexValue
  <2> QED
    BY <1>1, <2>2, <2>3 DEF is_hex
<1> QED
  BY <1>2, <1>3, <1>4

LEMMA ValueFolds ==
  ASSUME NEW s, NEW n, DOMAIN s = 1 .. n
  PROVE  ValueOf(s) = FoldValue("hex", <<>>, 0, s, n)
BY Zenon DEF ValueOf, FoldLeft, MapThenFoldSet, FoldValue, Folds, Turn, Max

HexTurns(s, n, v) ==
  v[0] = 0 /\ v[n] = ValueOf(s) /\ \A i \in 1 .. n : v[i] = v[i - 1] * 16 + HexValue(s[i])

LEMMA ValueTurns ==
  ASSUME NEW s, NEW n \in Nat, DOMAIN s = 1 .. n
  PROVE  \E v : HexTurns(s, n, v)
<1>1. PICK v : Computes("hex", <<>>, 0, s, n, v)
  BY Folding
<1>2. v[0] = 0 /\ v[n] = ValueOf(s)
  BY <1>1, ValueFolds, Zenon DEF Computes
<1>3. ASSUME NEW i \in 1 .. n PROVE v[i] = v[i - 1] * 16 + HexValue(s[i])
  <2>1. v[i] = Turn("hex", <<>>, v[i - 1], s[i])
    BY <1>1, Zenon DEF Computes
  <2>2. "hex" # "length" /\ "hex" # "data" /\ "hex" # "utf8"
    OBVIOUS
  <2> QED
    BY <2>1, <2>2, Zenon DEF Turn
<1> QED
  BY <1>2, <1>3, Zenon DEF HexTurns

\* One more digit
LEMMA ValueOfMore ==
  ASSUME NEW n \in Nat, NEW s, NEW t, DOMAIN s = 1 .. n, DOMAIN t = 1 .. n + 1,
         \A i \in 1 .. n : t[i] = s[i]
  PROVE  ValueOf(t) = ValueOf(s) * 16 + HexValue(t[n + 1])
<1>1. PICK v : HexTurns(s, n, v)
  BY ValueTurns
<1>2. PICK w : HexTurns(t, n + 1, w)
  <2>1. n + 1 \in Nat
    OBVIOUS
  <2> QED
    BY <2>1, ValueTurns
<1> DEFINE S == {k \in Nat : k <= n => w[k] = v[k]}
<1>3. 0 \in S
  BY <1>1, <1>2 DEF HexTurns
<1>4. ASSUME NEW k \in Nat, k \in S PROVE k + 1 \in S
  <2> SUFFICES ASSUME k + 1 <= n PROVE w[k + 1] = v[k + 1]
    OBVIOUS
  <2>1. PICK m : m = k + 1
    OBVIOUS
  <2>2. m \in 1 .. n /\ m \in 1 .. n + 1 /\ m - 1 = k /\ w[k] = v[k]
    BY <1>4, <2>1
  <2>3. v[m] = v[m - 1] * 16 + HexValue(s[m]) /\ w[m] = w[m - 1] * 16 + HexValue(t[m]) /\ t[m] = s[m]
    BY <1>1, <1>2, <2>2, Zenon DEF HexTurns
  <2> QED
    BY <2>1, <2>2, <2>3, Zenon
<1>5. w[n] = v[n]
  <2> HIDE DEF S
  <2>1. \A k \in Nat : k \in S => k + 1 \in S
    BY <1>4
  <2>2. n \in S
    BY <1>3, <2>1, Counting
  <2> QED
    BY <2>2 DEF S
<1>6. PICK m : m = n + 1
  OBVIOUS
<1>7. m \in 1 .. n + 1 /\ m - 1 = n
  BY <1>6
<1>8. w[m] = w[m - 1] * 16 + HexValue(t[m]) /\ w[m] = ValueOf(t) /\ v[n] = ValueOf(s)
  BY <1>1, <1>2, <1>6, <1>7, Zenon DEF HexTurns
<1> QED
  BY <1>5, <1>6, <1>7, <1>8, Zenon

\* The function from_i_to_hex is defined with, up to m
Hexed(g, k) == Append(IF k < 16 THEN <<>> ELSE g[k \div 16], HexDigit(k % 16, 97))

HexUpto(m, g) == \A k \in 0 .. m : g[k] = Hexed(g, k)

LEMMA Quotient ==
  ASSUME NEW k \in Nat, ~(k < 16) PROVE k \div 16 \in Nat /\ k \div 16 < k
OBVIOUS

\* What is defined is defined in one way.
LEMMA HexOnce ==
  ASSUME NEW m \in Nat, NEW l \in Nat, NEW g, HexUpto(m, g), NEW h, HexUpto(l, h),
         NEW k \in Nat, k <= m, k <= l
  PROVE  g[k] = h[k]
<1> DEFINE S == {j \in Nat : \A i \in 0 .. j : i <= m /\ i <= l => g[i] = h[i]}
<1>1. ASSUME NEW j \in Nat, j <= m, j <= l, \A i \in 0 .. j - 1 : g[i] = h[i] PROVE g[j] = h[j]
  <2>1. j \in 0 .. m /\ j \in 0 .. l
    BY <1>1
  <2>2. g[j] = Hexed(g, j) /\ h[j] = Hexed(h, j)
    BY <2>1, Zenon DEF HexUpto
  <2>3. CASE j < 16
    BY <2>2, <2>3, Zenon DEF Hexed
  <2>4. CASE ~(j < 16)
    <3>1. j \div 16 \in 0 .. j - 1
      BY <2>4, Quotient
    <3>2. g[j \div 16] = h[j \div 16]
      BY <1>1, <3>1, Zenon
    <3> QED
      BY <2>2, <2>4, <3>2, Zenon DEF Hexed
  <2> QED
    BY <2>3, <2>4
<1>2. 0 \in S
  <2>1. g[0] = h[0]
    <3>1. 0 .. 0 - 1 = {} /\ 0 <= m /\ 0 <= l
      OBVIOUS
    <3> QED
      BY <1>1, <3>1
  <2> QED
    BY <2>1
<1>3. ASSUME NEW j \in Nat, j \in S PROVE j + 1 \in S
  <2> SUFFICES ASSUME NEW i \in 0 .. j + 1, i <= m, i <= l PROVE g[i] = h[i]
    OBVIOUS
  <2>1. CASE i \in 0 .. j
    BY <1>3, <2>1
  <2>2. CASE i = j + 1
    <3>1. i \in Nat /\ \A p \in 0 .. i - 1 : g[p] = h[p]
      BY <1>3, <2>2
    <3> QED
      BY <1>1, <3>1
  <2> QED
    BY <2>1, <2>2
<1>4. k \in S
  <2> HIDE DEF S
  <2>1. \A j \in Nat : j \in S => j + 1 \in S
    BY <1>3
  <2> QED
    BY <1>2, <2>1, Counting
<1> QED
  BY <1>4

LEMMA HexExists == ASSUME NEW n \in Nat PROVE \E g : HexUpto(n, g)
<1> DEFINE S == {m \in Nat : \E g : HexUpto(m, g)}
<1>1. 0 \in S
  <2> DEFINE g == [k \in 0 .. 0 |-> Append(<<>>, HexDigit(0 % 16, 97))]
  <2>1. g[0] = Hexed(g, 0)
    <3>1. g[0] = Append(<<>>, HexDigit(0 % 16, 97)) /\ 0 < 16
      OBVIOUS
    <3> HIDE DEF g
    <3> QED
      BY <3>1, Zenon DEF Hexed
  <2> HIDE DEF g
  <2>2. HexUpto(0, g)
    BY <2>1 DEF HexUpto
  <2> QED
    BY <2>2
<1>2. ASSUME NEW m \in Nat, m \in S PROVE m + 1 \in S
  <2>1. PICK g : HexUpto(m, g)
    BY <1>2
  <2> DEFINE h == [k \in 0 .. m + 1 |-> IF k \in 0 .. m THEN g[k] ELSE Hexed(g, k)]
  <2>2. \A k \in 0 .. m : h[k] = g[k]
    OBVIOUS
  <2>3. h[m + 1] = Hexed(g, m + 1)
    OBVIOUS
  <2> HIDE DEF h
  <2>4. ASSUME NEW k \in 0 .. m + 1 PROVE Hexed(g, k) = Hexed(h, k)
    <3>1. CASE k < 16
      BY <3>1, Zenon DEF Hexed
    <3>2. CASE ~(k < 16)
      <4>1. k \div 16 \in 0 .. m
        BY <3>2, Quotient
      <4> QED
        BY <2>2, <3>2, <4>1, Zenon DEF Hexed
    <3> QED
      BY <3>1, <3>2
  <2>5. ASSUME NEW k \in 0 .. m + 1 PROVE h[k] = Hexed(h, k)
    <3>1. CASE k \in 0 .. m
      BY <2>1, <2>2, <2>4, <3>1, Zenon DEF HexUpto
    <3>2. CASE k = m + 1
      BY <2>3, <2>4, <3>2, Zenon
    <3> QED
      BY <3>1, <3>2
  <2>6. HexUpto(m + 1, h)
    BY <2>5, Zenon DEF HexUpto
  <2> QED
    BY <2>6
<1>3. n \in S
  <2> HIDE DEF S
  <2>1. \A m \in Nat : m \in S => m + 1 \in S
    BY <1>2
  <2> QED
    BY <1>1, <2>1, Counting
<1> QED
  BY <1>3

\* So the function is there, and from_i_to_hex is its value.
LEMMA HexSays ==
  \E f : /\ \A n \in Nat : from_i_to_hex(n) = f[n]
         /\ \A k \in Nat : f[k] = Hexed(f, k)
<1> DEFINE G(k) == CHOOSE g : HexUpto(k, g)
           f == [k \in Nat |-> G(k)[k]]
           h == CHOOSE hex : hex = [k \in Nat |-> Append(IF k < 16 THEN <<>> ELSE hex[k \div 16],
                                                         HexDigit(k % 16, 97))]
<1>1. \A k \in Nat : HexUpto(k, G(k))
  BY HexExists, Zenon
<1> HIDE DEF G
<1>2. \A k \in Nat : f[k] = G(k)[k]
  BY Zenon
<1>3. f = [k \in Nat |-> f[k]]
  OBVIOUS
<1> HIDE DEF f
<1>4. ASSUME NEW k \in Nat PROVE f[k] = Hexed(f, k)
  <2>1. G(k)[k] = Hexed(G(k), k)
    <3>1. k \in 0 .. k
      OBVIOUS
    <3> QED
      BY <1>1, <3>1, Zenon DEF HexUpto
  <2>2. CASE k < 16
    BY <1>2, <2>1, <2>2, Zenon DEF Hexed
  <2>3. CASE ~(k < 16)
    <3>1. PICK q : q = k \div 16
      OBVIOUS
    <3>2. q \in Nat /\ q <= k /\ q <= q
      BY <2>3, <3>1, Quotient
    <3>3. G(k)[q] = G(q)[q]
      <4>1. HexUpto(k, G(k)) /\ HexUpto(q, G(q))
        BY <1>1, <3>2, Zenon
      <4> QED
        BY <3>2, <4>1, HexOnce
    <3>4. G(k)[q] = f[q]
      BY <1>2, <3>2, <3>3, Zenon
    <3> QED
      BY <1>2, <2>1, <2>3, <3>1, <3>4, Zenon DEF Hexed
  <2> QED
    BY <2>2, <2>3
<1>5. f = [k \in Nat |-> Append(IF k < 16 THEN <<>> ELSE f[k \div 16], HexDigit(k % 16, 97))]
  BY <1>3, <1>4, Zenon DEF Hexed
<1>6. h = [k \in Nat |-> Append(IF k < 16 THEN <<>> ELSE h[k \div 16], HexDigit(k % 16, 97))]
  BY <1>5, Zenon
<1>7. \A n \in Nat : from_i_to_hex(n) = h[n]
  BY Zenon DEF from_i_to_hex
<1> HIDE DEF h
<1>8. \A k \in Nat : h[k] = Hexed(h, k)
  BY <1>6, Zenon DEF Hexed
<1> QED
  BY <1>7, <1>8

\* The digits of n have its value, and there is one.
HexOf(n, s) == Digits(s) /\ Len(s) >= 1 /\ ValueOf(s) = n

LEMMA AppendSays ==
  ASSUME NEW s \in Seq(Nat), NEW d \in Nat, NEW n \in Nat, n = Len(s), NEW t, t = Append(s, d)
  PROVE  /\ t \in Seq(Nat) /\ Len(t) = n + 1 /\ t[n + 1] = d /\ DOMAIN t = 1 .. n + 1
         /\ \A i \in 1 .. n : t[i] = s[i]
BY AppendProperties

LEMMA OneDigit ==
  ASSUME NEW s, Digits(s), NEW v \in Nat, ValueOf(s) = v, NEW e \in 0 .. 15
  PROVE  HexOf(v * 16 + e, Append(s, HexDigit(e, 97)))
<1>1. PICK n \in Nat : n = Len(s) /\ DOMAIN s = 1 .. n
  BY DEF Digits
<1>2. s \in Seq(Nat) /\ \A i \in 1 .. n : is_hex(s[i])
  BY <1>1 DEF Digits
<1>3. PICK d : d = HexDigit(e, 97)
  OBVIOUS
<1>4. d \in Nat /\ HexValue(d) = e /\ is_hex(d)
  <2>1. 97 \in {65, 97}
    OBVIOUS
  <2> QED
    BY <1>3, <2>1, DigitSays
<1>5. PICK t : t = Append(s, d)
  OBVIOUS
<1>6. /\ t \in Seq(Nat) /\ Len(t) = n + 1 /\ t[n + 1] = d /\ DOMAIN t = 1 .. n + 1
      /\ \A i \in 1 .. n : t[i] = s[i]
  BY <1>1, <1>2, <1>4, <1>5, AppendSays
<1>7. ValueOf(t) = ValueOf(s) * 16 + HexValue(t[n + 1])
  BY <1>1, <1>6, ValueOfMore
<1>8. ValueOf(t) = v * 16 + e
  BY <1>4, <1>6, <1>7, Zenon
<1>9. \A i \in 1 .. Len(t) : is_hex(t[i])
  <2> SUFFICES ASSUME NEW i \in 1 .. n + 1 PROVE is_hex(t[i])
    BY <1>6, Zenon
  <2>1. CASE i \in 1 .. n
    BY <1>2, <1>6, <2>1, Zenon
  <2>2. CASE i = n + 1
    BY <1>4, <1>6, <2>2, Zenon
  <2> QED
    BY <2>1, <2>2
<1>10. Len(t) >= 1
  BY <1>6
<1> QED
  BY <1>3, <1>5, <1>6, <1>8, <1>9, <1>10, Zenon DEF HexOf, Digits

LEMMA NoDigits == Digits(<<>>) /\ ValueOf(<<>>) = 0
<1>1. DOMAIN <<>> = 1 .. 0
  OBVIOUS
<1>2. PICK v : HexTurns(<<>>, 0, v)
  BY <1>1, ValueTurns
<1>3. ValueOf(<<>>) = 0
  BY <1>2, Zenon DEF HexTurns
<1>4. Digits(<<>>)
  BY DEF Digits
<1> QED
  BY <1>3, <1>4

LEMMA HexIsRight == ASSUME NEW n \in Nat PROVE HexOf(n, from_i_to_hex(n))
<1>1. PICK f : /\ \A k \in Nat : from_i_to_hex(k) = f[k]
               /\ \A k \in Nat : f[k] = Hexed(f, k)
  BY HexSays
<1> DEFINE S == {m \in Nat : \A k \in 0 .. m : HexOf(k, f[k])}
<1>2. ASSUME NEW k \in Nat, \A i \in 0 .. k - 1 : HexOf(i, f[i]) PROVE HexOf(k, f[k])
  <2>1. PICK q \in Nat, e \in 0 .. 15 : q = k \div 16 /\ e = k % 16 /\ k = q * 16 + e
    OBVIOUS
  <2>2. f[k] = Hexed(f, k)
    BY <1>1, Zenon
  <2>3. CASE k < 16
    <3>1. f[k] = Append(<<>>, HexDigit(e, 97))
      BY <2>1, <2>2, <2>3, Zenon DEF Hexed
    <3>2. HexOf(0 * 16 + e, f[k])
      <4>1. PICK none : none = <<>>
        OBVIOUS
      <4>4. PICK z \in Nat : z = 0
        OBVIOUS
      <4>2. Digits(none) /\ ValueOf(none) = z
        BY <4>1, <4>4, NoDigits, Zenon
      <4>3. HexOf(z * 16 + e, Append(none, HexDigit(e, 97)))
        BY <4>2, OneDigit
      <4> QED
        BY <3>1, <4>1, <4>3, <4>4, Zenon
    <3>3. 0 * 16 + e = k
      BY <2>1, <2>3
    <3> QED
      BY <3>2, <3>3, Zenon
  <2>4. CASE ~(k < 16)
    <3>1. f[k] = Append(f[q], HexDigit(e, 97))
      BY <2>1, <2>2, <2>4, Zenon DEF Hexed
    <3>2. q \in 0 .. k - 1
      BY <2>1, <2>4, Quotient
    <3>3. Digits(f[q]) /\ ValueOf(f[q]) = q
      BY <1>2, <3>2, Zenon DEF HexOf
    <3>4. HexOf(q * 16 + e, f[k])
      BY <3>1, <3>3, OneDigit, Zenon
    <3> QED
      BY <2>1, <3>4, Zenon
  <2> QED
    BY <2>3, <2>4
<1>3. 0 \in S
  <2>1. HexOf(0, f[0])
    <3>1. 0 .. 0 - 1 = {}
      OBVIOUS
    <3> QED
      BY <1>2, <3>1
  <2> QED
    BY <2>1
<1>4. ASSUME NEW m \in Nat, m \in S PROVE m + 1 \in S
  <2> SUFFICES ASSUME NEW k \in 0 .. m + 1 PROVE HexOf(k, f[k])
    OBVIOUS
  <2>1. CASE k \in 0 .. m
    BY <1>4, <2>1
  <2>2. CASE k = m + 1
    <3>1. k \in Nat /\ \A i \in 0 .. k - 1 : HexOf(i, f[i])
      BY <1>4, <2>2
    <3> QED
      BY <1>2, <3>1
  <2> QED
    BY <2>1, <2>2
<1>5. HexOf(n, f[n])
  <2> HIDE DEF S
  <2>1. \A m \in Nat : m \in S => m + 1 \in S
    BY <1>4
  <2>2. n \in S
    BY <1>3, <2>1, Counting
  <2> QED
    BY <2>2 DEF S
<1> QED
  BY <1>1, <1>5, Zenon

\* A digit is no blank, no sign and no x.
LEMMA DigitIsNoMark ==
  ASSUME NEW x \in Nat, is_hex(x)
  PROVE  x \notin Blank /\ x \notin {c.plus, c.minus} /\ x \notin {88, 120}
<1>1. x \in 48 .. 57 \cup 65 .. 70 \cup 97 .. 102
  BY DEF is_hex, HexValue
<1>2. c.plus = 43 /\ c.minus = 45 /\ c.space = 32
  BY DEF c
<1> QED
  BY <1>1, <1>2 DEF Blank

\* The size of a chunk is read as it was written as long as it is below ULONG_MAX: strtoul
\* begins with the first digit and stops at the end of the line and not before. From
\* ULONG_MAX on it is refused, and never taken for a smaller one.
THEOREM ChunkSizesRoundTrip ==
  ASSUME NEW n \in Nat
  PROVE  chunk_len(from_i_to_hex(n) \o <<13, 10>>) = IF n < ULONG_MAX THEN n ELSE -1
<1>1. PICK s : s = from_i_to_hex(n)
  OBVIOUS
<1>2. s \in Seq(Nat) /\ Len(s) >= 1 /\ ValueOf(s) = n /\ \A i \in 1 .. Len(s) : is_hex(s[i])
  BY <1>1, HexIsRight DEF HexOf, Digits
<1>3. PICK l \in Nat : l = Len(s) /\ l >= 1
  BY <1>2
<1>4. PICK line : line = s \o <<13, 10>>
  OBVIOUS
<1>5. /\ line \in Seq(Nat) /\ Len(line) = l + 2 /\ line[l + 1] = 13
      /\ \A i \in 1 .. l : line[i] = s[i]
  BY <1>2, <1>3, <1>4
<1> DEFINE Stops == {i \in 1 .. Len(line) + 1 : ~is_hex(At(line, i))}
<1>6. \A i \in 1 .. l : is_hex(At(line, i))
  <2> SUFFICES ASSUME NEW i \in 1 .. l PROVE is_hex(At(line, i))
    OBVIOUS
  <2>1. At(line, i) = line[i]
    BY <1>5 DEF At
  <2> QED
    BY <1>2, <1>3, <1>5, <2>1, Zenon
<1>7. ~is_hex(At(line, l + 1))
  <2>1. At(line, l + 1) = 13
    BY <1>5 DEF At
  <2>2. ~is_hex(13)
    BY DEF is_hex, HexValue
  <2> QED
    BY <2>1, <2>2, Zenon
<1>8. l + 1 \in Stops /\ \A i \in Stops : l + 1 <= i
  BY <1>5, <1>6, <1>7
<1>9. Min(Stops) = l + 1
  <2>1. \A x \in Stops : x \in Int
    OBVIOUS
  <2> HIDE DEF Stops
  <2> QED
    BY <1>8, <2>1 DEF Min
<1>10. SubSeq(line, 1, l) = s
  <2>1. PICK t : t = SubSeq(line, 1, l)
    OBVIOUS
  <2>2. 1 \in Int /\ l \in Int /\ \A i \in 1 .. l : line[i] \in Nat
    BY <1>5
  <2>3. /\ t \in Seq(Nat) /\ Len(t) = (IF 1 <= l THEN l - 1 + 1 ELSE 0)
        /\ \A i \in 1 .. l - 1 + 1 : t[i] = line[1 + i - 1]
    BY <2>1, <2>2, SubSeqProperties
  <2>4. Len(t) = l /\ \A i \in 1 .. l : t[i] = s[i]
    BY <1>3, <1>5, <2>3
  <2>5. t = s
    BY <1>2, <1>3, <2>3, <2>4
  <2> QED
    BY <2>1, <2>5
<1>11. (l + 1) - 1 = l /\ l # 0
  BY <1>3
<1>12. At(line, 1) \notin Blank /\ At(line, 1) \notin {c.plus, c.minus}
  <2>1. At(line, 1) = s[1] /\ s[1] \in Nat /\ is_hex(s[1])
    BY <1>2, <1>3, <1>5 DEF At
  <2> QED
    BY <2>1, DigitIsNoMark, Zenon
<1>13. At(line, 1 + 1) \notin {88, 120}
  <2>1. CASE l = 1
    <3>1. At(line, 1 + 1) = 13
      BY <1>5, <2>1 DEF At
    <3> QED
      BY <3>1
  <2>2. CASE l # 1
    <3>1. 1 + 1 = 2 /\ 2 \in 1 .. l /\ 2 <= Len(line)
      BY <1>3, <1>5, <2>2
    <3>2. At(line, 2) = s[2]
      BY <1>5, <3>1, Zenon DEF At
    <3>3. s[2] \in Nat /\ is_hex(s[2])
      BY <1>2, <1>3, <3>1
    <3>4. s[2] \notin {88, 120}
      BY <3>3, DigitIsNoMark
    <3>5. At(line, 1 + 1) = s[2]
      BY <3>1, <3>2
    <3> QED
      BY <3>4, <3>5
  <2> QED
    BY <2>1, <2>2
<1> DEFINE Starts == {i \in 1 .. Len(line) + 1 : At(line, i) \notin Blank}
<1>14. Min(Starts) = 1
  <2>1. 1 \in Starts /\ \A i \in Starts : 1 <= i /\ i \in Int
    BY <1>5, <1>12
  <2> HIDE DEF Starts
  <2> QED
    BY <2>1 DEF Min
<1> DEFINE Zero(start) == IF At(line, start) \in {c.plus, c.minus} THEN start + 1 ELSE start
           Begin(zero) == IF At(line, zero) = 48 /\ At(line, zero + 1) \in {88, 120}
                             /\ is_hex(At(line, zero + 2)) THEN zero + 2 ELSE zero
           End(first)  == Min({i \in first .. Len(line) + 1 : ~is_hex(At(line, i))})
           Valued(start, first, end) ==
             LET value == ValueOf(SubSeq(line, first, end - 1))
             IN IF end = first THEN -1 ELSE
                IF value > ULONG_MAX THEN ULONG_MAX ELSE
                IF At(line, start) = c.minus THEN (ULONG_MAX + 1 - value) % (ULONG_MAX + 1) ELSE value
<1>15. strtoul(line) = Valued(Min(Starts), Begin(Zero(Min(Starts))), End(Begin(Zero(Min(Starts)))))
  BY Zenon DEF strtoul
<1>16. Zero(1) = 1
  BY <1>12, Zenon
<1>17. Begin(1) = 1
  BY <1>13, Zenon
<1>18. End(1) = l + 1
  BY <1>9
<1>19. Valued(1, 1, l + 1) = IF n > ULONG_MAX THEN ULONG_MAX ELSE n
  <2>1. ValueOf(SubSeq(line, 1, (l + 1) - 1)) = n
    BY <1>1, <1>2, <1>10, <1>11, Zenon
  <2>2. l + 1 # 1 /\ At(line, 1) # c.minus
    BY <1>11, <1>12
  <2> QED
    BY <2>1, <2>2, Zenon
<1>20. strtoul(line) = IF n > ULONG_MAX THEN ULONG_MAX ELSE n
  <2> HIDE DEF Zero, Begin, End, Valued, Starts
  <2> QED
    BY <1>14, <1>15, <1>16, <1>17, <1>18, <1>19, Zenon
<1>21. chunk_len(line) = IF n < ULONG_MAX THEN n ELSE -1
  <2>1. PICK v : v = strtoul(line)
    OBVIOUS
  <2>2. chunk_len(line) = IF v = ULONG_MAX THEN -1 ELSE v
    BY <2>1, Zenon DEF chunk_len
  <2>3. v = IF n > ULONG_MAX THEN ULONG_MAX ELSE n
    BY <1>20, <2>1, Zenon
  <2> QED
    BY <2>2, <2>3, UlongAssumption
<1> QED
  BY <1>1, <1>4, <1>21, Zenon

-----------------------------------------------------------------------------
(***************************************************************************)
(* Percent encoding                                                        *)
(***************************************************************************)
\* What a character can be
Octets == 0 .. 255

\* What decode_url makes of t from i on, g being what it makes of it further on
DecodedFrom(t, plus, g, i) ==
  IF i > Len(t) THEN <<>> ELSE
  CASE t[i] = c.percent /\ At(t, i + 1) = c.u /\ from_hex_to_i(t, i + 2, 4) >= 0
         -> to_utf8(from_hex_to_i(t, i + 2, 4)) \o g[i + 6]
    [] t[i] = c.percent /\ At(t, i + 1) # c.u /\ from_hex_to_i(t, i + 1, 2) >= 0
         -> <<from_hex_to_i(t, i + 1, 2)>> \o g[i + 3]
    [] t[i] = c.plus /\ plus -> <<c.space>> \o g[i + 1]
    [] OTHER -> <<t[i]>> \o g[i + 1]

DecodesFrom(t, plus, m, g) ==
  g = [i \in m .. Len(t) + 1 |-> DecodedFrom(t, plus, g, i)]

\* There are no digits behind the end.
LEMMA DigitsAreThere ==
  ASSUME NEW t \in Seq(Nat), NEW i \in Nat, NEW n \in Nat, n >= 1, from_hex_to_i(t, i, n) >= 0
  PROVE  i + n - 1 <= Len(t)
<1>1. PICK k \in Nat : k = i + n - 1
  OBVIOUS
<1>2. k \in i .. i + n - 1
  BY <1>1
<1>3. is_hex(At(t, k))
  <2>1. CASE \A j \in i .. i + n - 1 : is_hex(At(t, j))
    BY <1>2, <2>1, Zenon
  <2>2. CASE ~ \A j \in i .. i + n - 1 : is_hex(At(t, j))
    <3>1. from_hex_to_i(t, i, n) = -1
      BY <2>2, Zenon DEF from_hex_to_i
    <3> QED
      BY <3>1
  <2> QED
    BY <2>1, <2>2
<1>4. ~is_hex(0)
  <2>1. 0 \notin 48 .. 57 /\ 0 \notin 65 .. 70 /\ 0 \notin 97 .. 102 /\ ~(-1 >= 0)
    OBVIOUS
  <2> QED
    BY <2>1, Zenon DEF is_hex, HexValue
<1>5. k > Len(t) => At(t, k) = 0
  <2>1. k > Len(t) => ~(k <= Len(t))
    OBVIOUS
  <2>2. c.nul = 0
    BY DEF c
  <2> QED
    BY <2>1, <2>2, Zenon DEF At
<1> QED
  BY <1>1, <1>3, <1>4, <1>5

\* It depends on nothing before i.
LEMMA FurtherOn ==
  ASSUME NEW t \in Seq(Nat), NEW plus, NEW i \in Nat, i <= Len(t) + 1, NEW g, NEW h,
         \A j \in i + 1 .. Len(t) + 1 : g[j] = h[j]
  PROVE  DecodedFrom(t, plus, g, i) = DecodedFrom(t, plus, h, i)
<1>1. CASE i > Len(t)
  BY <1>1, Zenon DEF DecodedFrom
<1>2. CASE ~(i > Len(t))
  <2>1. g[i + 1] = h[i + 1]
    <3>1. i + 1 \in i + 1 .. Len(t) + 1
      BY <1>2
    <3> QED
      BY <3>1, Zenon
  <2>2. from_hex_to_i(t, i + 2, 4) >= 0 => g[i + 6] = h[i + 6]
    <3> SUFFICES ASSUME from_hex_to_i(t, i + 2, 4) >= 0 PROVE g[i + 6] = h[i + 6]
      OBVIOUS
    <3>1. i + 2 \in Nat /\ 4 \in Nat /\ 4 >= 1
      OBVIOUS
    <3>2. (i + 2) + 4 - 1 <= Len(t)
      BY <3>1, DigitsAreThere
    <3>3. i + 6 \in i + 1 .. Len(t) + 1
      BY <3>2
    <3> QED
      BY <3>3, Zenon
  <2>3. from_hex_to_i(t, i + 1, 2) >= 0 => g[i + 3] = h[i + 3]
    <3> SUFFICES ASSUME from_hex_to_i(t, i + 1, 2) >= 0 PROVE g[i + 3] = h[i + 3]
      OBVIOUS
    <3>1. i + 1 \in Nat /\ 2 \in Nat /\ 2 >= 1
      OBVIOUS
    <3>2. (i + 1) + 2 - 1 <= Len(t)
      BY <3>1, DigitsAreThere
    <3>3. i + 3 \in i + 1 .. Len(t) + 1
      BY <3>2
    <3> QED
      BY <3>3, Zenon
  <2> DEFINE U == t[i] = c.percent /\ At(t, i + 1) = c.u /\ from_hex_to_i(t, i + 2, 4) >= 0
             B == t[i] = c.percent /\ At(t, i + 1) # c.u /\ from_hex_to_i(t, i + 1, 2) >= 0
             P == t[i] = c.plus /\ plus
  <2>4. ASSUME NEW f PROVE DecodedFrom(t, plus, f, i) =
          CASE U -> to_utf8(from_hex_to_i(t, i + 2, 4)) \o f[i + 6]
            [] B -> <<from_hex_to_i(t, i + 1, 2)>> \o f[i + 3]
            [] P -> <<c.space>> \o f[i + 1]
            [] OTHER -> <<t[i]>> \o f[i + 1]
    BY <1>2, Zenon DEF DecodedFrom
  <2>5. (U => g[i + 6] = h[i + 6]) /\ (B => g[i + 3] = h[i + 3])
    BY <2>2, <2>3, Zenon
  <2> HIDE DEF U, B, P
  <2> DEFINE X(f) == to_utf8(from_hex_to_i(t, i + 2, 4)) \o f[i + 6]
             Y(f) == <<from_hex_to_i(t, i + 1, 2)>> \o f[i + 3]
             Z(f) == <<c.space>> \o f[i + 1]
             V(f) == <<t[i]>> \o f[i + 1]
  <2>6. ASSUME NEW f
        PROVE DecodedFrom(t, plus, f, i) =
                CASE U -> X(f) [] B -> Y(f) [] P -> Z(f) [] OTHER -> V(f)
    BY <2>4, Zenon
  <2>7. (U => X(g) = X(h)) /\ (B => Y(g) = Y(h)) /\ Z(g) = Z(h) /\ V(g) = V(h)
    BY <2>1, <2>5, Zenon
  <2> HIDE DEF X, Y, Z, V
  <2>8. /\ DecodedFrom(t, plus, g, i) = CASE U -> X(g) [] B -> Y(g) [] P -> Z(g) [] OTHER -> V(g)
        /\ DecodedFrom(t, plus, h, i) = CASE U -> X(h) [] B -> Y(h) [] P -> Z(h) [] OTHER -> V(h)
    BY <2>6, Zenon
  <2> QED
    BY <2>7, <2>8
<1> QED
  BY <1>1, <1>2

LEMMA DecodingExists ==
  ASSUME NEW t \in Seq(Nat), NEW plus
  PROVE  \E g : DecodesFrom(t, plus, 1, g)
<1> DEFINE S == {m \in Nat : m <= Len(t) => \E g : DecodesFrom(t, plus, Len(t) + 1 - m, g)}
<1>1. 0 \in S
  <2>1. PICK n \in Nat : n = Len(t) + 1
    OBVIOUS
  <2> DEFINE g == [i \in n .. n |-> <<>>]
  <2>2. \A i \in n .. n : DecodedFrom(t, plus, g, i) = <<>>
    <3>1. \A i \in n .. n : i > Len(t)
      BY <2>1
    <3> QED
      BY <3>1, Zenon DEF DecodedFrom
  <2>3. g = [i \in n .. n |-> DecodedFrom(t, plus, g, i)]
    <3>1. g = [i \in n .. n |-> <<>>]
      OBVIOUS
    <3> HIDE DEF g
    <3> QED
      BY <2>2, <3>1
  <2>4. Len(t) + 1 - 0 = n
    BY <2>1
  <2>5. DecodesFrom(t, plus, n, g)
    BY <2>1, <2>3, Zenon DEF DecodesFrom
  <2> QED
    BY <2>4, <2>5
<1>2. ASSUME NEW k \in Nat, k \in S PROVE k + 1 \in S
  <2> SUFFICES ASSUME k + 1 <= Len(t) PROVE \E h : DecodesFrom(t, plus, Len(t) + 1 - (k + 1), h)
    OBVIOUS
  <2>1. PICK m \in Nat : m = Len(t) - k
    OBVIOUS
  <2>2. m <= Len(t) /\ Len(t) + 1 - (k + 1) = m /\ Len(t) + 1 - k = m + 1 /\ k <= Len(t)
    BY <2>1
  <2>3. PICK g : DecodesFrom(t, plus, m + 1, g)
    BY <1>2, <2>2
  <2>4. \A i \in m + 1 .. Len(t) + 1 : g[i] = DecodedFrom(t, plus, g, i)
    BY <2>3, Zenon DEF DecodesFrom
  <2> DEFINE h == [i \in m .. Len(t) + 1 |-> IF i = m THEN DecodedFrom(t, plus, g, m) ELSE g[i]]
  <2>5. h = [i \in m .. Len(t) + 1 |-> h[i]]
    OBVIOUS
  <2>6. h[m] = DecodedFrom(t, plus, g, m)
    <3>1. m \in m .. Len(t) + 1
      BY <2>2
    <3> QED
      BY <3>1, Zenon
  <2>7. \A i \in m + 1 .. Len(t) + 1 : h[i] = g[i]
    <3>1. \A i \in m + 1 .. Len(t) + 1 : i \in m .. Len(t) + 1 /\ i # m
      OBVIOUS
    <3> QED
      BY <3>1, Zenon
  <2> HIDE DEF h
  <2>8. ASSUME NEW i \in m .. Len(t) + 1 PROVE h[i] = DecodedFrom(t, plus, h, i)
    <3>1. /\ i \in Nat /\ i <= Len(t) + 1 /\ (i # m => i \in m + 1 .. Len(t) + 1)
          /\ \A j \in i + 1 .. Len(t) + 1 : j \in m + 1 .. Len(t) + 1
      OBVIOUS
    <3>2. \A j \in i + 1 .. Len(t) + 1 : g[j] = h[j]
      BY <2>7, <3>1, Zenon
    <3>3. DecodedFrom(t, plus, g, i) = DecodedFrom(t, plus, h, i)
      BY <3>1, <3>2, FurtherOn
    <3>4. h[i] = DecodedFrom(t, plus, g, i)
      BY <2>4, <2>6, <2>7, <3>1, Zenon
    <3> QED
      BY <3>3, <3>4, Zenon
  <2>9. DecodesFrom(t, plus, m, h)
    BY <2>5, <2>8, Zenon DEF DecodesFrom
  <2> QED
    BY <2>2, <2>9
<1>3. PICK n \in Nat : n = Len(t)
  OBVIOUS
<1>4. n \in S
  <2> HIDE DEF S
  <2>1. \A k \in Nat : k \in S => k + 1 \in S
    BY <1>2
  <2> QED
    BY <1>1, <2>1, Counting
<1>5. n <= Len(t) /\ Len(t) + 1 - n = 1
  BY <1>3
<1> QED
  BY <1>4, <1>5

\* All that it makes of t
Decoding(t, plus, g) == \A i \in 1 .. Len(t) + 1 : g[i] = DecodedFrom(t, plus, g, i)

LEMMA DecodeSays ==
  ASSUME NEW t \in Seq(Nat), NEW plus
  PROVE  \E g : decode_url(t, plus) = g[1] /\ Decoding(t, plus, g)
<1> DEFINE g == CHOOSE f : DecodesFrom(t, plus, 1, f)
<1>1. DecodesFrom(t, plus, 1, g)
  BY DecodingExists, Zenon
<1>2. decode_url(t, plus) = g[1]
  BY Zenon DEF decode_url, DecodesFrom, DecodedFrom
<1> HIDE DEF g
<1>3. Decoding(t, plus, g)
  BY <1>1, Zenon DEF DecodesFrom, Decoding
<1> QED
  BY <1>2, <1>3

\* The value of two digits
LEMMA TwoDigits ==
  ASSUME NEW t \in Seq(Nat), NEW i \in Nat, i >= 1, i + 1 <= Len(t), NEW a \in 0 .. 15, NEW b \in 0 .. 15,
         t[i] = HexDigit(a, 65), t[i + 1] = HexDigit(b, 65)
  PROVE  from_hex_to_i(t, i, 2) = a * 16 + b
<1>1. 65 \in {65, 97}
  OBVIOUS
<1>2. /\ HexValue(t[i]) = a /\ is_hex(t[i])
      /\ HexValue(t[i + 1]) = b /\ is_hex(t[i + 1])
  <2>1. /\ HexValue(HexDigit(a, 65)) = a /\ is_hex(HexDigit(a, 65))
        /\ HexValue(HexDigit(b, 65)) = b /\ is_hex(HexDigit(b, 65))
    BY <1>1, DigitSays, Zenon
  <2> QED
    BY <2>1, Zenon
<1>3. \A k \in i .. i + 2 - 1 : is_hex(At(t, k))
  <2> SUFFICES ASSUME NEW k \in i .. i + 2 - 1 PROVE is_hex(At(t, k))
    OBVIOUS
  <2>1. (k = i \/ k = i + 1) /\ k <= Len(t)
    OBVIOUS
  <2> QED
    BY <1>2, <2>1, Zenon DEF At
<1>4. PICK w : w = SubSeq(t, i, i + 2 - 1)
  OBVIOUS
<1>5. PICK one \in Nat, two \in Nat : one = 0 + 1 /\ two = one + 1
  OBVIOUS
<1>6. DOMAIN w = 1 .. two /\ w[one] = t[i] /\ w[two] = t[i + 1]
  BY <1>4, <1>5
<1> DEFINE none == <<>>
           v == [k \in 1 .. one |-> w[k]]
<1>7. DOMAIN none = 1 .. 0 /\ ValueOf(none) = 0
  BY NoDigits
<1>8. DOMAIN v = 1 .. one /\ v[one] = w[one] /\ \A k \in 1 .. one : w[k] = v[k]
  BY <1>5
<1> HIDE DEF v, none
<1>9. ValueOf(v) = ValueOf(none) * 16 + HexValue(v[one])
  <2>1. PICK m \in Nat : m = 0 /\ one = m + 1
    BY <1>5
  <2>2. DOMAIN none = 1 .. m /\ DOMAIN v = 1 .. m + 1 /\ \A k \in 1 .. m : v[k] = none[k]
    BY <1>7, <1>8, <2>1
  <2>3. ValueOf(v) = ValueOf(none) * 16 + HexValue(v[m + 1])
    BY <2>2, ValueOfMore
  <2> QED
    BY <2>1, <2>3, Zenon
<1>10. ValueOf(w) = ValueOf(v) * 16 + HexValue(w[two])
  <2>1. DOMAIN w = 1 .. one + 1
    BY <1>5, <1>6, Zenon
  <2>2. ValueOf(w) = ValueOf(v) * 16 + HexValue(w[one + 1])
    BY <1>5, <1>8, <2>1, ValueOfMore
  <2> QED
    BY <1>5, <2>2, Zenon
<1>11. ValueOf(v) = a
  <2>1. HexValue(v[one]) = a
    BY <1>2, <1>6, <1>8, Zenon
  <2>2. ValueOf(v) = 0 * 16 + a
    BY <1>7, <1>9, <2>1, Zenon
  <2> QED
    BY <2>2
<1>12. ValueOf(w) = a * 16 + b
  <2>1. HexValue(w[two]) = b
    BY <1>2, <1>6, Zenon
  <2> QED
    BY <1>10, <1>11, <2>1, Zenon
<1> QED
  BY <1>3, <1>4, <1>12, Zenon DEF from_hex_to_i

\* ss is s, character by character, each encoded or left as it is if that can be read back.
Coded(s, ss, plus) ==
  /\ s \in Seq(Octets) /\ ss \in Seq(Seq(Nat)) /\ Len(ss) = Len(s)
  /\ \A i \in 1 .. Len(s) : \/ ss[i] = Percent(s[i])
                            \/ ss[i] = <<s[i]>> /\ s[i] # c.percent /\ ~(s[i] = c.plus /\ plus)

LEMMA PercentSays ==
  ASSUME NEW x \in Octets
  PROVE  \E a \in 0 .. 15, b \in 0 .. 15 :
           x = a * 16 + b /\ Percent(x) = <<c.percent, HexDigit(a, 65), HexDigit(b, 65)>>
<1>1. x \div 16 \in 0 .. 15 /\ x % 16 \in 0 .. 15 /\ x = (x \div 16) * 16 + (x % 16)
  BY DEF Octets
<1> QED
  BY <1>1, Zenon DEF Percent

\* A character that is encoded
EncodedAt(t, p, x) == p + 3 <= Len(t) /\ x \in Octets /\ Occurs(t, Percent(x), p)

\* is decoded,
LEMMA ReadsPercent ==
  ASSUME NEW t \in Seq(Nat), NEW plus, NEW g, NEW p \in Nat, NEW x, EncodedAt(t, p, x)
  PROVE  DecodedFrom(t, plus, g, p + 1) = <<x>> \o g[p + 4]
<1>0. p + 3 <= Len(t) /\ x \in Octets /\ Occurs(t, Percent(x), p)
  BY DEF EncodedAt
<1>1. PICK a \in 0 .. 15, b \in 0 .. 15 :
        x = a * 16 + b /\ Percent(x) = <<c.percent, HexDigit(a, 65), HexDigit(b, 65)>>
  BY <1>0, PercentSays
<1>2. t[p + 1] = c.percent /\ t[p + 2] = HexDigit(a, 65) /\ t[p + 3] = HexDigit(b, 65)
  <2>1. PICK w : w = Percent(x)
    OBVIOUS
  <2>2. Len(w) = 3 /\ w[1] = c.percent /\ w[2] = HexDigit(a, 65) /\ w[3] = HexDigit(b, 65)
    BY <1>1, <2>1
  <2>3. 1 \in 1 .. Len(w) /\ 2 \in 1 .. Len(w) /\ 3 \in 1 .. Len(w)
    BY <2>2
  <2>4. t[p + 1] = w[1] /\ t[p + 2] = w[2] /\ t[p + 3] = w[3]
    BY <1>0, <2>1, <2>3, Zenon DEF Occurs
  <2> QED
    BY <2>2, <2>4, Zenon
<1>3. PICK q \in Nat : q = p + 1
  BY <1>0
<1>4. q + 1 = p + 2 /\ (q + 1) + 1 = p + 3 /\ q + 3 = p + 4 /\ ~(q > Len(t)) /\ q + 1 <= Len(t)
      /\ q + 1 \in Nat /\ q + 1 >= 1 /\ (q + 1) + 1 <= Len(t)
  BY <1>0, <1>3
<1>5. from_hex_to_i(t, q + 1, 2) = x
  <2>1. t[q + 1] = HexDigit(a, 65) /\ t[(q + 1) + 1] = HexDigit(b, 65)
    BY <1>2, <1>4, Zenon
  <2> QED
    BY <1>1, <1>4, <2>1, TwoDigits
<1>6. At(t, q + 1) # c.u
  <2>1. c.u = 117 /\ 65 \in {65, 97}
    BY DEF c
  <2>2. HexDigit(a, 65) # 117
    BY <2>1, DigitSays
  <2> QED
    BY <1>2, <1>4, <2>1, <2>2, Zenon DEF At
<1>7. x >= 0 /\ t[q] = c.percent
  BY <1>0, <1>2, <1>3 DEF Octets
<1>8. DecodedFrom(t, plus, g, q) = <<x>> \o g[q + 3]
  <2> DEFINE U == t[q] = c.percent /\ At(t, q + 1) = c.u /\ from_hex_to_i(t, q + 2, 4) >= 0
             B == t[q] = c.percent /\ At(t, q + 1) # c.u /\ from_hex_to_i(t, q + 1, 2) >= 0
             P == t[q] = c.plus /\ plus
             X == to_utf8(from_hex_to_i(t, q + 2, 4)) \o g[q + 6]
             Y == <<from_hex_to_i(t, q + 1, 2)>> \o g[q + 3]
             Z == <<c.space>> \o g[q + 1]
             V == <<t[q]>> \o g[q + 1]
  <2>1. DecodedFrom(t, plus, g, q) = CASE U -> X [] B -> Y [] P -> Z [] OTHER -> V
    BY <1>4, Zenon DEF DecodedFrom
  <2>2. ~U /\ B
    BY <1>5, <1>6, <1>7, Zenon
  <2>3. ~P
    <3>1. c.percent # c.plus
      BY DEF c
    <3> QED
      BY <1>7, <3>1, Zenon
  <2>4. Y = <<x>> \o g[q + 3]
    BY <1>5, Zenon
  <2> HIDE DEF U, B, P, X, Y, Z, V
  <2> QED
    BY <2>1, <2>2, <2>3, <2>4
<1> QED
  BY <1>3, <1>4, <1>8, Zenon

\* and one that is not is taken as it is.
LEMMA ReadsPlain ==
  ASSUME NEW t \in Seq(Nat), NEW plus, NEW g, NEW p \in Nat, p + 1 <= Len(t),
         t[p + 1] # c.percent, ~(t[p + 1] = c.plus /\ plus)
  PROVE  DecodedFrom(t, plus, g, p + 1) = <<t[p + 1]>> \o g[p + 2]
<1>1. PICK q \in Nat : q = p + 1
  OBVIOUS
<1>2. ~(q > Len(t)) /\ q + 1 = p + 2
  BY <1>1
<1> DEFINE U == t[q] = c.percent /\ At(t, q + 1) = c.u /\ from_hex_to_i(t, q + 2, 4) >= 0
           B == t[q] = c.percent /\ At(t, q + 1) # c.u /\ from_hex_to_i(t, q + 1, 2) >= 0
           P == t[q] = c.plus /\ plus
           X == to_utf8(from_hex_to_i(t, q + 2, 4)) \o g[q + 6]
           Y == <<from_hex_to_i(t, q + 1, 2)>> \o g[q + 3]
           Z == <<c.space>> \o g[q + 1]
           V == <<t[q]>> \o g[q + 1]
<1>3. DecodedFrom(t, plus, g, q) = CASE U -> X [] B -> Y [] P -> Z [] OTHER -> V
  BY <1>2, Zenon DEF DecodedFrom
<1>4. ~U /\ ~B /\ ~P
  BY <1>1, Zenon
<1> HIDE DEF U, B, P, X, Y, Z
<1>5. DecodedFrom(t, plus, g, q) = V
  BY <1>3, <1>4
<1> QED
  BY <1>1, <1>2, <1>5, Zenon

LEMMA OneOfFrom ==
  ASSUME NEW A, NEW s \in Seq(A), NEW i \in Nat, i < Len(s)
  PROVE  <<s[i + 1]>> \o From(s, i + 1) = From(s, i)
BY DEF From

\* The i-th character is read where it was put.
LEMMA ReadsOne ==
  ASSUME NEW s, NEW ss, NEW plus, Coded(s, ss, plus), NEW t \in Seq(Nat), NEW L, Places(ss, t, L), NEW g,
         Decoding(t, plus, g), NEW i \in 1 .. Len(s)
  PROVE  g[L[i - 1] + 1] = <<s[i]>> \o g[L[i] + 1]
<1>1. /\ s \in Seq(Octets) /\ Len(ss) = Len(s) /\ s[i] \in Octets
      /\ \/ ss[i] = Percent(s[i])
         \/ ss[i] = <<s[i]>> /\ s[i] # c.percent /\ ~(s[i] = c.plus /\ plus)
  BY DEF Coded
<1>2. PICK p \in Nat, e \in Nat : p = L[i - 1] /\ e = L[i]
  <2>1. i - 1 \in 0 .. Len(ss) /\ i \in 0 .. Len(ss)
    BY <1>1
  <2> QED
    BY <2>1 DEF Places
<1>3. e = p + Len(ss[i]) /\ e <= Len(t) /\ Occurs(t, ss[i], p)
  <2>1. i \in 1 .. Len(ss)
    BY <1>1
  <2> QED
    BY <1>2, <2>1, Zenon DEF Places
<1>4. CASE ss[i] = Percent(s[i])
  <2>1. Len(ss[i]) = 3
    BY <1>4 DEF Percent
  <2>2. e = p + 3 /\ p + 3 <= Len(t) /\ p + 4 = e + 1 /\ p + 1 \in 1 .. Len(t) + 1
    BY <1>3, <2>1
  <2>3. DecodedFrom(t, plus, g, p + 1) = <<s[i]>> \o g[p + 4]
    <3>1. EncodedAt(t, p, s[i])
      BY <1>1, <1>2, <1>3, <1>4, <2>2, Zenon DEF EncodedAt
    <3> QED
      BY <3>1, ReadsPercent
  <2> QED
    BY <1>2, <2>2, <2>3, Zenon DEF Decoding
<1>5. CASE ss[i] = <<s[i]>> /\ s[i] # c.percent /\ ~(s[i] = c.plus /\ plus)
  <2>1. PICK w : w = ss[i]
    OBVIOUS
  <2>2. Len(w) = 1 /\ w[1] = s[i] /\ 1 \in 1 .. Len(w)
    BY <1>5, <2>1
  <2>3. t[p + 1] = s[i]
    <3>1. Occurs(t, w, p)
      BY <1>3, <2>1, Zenon
    <3> QED
      BY <2>2, <3>1, Zenon DEF Occurs
  <2>4. e = p + 1 /\ p + 1 <= Len(t) /\ p + 2 = e + 1 /\ p + 1 \in 1 .. Len(t) + 1
    BY <1>3, <2>1, <2>2
  <2>5. DecodedFrom(t, plus, g, p + 1) = <<t[p + 1]>> \o g[p + 2]
    <3>1. t[p + 1] # c.percent /\ ~(t[p + 1] = c.plus /\ plus)
      BY <1>5, <2>3, Zenon
    <3> QED
      BY <2>4, <3>1, ReadsPlain
  <2> QED
    BY <1>2, <2>3, <2>4, <2>5, Zenon DEF Decoding
<1> QED
  BY <1>1, <1>4, <1>5

LEMMA DecodesCoded ==
  ASSUME NEW s, NEW ss, NEW plus, Coded(s, ss, plus)
  PROVE  decode_url(FlattenSeq(ss), plus) = s
<1>1. s \in Seq(Octets) /\ ss \in Seq(Seq(Nat)) /\ Len(ss) = Len(s)
  BY Zenon DEF Coded
<1>2. PICK t : t = FlattenSeq(ss)
  OBVIOUS
<1>3. t \in Seq(Nat) /\ \E L : Places(ss, t, L)
  BY <1>1, <1>2, Flattened
<1>4. PICK L : Places(ss, t, L)
  BY <1>3
<1>5. PICK g : decode_url(t, plus) = g[1] /\ Decoding(t, plus, g)
  BY <1>3, DecodeSays
<1>6. PICK n \in Nat : n = Len(s)
  BY <1>1
<1> DEFINE S == {k \in Nat : k <= n => g[L[n - k] + 1] = From(s, n - k)}
<1>7. 0 \in S
  <2>1. n - 0 = n /\ L[n] = Len(t)
    BY <1>1, <1>4, <1>6 DEF Places
  <2>2. g[Len(t) + 1] = <<>>
    <3>1. Len(t) + 1 \in 1 .. Len(t) + 1 /\ Len(t) + 1 > Len(t)
      BY <1>3
    <3> QED
      BY <1>5, <3>1, Zenon DEF DecodedFrom, Decoding
  <2>3. From(s, n) = <<>>
    BY <1>1, <1>6 DEF From
  <2> QED
    BY <2>1, <2>2, <2>3
<1>8. ASSUME NEW k \in Nat, k \in S PROVE k + 1 \in S
  <2> SUFFICES ASSUME k + 1 <= n PROVE g[L[n - (k + 1)] + 1] = From(s, n - (k + 1))
    OBVIOUS
  <2>1. PICK i \in 1 .. Len(s) : i = n - k
    BY <1>6
  <2>2. PICK j \in Nat : j = n - (k + 1)
    OBVIOUS
  <2>3. i = j + 1 /\ i - 1 = j /\ j < Len(s)
    BY <1>6, <2>1, <2>2
  <2>4. g[L[i] + 1] = From(s, i)
    <3>1. k <= n
      OBVIOUS
    <3> QED
      BY <1>8, <2>1, <3>1
  <2>5. g[L[i - 1] + 1] = <<s[i]>> \o g[L[i] + 1]
    BY <1>3, <1>4, <1>5, ReadsOne
  <2>6. <<s[j + 1]>> \o From(s, j + 1) = From(s, j)
    BY <1>1, <2>3, OneOfFrom
  <2>7. g[L[j] + 1] = From(s, j)
    BY <2>3, <2>4, <2>5, <2>6, Zenon
  <2> QED
    BY <2>2, <2>7, Zenon
<1>9. n \in S
  <2> HIDE DEF S
  <2>1. \A k \in Nat : k \in S => k + 1 \in S
    BY <1>8
  <2> QED
    BY <1>7, <2>1, Counting
<1>10. g[L[0] + 1] = From(s, 0)
  <2>1. n <= n /\ n - n = 0
    OBVIOUS
  <2> QED
    BY <1>9, <2>1
<1>11. L[0] + 1 = 1
  BY <1>4 DEF Places
<1>12. From(s, 0) = s
  BY <1>1 DEF From
<1> QED
  BY <1>2, <1>5, <1>10, <1>11, <1>12, Zenon

\* A text without NUL is looked at to its end.
LEMMA NoNul ==
  ASSUME NEW s \in Seq(Octets), \A i \in 1 .. Len(s) : s[i] # c.nul
  PROVE  FindFrom(s, c.nul, 1) - 1 = Len(s)
<1>1. PICK n \in Nat : n = Len(s)
  OBVIOUS
<1>2. {j \in 1 .. Len(s) : s[j] = c.nul} \cup {Len(s) + 1} = {n + 1}
  BY <1>1
<1>3. Min({n + 1}) = n + 1
  BY DEF Min
<1>4. FindFrom(s, c.nul, 1) = n + 1
  BY <1>2, <1>3, Zenon DEF FindFrom
<1> QED
  BY <1>1, <1>4

\* What encode_query_param makes of a text of any length and any bytes, and encode_url of one
\* that has no percent sign and no NUL among them, decode_url makes that text of again.
THEOREM TextRoundTrips ==
  ASSUME NEW s \in Seq(Octets)
  PROVE  /\ decode_url(encode_query_param(s), TRUE) = s
         /\ c.percent \notin ToSet(s) /\ c.nul \notin ToSet(s) => decode_url(encode_url(s), FALSE) = s
<1>0. \A i \in 1 .. Len(s) : s[i] \in Octets
  OBVIOUS
<1>1. ASSUME NEW x \in Octets PROVE <<x>> \in Seq(Nat) /\ Percent(x) \in Seq(Nat)
  <2>1. <<x>> \in Seq(Nat)
    BY DEF Octets
  <2>2. PICK a \in 0 .. 15, b \in 0 .. 15 : Percent(x) = <<c.percent, HexDigit(a, 65), HexDigit(b, 65)>>
    BY <2>1, PercentSays, Zenon
  <2>3. c.percent \in Nat /\ HexDigit(a, 65) \in Nat /\ HexDigit(b, 65) \in Nat
    <3>1. 65 \in {65, 97} /\ c.percent \in Nat
      BY DEF c
    <3> QED
      BY <3>1, DigitSays
  <2>4. Percent(x) \in Seq(Nat)
    BY <2>2, <2>3, ThreeOf
  <2> QED
    BY <2>1, <2>4
<1>2. decode_url(encode_query_param(s), TRUE) = s
  <2> DEFINE ss == [i \in 1 .. Len(s) |-> IF s[i] \in Unreserved THEN <<s[i]>> ELSE Percent(s[i])]
  <2>1. c.percent \notin Unreserved /\ c.plus \notin Unreserved
    BY DEF c, Unreserved
  <2>2. ASSUME NEW i \in 1 .. Len(s)
        PROVE  \/ ss[i] = Percent(s[i])
               \/ ss[i] = <<s[i]>> /\ s[i] # c.percent /\ ~(s[i] = c.plus /\ TRUE)
    BY <2>1, Zenon
  <2>3. ss \in Seq(Seq(Nat)) /\ Len(ss) = Len(s)
    <3>1. \A i \in 1 .. Len(s) : ss[i] \in Seq(Nat)
      BY <1>0, <1>1, Zenon
    <3>2. ss = [i \in 1 .. Len(s) |-> ss[i]]
      OBVIOUS
    <3> HIDE DEF ss
    <3> QED
      BY <3>1, <3>2
  <2>4. FlattenSeq(ss) = encode_query_param(s)
    BY Zenon DEF encode_query_param
  <2> HIDE DEF ss
  <2>5. Coded(s, ss, TRUE)
    BY <2>2, <2>3, Zenon DEF Coded
  <2>6. decode_url(FlattenSeq(ss), TRUE) = s
    BY <2>5, DecodesCoded
  <2> QED
    BY <2>4, <2>6, Zenon
<1>3. ASSUME c.percent \notin ToSet(s), c.nul \notin ToSet(s) PROVE decode_url(encode_url(s), FALSE) = s
  <2> DEFINE ss == [i \in 1 .. Len(s) |->
                      IF s[i] \in {32, 43, 13, 10, 39, 44, 59} \cup 128 .. 255
                      THEN Percent(s[i]) ELSE <<s[i]>>]
  <2>1. \A i \in 1 .. Len(s) : s[i] # c.percent
    BY <1>3 DEF ToSet
  <2>2. ASSUME NEW i \in 1 .. Len(s)
        PROVE  \/ ss[i] = Percent(s[i])
               \/ ss[i] = <<s[i]>> /\ s[i] # c.percent /\ ~(s[i] = c.plus /\ FALSE)
    BY <2>1, Zenon
  <2>3. ss \in Seq(Seq(Nat)) /\ Len(ss) = Len(s)
    <3>1. \A i \in 1 .. Len(s) : ss[i] \in Seq(Nat)
      BY <1>0, <1>1, Zenon
    <3>2. ss = [i \in 1 .. Len(s) |-> ss[i]]
      OBVIOUS
    <3> HIDE DEF ss
    <3> QED
      BY <3>1, <3>2
  <2>4. FlattenSeq(ss) = encode_url(s)
    <3>1. \A i \in 1 .. Len(s) : s[i] # c.nul
      BY <1>3 DEF ToSet
    <3>2. FindFrom(s, c.nul, 1) - 1 = Len(s)
      BY <3>1, NoNul
    <3> QED
      BY <3>2, Zenon DEF encode_url
  <2> HIDE DEF ss
  <2>5. Coded(s, ss, FALSE)
    BY <2>2, <2>3, Zenon DEF Coded
  <2>6. decode_url(FlattenSeq(ss), FALSE) = s
    BY <2>5, DecodesCoded
  <2> QED
    BY <2>4, <2>6, Zenon
<1> QED
  BY <1>2, <1>3

-----------------------------------------------------------------------------
(***************************************************************************)
(* Patterns with parameters                                                *)
(***************************************************************************)
\* Where the k-th fragment ends, its parameter too, and where the next one is expected
Behind(m, k, pos) == pos + Len(m.fragments[k])
Slash(m, path, k, pos) == FindFrom(path, c.slash, Behind(m, k, pos))
Onward(m, path, k, pos) == IF k > Len(m.names) THEN Behind(m, k, pos) ELSE Slash(m, path, k, pos) + 1

\* What match makes of the path from pos on, row being what it makes of the fragments
\* behind the k-th
MatchedBy(m, path, row, k, pos) ==
  IF k > Len(m.fragments)
  THEN IF pos > Len(path) THEN <<>> ELSE NoMatch
  ELSE IF Behind(m, k, pos) - 1 > Len(path)
            \/ SubSeq(path, pos, Behind(m, k, pos) - 1) # m.fragments[k] THEN NoMatch
       ELSE IF k > Len(m.names) \/ row[Onward(m, path, k, pos)] = NoMatch
            THEN row[Onward(m, path, k, pos)]
            ELSE <<SubSeq(path, Behind(m, k, pos), Slash(m, path, k, pos) - 1)>>
                   \o row[Onward(m, path, k, pos)]

Row(m, path, row, k) == [pos \in 1 .. Len(path) + 2 |-> MatchedBy(m, path, row, k, pos)]

MatchesFrom(m, path, low, g) ==
  g = [k \in low .. Len(m.fragments) + 1 |-> Row(m, path, g[k + 1], k)]

\* p is the first place of x in s from i on, or one past the end.
Found(s, x, i, p) ==
  /\ p \in Nat /\ i <= p /\ p <= Len(s) + 1
  /\ p <= Len(s) => s[p] = x
  /\ \A j \in Nat : i <= j /\ j < p => s[j] # x

LEMMA FindSays ==
  ASSUME NEW s \in Seq(Nat), NEW x, NEW i \in Nat, i >= 1, i <= Len(s) + 1
  PROVE  Found(s, x, i, FindFrom(s, x, i))
<1> DEFINE P == {j \in i .. Len(s) : s[j] = x} \cup {Len(s) + 1}
<1>1. P \subseteq Nat /\ P # {}
  OBVIOUS
<1>2. \A j \in P : i <= j /\ j <= Len(s) + 1 /\ (j <= Len(s) => s[j] = x)
  OBVIOUS
<1>3. \A j \in Nat : i <= j /\ j <= Len(s) /\ s[j] = x => j \in P
  OBVIOUS
<1>4. FindFrom(s, x, i) = Min(P)
  BY Zenon DEF FindFrom
<1> HIDE DEF P
<1>5. PICK q \in P : \A y \in P : q <= y
  <2>1. \E z \in P : \A y \in P : ~(<<y, z>> \in OpToRel(<, Nat))
    BY <1>1, WFMin, NatLessThanWellFounded, Zenon
  <2>2. \A y, z \in Nat : y < z => <<y, z>> \in OpToRel(<, Nat)
    BY DEF OpToRel
  <2>3. PICK u \in P : \A y \in P : ~(<<y, u>> \in OpToRel(<, Nat))
    BY <2>1, Zenon
  <2>4. \A y \in P : ~(y < u)
    BY <1>1, <2>2, <2>3, Zenon
  <2> QED
    BY <1>1, <2>4
<1>6. Min(P) \in P /\ \A y \in P : Min(P) <= y
  <2>1. \E z \in P : \A y \in P : z <= y
    BY <1>5
  <2> QED
    BY <2>1, Zenon DEF Min
<1>7. PICK p : p = Min(P)
  OBVIOUS
<1>8. p \in Nat /\ i <= p /\ p <= Len(s) + 1 /\ (p <= Len(s) => s[p] = x)
  BY <1>1, <1>2, <1>6, <1>7
<1>9. ASSUME NEW j \in Nat, i <= j, j < p PROVE s[j] # x
  <2> SUFFICES ASSUME s[j] = x PROVE FALSE
    OBVIOUS
  <2>1. j <= Len(s)
    BY <1>8, <1>9
  <2>2. j \in P
    BY <1>3, <1>9, <2>1
  <2>3. p <= j
    BY <1>6, <1>7, <2>2
  <2> QED
    BY <1>8, <1>9, <2>3
<1> QED
  BY <1>4, <1>7, <1>8, <1>9, Zenon DEF Found

LEMMA FoundOnce ==
  ASSUME NEW s \in Seq(Nat), NEW x, NEW i \in Nat, NEW p, Found(s, x, i, p), NEW q, Found(s, x, i, q)
  PROVE  p = q
<1>1. p \in Nat /\ q \in Nat
  BY DEF Found
<1>2. CASE p < q
  BY <1>1, <1>2 DEF Found
<1>3. CASE q < p
  BY <1>1, <1>3 DEF Found
<1> QED
  BY <1>1, <1>2, <1>3

\* A pattern cut at its parameters: what the k-th stands behind is the k-th fragment.
IsMatcher(m) ==
  /\ m.fragments \in Seq(Seq(Nat)) /\ m.names \in Seq(Seq(Nat))
  /\ Len(m.fragments) \in {Len(m.names), Len(m.names) + 1}

Fits(m, path, k, pos) ==
  /\ ~(Behind(m, k, pos) - 1 > Len(path))
  /\ SubSeq(path, pos, Behind(m, k, pos) - 1) = m.fragments[k]

LEMMA GoesOn ==
  ASSUME NEW m, IsMatcher(m), NEW path \in Seq(Nat), NEW k \in 1 .. Len(m.fragments),
         NEW pos \in Nat, pos >= 1, ~(Behind(m, k, pos) - 1 > Len(path))
  PROVE  /\ Behind(m, k, pos) \in Nat /\ pos <= Behind(m, k, pos)
         /\ Found(path, c.slash, Behind(m, k, pos), Slash(m, path, k, pos))
         /\ Onward(m, path, k, pos) \in 1 .. Len(path) + 2
<1>1. m.fragments[k] \in Seq(Nat)
  BY DEF IsMatcher
<1>2. Behind(m, k, pos) \in Nat /\ pos <= Behind(m, k, pos) /\ Behind(m, k, pos) <= Len(path) + 1
  BY <1>1 DEF Behind
<1>3. PICK b \in Nat : b = Behind(m, k, pos) /\ b >= 1 /\ b <= Len(path) + 1
  BY <1>2
<1>4. Found(path, c.slash, b, FindFrom(path, c.slash, b))
  BY <1>3, FindSays
<1>5. Found(path, c.slash, Behind(m, k, pos), Slash(m, path, k, pos))
  BY <1>3, <1>4, Zenon DEF Slash
<1>6. PICK p \in Nat : p = Slash(m, path, k, pos) /\ p <= Len(path) + 1
  BY <1>5 DEF Found
<1>7. Onward(m, path, k, pos) = b \/ Onward(m, path, k, pos) = p + 1
  BY <1>3, <1>6, Zenon DEF Onward
<1>8. Onward(m, path, k, pos) \in 1 .. Len(path) + 2
  BY <1>3, <1>6, <1>7
<1> QED
  BY <1>2, <1>5, <1>8

\* One turn of match
LEMMA TurnOfMatch ==
  ASSUME NEW m, NEW path, NEW row, NEW k \in 1 .. Len(m.fragments), NEW pos
  PROVE  MatchedBy(m, path, row, k, pos) =
           IF ~Fits(m, path, k, pos) THEN NoMatch
           ELSE IF k > Len(m.names) \/ row[Onward(m, path, k, pos)] = NoMatch
                THEN row[Onward(m, path, k, pos)]
                ELSE <<SubSeq(path, Behind(m, k, pos), Slash(m, path, k, pos) - 1)>>
                       \o row[Onward(m, path, k, pos)]
<1>1. ~(k > Len(m.fragments))
  OBVIOUS
<1> QED
  BY <1>1, Zenon DEF MatchedBy, Fits

\* Behind the last fragment nothing depends on what is made of more.
LEMMA LastRow ==
  ASSUME NEW m, NEW path, NEW k, k > Len(m.fragments), NEW g, NEW h
  PROVE  Row(m, path, g, k) = Row(m, path, h, k)
<1>1. ASSUME NEW pos PROVE MatchedBy(m, path, g, k, pos) = MatchedBy(m, path, h, k, pos)
  BY Zenon DEF MatchedBy
<1> QED
  BY <1>1, Zenon DEF Row

LEMMA MatchingExists ==
  ASSUME NEW m, IsMatcher(m), NEW path
  PROVE  \E g : MatchesFrom(m, path, 1, g)
<1>1. PICK n \in Nat : n = Len(m.fragments)
  BY DEF IsMatcher
<1> DEFINE Upward(low, g) == g = [k \in low .. n + 1 |-> Row(m, path, g[k + 1], k)]
           S == {j \in Nat : j <= n => \E g : Upward(n + 1 - j, g)}
<1>2. 0 \in S
  <2>1. PICK l \in Nat : l = n + 1 - 0 /\ l = n + 1 /\ l > n
    OBVIOUS
  <2> DEFINE g == [k \in l .. l |-> Row(m, path, <<>>, k)]
  <2>2. g = [k \in l .. l |-> Row(m, path, g[k + 1], k)]
    <3>1. \A k \in l .. l : k > Len(m.fragments)
      BY <1>1, <2>1
    <3>2. \A k \in l .. l : Row(m, path, <<>>, k) = Row(m, path, g[k + 1], k)
      BY <3>1, LastRow, Zenon
    <3>3. g = [k \in l .. l |-> Row(m, path, <<>>, k)]
      OBVIOUS
    <3> HIDE DEF g
    <3> QED
      BY <3>2, <3>3, Zenon
  <2> HIDE DEF g
  <2>3. Upward(l, g)
    BY <2>1, <2>2, Zenon
  <2> QED
    BY <2>1, <2>3
<1>3. ASSUME NEW j \in Nat, j \in S PROVE j + 1 \in S
  <2> SUFFICES ASSUME j + 1 <= n PROVE \E h : Upward(n + 1 - (j + 1), h)
    OBVIOUS
  <2>1. PICK l \in Nat : l = n + 1 - (j + 1) /\ l + 1 = n + 1 - j /\ l <= n
    OBVIOUS
  <2>2. PICK g : Upward(l + 1, g)
    <3>1. j <= n
      OBVIOUS
    <3> QED
      BY <1>3, <2>1, <3>1
  <2> HIDE DEF S
  <2>3. \A k \in l + 1 .. n + 1 : g[k] = Row(m, path, g[k + 1], k)
    BY <2>2, Zenon
  <2> DEFINE h == [k \in l .. n + 1 |-> IF k = l THEN Row(m, path, g[l + 1], l) ELSE g[k]]
  <2>4. h = [k \in l .. n + 1 |-> h[k]]
    OBVIOUS
  <2>5. h[l] = Row(m, path, g[l + 1], l)
    <3>1. l \in l .. n + 1
      BY <2>1
    <3> QED
      BY <3>1, Zenon
  <2>6. \A k \in l + 1 .. n + 1 : h[k] = g[k]
    <3>1. \A k \in l + 1 .. n + 1 : k \in l .. n + 1 /\ k # l
      OBVIOUS
    <3> QED
      BY <3>1, Zenon
  <2> HIDE DEF h
  <2>7. ASSUME NEW k \in l .. n + 1 PROVE h[k] = Row(m, path, h[k + 1], k)
    <3>1. h[k] = Row(m, path, g[k + 1], k)
      <4>1. k # l => k \in l + 1 .. n + 1
        OBVIOUS
      <4> QED
        BY <2>3, <2>5, <2>6, <4>1, Zenon
    <3>2. CASE k = n + 1
      <4>1. k > Len(m.fragments)
        BY <1>1, <3>2
      <4> QED
        BY <3>1, <4>1, LastRow, Zenon
    <3>3. CASE k # n + 1
      <4>1. k + 1 \in l + 1 .. n + 1
        BY <3>3
      <4> QED
        BY <2>6, <3>1, <4>1, Zenon
    <3> QED
      BY <3>2, <3>3
  <2>8. Upward(l, h)
    BY <2>4, <2>7, Zenon
  <2> QED
    BY <2>1, <2>8
<1>4. n \in S
  <2> HIDE DEF S
  <2>1. \A j \in Nat : j \in S => j + 1 \in S
    BY <1>3
  <2> QED
    BY <1>2, <2>1, Counting
<1>5. n <= n /\ n + 1 - n = 1
  OBVIOUS
<1>6. PICK g : Upward(1, g)
  BY <1>4, <1>5
<1> QED
  BY <1>1, <1>6, Zenon DEF MatchesFrom

\* All that match makes of the path
Matching(m, path, g) ==
  \A k \in 1 .. Len(m.fragments) + 1, pos \in 1 .. Len(path) + 2 :
    g[k][pos] = MatchedBy(m, path, g[k + 1], k, pos)

LEMMA MatchSays ==
  ASSUME NEW m, IsMatcher(m), NEW path
  PROVE  \E g : match(m, path) = g[1][1] /\ Matching(m, path, g)
<1> DEFINE g == CHOOSE f : MatchesFrom(m, path, 1, f)
<1>1. MatchesFrom(m, path, 1, g)
  BY MatchingExists, Zenon
<1>2. match(m, path) = g[1][1]
  BY Zenon DEF match, MatchesFrom, Row, MatchedBy, Behind, Slash, Onward
<1> HIDE DEF g
<1>3. ASSUME NEW k \in 1 .. Len(m.fragments) + 1, NEW pos \in 1 .. Len(path) + 2
      PROVE  g[k][pos] = MatchedBy(m, path, g[k + 1], k, pos)
  <2>1. g[k] = Row(m, path, g[k + 1], k)
    BY <1>1, Zenon DEF MatchesFrom
  <2>2. Row(m, path, g[k + 1], k)[pos] = MatchedBy(m, path, g[k + 1], k, pos)
    BY Zenon DEF Row
  <2> QED
    BY <2>1, <2>2, Zenon
<1>4. Matching(m, path, g)
  BY <1>3, Zenon DEF Matching
<1> QED
  BY <1>2, <1>4

\* Where the fragments are looked for, one after the other
Course(m, path, n, P) ==
  P[1] = 1 /\ \A k \in 1 .. n : P[k + 1] = Onward(m, path, k, P[k])

LEMMA CourseExists ==
  ASSUME NEW m, NEW path, NEW n \in Nat PROVE \E P : Course(m, path, n, P)
<1> DEFINE S == {j \in Nat : \E P : Course(m, path, j, P)}
<1>1. 0 \in S
  <2> DEFINE P == [k \in {1} |-> 1]
  <2>1. P[1] = 1 /\ 1 .. 0 = {}
    OBVIOUS
  <2> HIDE DEF P
  <2>2. Course(m, path, 0, P)
    BY <2>1, Zenon DEF Course
  <2> QED
    BY <2>2
<1>2. ASSUME NEW j \in Nat, j \in S PROVE j + 1 \in S
  <2>1. PICK P : Course(m, path, j, P)
    BY <1>2
  <2>2. PICK z : z = Onward(m, path, j + 1, P[j + 1])
    OBVIOUS
  <2> DEFINE R == [k \in 1 .. j + 2 |-> IF k = j + 2 THEN z ELSE P[k]]
  <2>3. R[j + 2] = z /\ \A k \in 1 .. j + 1 : R[k] = P[k]
    OBVIOUS
  <2> HIDE DEF R
  <2>4. R[1] = 1
    <3>1. 1 \in 1 .. j + 1
      OBVIOUS
    <3> QED
      BY <2>1, <2>3, <3>1, Zenon DEF Course
  <2>5. ASSUME NEW k \in 1 .. j + 1 PROVE R[k + 1] = Onward(m, path, k, R[k])
    <3>1. CASE k = j + 1
      <4>1. k + 1 = j + 2
        BY <3>1
      <4> QED
        BY <2>2, <2>3, <3>1, <4>1, Zenon
    <3>2. CASE k # j + 1
      <4>1. k \in 1 .. j /\ k + 1 \in 1 .. j + 1
        BY <3>2
      <4> QED
        BY <2>1, <2>3, <4>1, Zenon DEF Course
    <3> QED
      BY <3>1, <3>2
  <2>6. Course(m, path, j + 1, R)
    BY <2>4, <2>5, Zenon DEF Course
  <2> QED
    BY <2>6
<1> HIDE DEF S
<1>3. \A j \in Nat : j \in S => j + 1 \in S
  BY <1>2
<1>4. n \in S
  BY <1>1, <1>3, Counting
<1> QED
  BY <1>4 DEF S

\* A path has any characters and any length.
Path(path) == path \in Seq(Nat)

\* What stands for the k-th parameter
Captured(m, path, k, pos) == SubSeq(path, Behind(m, k, pos), Slash(m, path, k, pos) - 1)

\* From the k-th on all fragments are there, and then nothing.
AllFit(m, path, P, k) ==
  /\ \A j \in k .. Len(m.fragments) : Fits(m, path, j, P[j])
  /\ P[Len(m.fragments) + 1] > Len(path)

\* The values from the k-th on
ValuesFrom(m, path, P, k) ==
  [j \in 1 .. Len(m.names) - k + 1 |-> Captured(m, path, k + j - 1, P[k + j - 1])]

\* A parameter w between b and p
CapturedIn(m, path, k, pos, w, b, p) ==
  /\ b = Behind(m, k, pos) /\ p = Slash(m, path, k, pos)
  /\ pos <= b /\ b <= p /\ p <= Len(path) + 1
  /\ w \in Seq(Nat) /\ Len(w) = p - b
  /\ \A i \in 1 .. p - b : w[i] = path[b + i - 1] /\ w[i] \in Nat /\ w[i] # c.slash

LEMMA CapturedSays ==
  ASSUME NEW m, IsMatcher(m), NEW path, Path(path), NEW k \in 1 .. Len(m.fragments),
         NEW pos \in 1 .. Len(path) + 2, Fits(m, path, k, pos),
         NEW w, w = Captured(m, path, k, pos)
  PROVE  \E b \in Nat, p \in Nat : CapturedIn(m, path, k, pos, w, b, p)
<1>0. path \in Seq(Nat)
  BY DEF Path
<1>1. /\ Behind(m, k, pos) \in Nat /\ pos <= Behind(m, k, pos)
      /\ Found(path, c.slash, Behind(m, k, pos), Slash(m, path, k, pos))
  <2>1. pos \in Nat /\ pos >= 1 /\ ~(Behind(m, k, pos) - 1 > Len(path))
    <3>1. pos \in Nat /\ pos >= 1
      BY <1>0
    <3>2. ~(Behind(m, k, pos) - 1 > Len(path))
      BY Zenon DEF Fits
    <3> QED
      BY <3>1, <3>2
  <2> QED
    BY <1>0, <2>1, GoesOn
<1>2. PICK b \in Nat : b = Behind(m, k, pos) /\ pos <= b
  BY <1>1
<1>3. PICK p \in Nat : /\ p = Slash(m, path, k, pos) /\ b <= p /\ p <= Len(path) + 1
                       /\ \A j \in Nat : b <= j /\ j < p => path[j] # c.slash
  BY <1>1, <1>2 DEF Found
<1>4. b >= 1
  BY <1>0, <1>2
<1>5. PICK e \in Nat : e = p - 1 /\ w = SubSeq(path, b, e)
  <2>1. p - 1 \in Nat
    BY <1>3, <1>4
  <2>2. w = SubSeq(path, b, p - 1)
    BY <1>2, <1>3, Zenon DEF Captured
  <2> QED
    BY <2>1, <2>2
<1>6. w \in Seq(Nat) /\ Len(w) = p - b /\ \A i \in 1 .. p - b : w[i] = path[b + i - 1]
  <2>1. b \in 1 .. Len(path) + 1 /\ e \in b - 1 .. Len(path) /\ e - b + 1 = p - b
    BY <1>0, <1>3, <1>4, <1>5
  <2>2. /\ w \in Seq(Nat) /\ Len(w) = e - b + 1
        /\ \A i \in 1 .. e - b + 1 : w[i] = path[b + i - 1]
    <3>1. w = SubSeq(path, b, e)
      BY <1>5
    <3>2. b \in Int /\ e \in Int /\ b <= e + 1
      BY <2>1
    <3>3. \A i \in b .. e : path[i] \in Nat
      <4>1. \A i \in 1 .. Len(path) : path[i] \in Nat
        BY <1>0
      <4>2. \A i \in b .. e : i \in 1 .. Len(path)
        BY <1>0, <1>4, <2>1
      <4> QED
        BY <4>1, <4>2, Zenon
    <3>4. /\ SubSeq(path, b, e) \in Seq(Nat)
          /\ Len(SubSeq(path, b, e)) = IF b <= e THEN e - b + 1 ELSE 0
          /\ \A i \in 1 .. e - b + 1 : SubSeq(path, b, e)[i] = path[b + i - 1]
      BY <3>2, <3>3, SubSeqProperties
    <3>5. (IF b <= e THEN e - b + 1 ELSE 0) = e - b + 1
      BY <3>2
    <3> QED
      BY <3>1, <3>4, <3>5, Zenon
  <2> QED
    BY <2>1, <2>2, Zenon
<1>7. ASSUME NEW i \in 1 .. p - b PROVE w[i] \in Nat /\ w[i] # c.slash
  <2>0. p <= Len(path) + 1
    BY <1>3
  <2>1. PICK j \in Nat : j = b + i - 1
    BY <1>4
  <2>2. j \in 1 .. Len(path) /\ b <= j /\ j < p
    BY <1>0, <1>4, <2>0, <2>1
  <2>3. path[j] \in Nat /\ path[j] # c.slash
    BY <1>3, <2>2 DEF Path
  <2> QED
    BY <1>6, <2>1, <2>3
<1>8. CapturedIn(m, path, k, pos, w, b, p)
  BY <1>2, <1>3, <1>6, <1>7, Zenon DEF CapturedIn
<1> QED
  BY <1>8

\* A list of values is not the mark for none.
LEMMA NoneIsNone ==
  ASSUME NEW m, IsMatcher(m), NEW path, Path(path), NEW P, NEW k \in Nat, k >= 1,
         P[k] \in 1 .. Len(path) + 2, AllFit(m, path, P, k)
  PROVE  ValuesFrom(m, path, P, k) # NoMatch
<1> SUFFICES ASSUME ValuesFrom(m, path, P, k) = NoMatch PROVE FALSE
  OBVIOUS
<1>1. PICK n \in Nat : n = Len(m.names) /\ n <= Len(m.fragments)
  BY DEF IsMatcher
<1>2. PICK v : v = ValuesFrom(m, path, P, k)
  OBVIOUS
<1>3. v = <<<<-1>>>>
  BY <1>2 DEF NoMatch
<1>4. DOMAIN v = 1 .. n - k + 1 /\ \A j \in 1 .. n - k + 1 : v[j] = Captured(m, path, k + j - 1, P[k + j - 1])
  BY <1>1, <1>2 DEF ValuesFrom
<1>5. 1 \in DOMAIN v /\ v[1] = <<-1>>
  BY <1>3
<1>6. 1 \in 1 .. n - k + 1 /\ k + 1 - 1 = k
  BY <1>4, <1>5
<1>7. k \in 1 .. Len(m.fragments) /\ k \in k .. Len(m.fragments)
  BY <1>1, <1>6
<1>8. v[1] = Captured(m, path, k, P[k])
  BY <1>4, <1>6
<1>9. Fits(m, path, k, P[k])
  BY <1>7, Zenon DEF AllFit
<1>10. PICK w : w = Captured(m, path, k, P[k])
  OBVIOUS
<1>11. PICK l \in Int : Len(w) = l /\ \A i \in 1 .. l : w[i] \in Nat
  <2>1. PICK pos \in 1 .. Len(path) + 2 : pos = P[k]
    OBVIOUS
  <2>2. Fits(m, path, k, pos) /\ w = Captured(m, path, k, pos)
    BY <1>9, <1>10, <2>1
  <2>3. PICK b \in Nat, p \in Nat : CapturedIn(m, path, k, pos, w, b, p)
    BY <1>7, <2>2, CapturedSays
  <2>4. Len(w) = p - b /\ \A i \in 1 .. p - b : w[i] \in Nat
    BY <2>3, Zenon DEF CapturedIn
  <2>5. p - b \in Int
    OBVIOUS
  <2> QED
    BY <2>4, <2>5, Zenon
<1>12. w = <<-1>>
  BY <1>5, <1>8, <1>10, Zenon
<1>13. Len(w) = 1 /\ w[1] = -1
  BY <1>12
<1>14. 1 \in 1 .. l
  BY <1>11, <1>13
<1>15. -1 \notin Nat
  OBVIOUS
<1> QED
  BY <1>11, <1>13, <1>14, <1>15, Zenon

LEMMA OneMoreValue ==
  ASSUME NEW m, IsMatcher(m), NEW path, NEW P, NEW k \in Nat, k >= 1
  PROVE  /\ k <= Len(m.names) => <<Captured(m, path, k, P[k])>> \o ValuesFrom(m, path, P, k + 1)
                                   = ValuesFrom(m, path, P, k)
         /\ k > Len(m.names) => ValuesFrom(m, path, P, k) = <<>>
<1>1. PICK n \in Nat : n = Len(m.names)
  BY DEF IsMatcher
<1> DEFINE T(j) == Captured(m, path, j, P[j])
           X == {T(j) : j \in Nat}
<1>2. \A j \in Nat : T(j) \in X
  OBVIOUS
<1>3. ValuesFrom(m, path, P, k) = [j \in 1 .. n - k + 1 |-> T(k + j - 1)]
  BY <1>1, Zenon DEF ValuesFrom
<1>4. ValuesFrom(m, path, P, k + 1) = [j \in 1 .. n - (k + 1) + 1 |-> T((k + 1) + j - 1)]
  BY <1>1, Zenon DEF ValuesFrom
<1> HIDE DEF T, X
<1>5. CASE k <= n
  <2>1. PICK l \in Nat : l = n - k /\ n - k + 1 = l + 1 /\ n - (k + 1) + 1 = l
    BY <1>5
  <2>2. PICK v : v = [j \in 1 .. l |-> T((k + 1) + j - 1)]
    OBVIOUS
  <2>3. PICK w : w = [j \in 1 .. l + 1 |-> T(k + j - 1)]
    OBVIOUS
  <2>4. v \in Seq(X) /\ Len(v) = l /\ \A j \in 1 .. l : v[j] = T(k + j)
    <3>1. \A j \in 1 .. l : (k + 1) + j - 1 = k + j /\ k + j \in Nat
      OBVIOUS
    <3>2. v = [j \in 1 .. l |-> T(k + j)]
      BY <2>2, <3>1
    <3> QED
      BY <1>2, <3>1, <3>2
  <2>5. w \in Seq(X) /\ Len(w) = l + 1 /\ \A j \in 1 .. l + 1 : w[j] = T(k + j - 1)
    <3>1. \A j \in 1 .. l + 1 : k + j - 1 \in Nat
      OBVIOUS
    <3> QED
      BY <1>2, <2>3, <3>1
  <2>6. PICK t \in X : t = T(k)
    BY <1>2
  <2>7. PICK u : u = <<t>> \o v
    OBVIOUS
  <2>8. u \in Seq(X) /\ Len(u) = l + 1 /\ u[1] = t /\ \A j \in 1 .. l : u[j + 1] = v[j]
    BY <2>4, <2>7
  <2>9. ASSUME NEW j \in 1 .. l + 1 PROVE u[j] = w[j]
    <3>1. CASE j = 1
      <4>1. k + j - 1 = k
        BY <3>1
      <4> QED
        BY <2>5, <2>6, <2>8, <3>1, <4>1, Zenon
    <3>2. CASE j # 1
      <4>1. PICK i \in 1 .. l : j = i + 1 /\ k + j - 1 = k + i
        BY <3>2
      <4> QED
        BY <2>4, <2>5, <2>8, <4>1, Zenon
    <3> QED
      BY <3>1, <3>2
  <2>10. u = w
    <3>1. Len(u) = Len(w) /\ \A j \in 1 .. Len(u) : u[j] = w[j]
      BY <2>5, <2>8, <2>9, Zenon
    <3> QED
      BY <2>5, <2>8, <3>1, SeqEqual, Zenon
  <2>11. ~(k > n) /\ k <= n
    BY <1>5
  <2> QED
    BY <1>1, <1>3, <1>4, <2>1, <2>2, <2>3, <2>6, <2>7, <2>10, <2>11, Zenon DEF T
<1>6. CASE ~(k <= n)
  <2>1. 1 .. n - k + 1 = {} /\ ~(k <= n) /\ k > n
    BY <1>6
  <2>2. [j \in {} |-> T(k + j - 1)] = <<>>
    OBVIOUS
  <2> QED
    BY <1>1, <1>3, <2>1, <2>2, Zenon
<1> QED
  BY <1>5, <1>6

\* What match finds from the k-th fragment on
Outcome(m, path, P, k) ==
  IF AllFit(m, path, P, k) THEN ValuesFrom(m, path, P, k) ELSE NoMatch

LEMMA AllFitStep ==
  ASSUME NEW m, IsMatcher(m), NEW path, NEW P, NEW k \in 1 .. Len(m.fragments)
  PROVE  AllFit(m, path, P, k) <=> Fits(m, path, k, P[k]) /\ AllFit(m, path, P, k + 1)
<1>1. Len(m.fragments) \in Nat
  BY DEF IsMatcher
<1>2. \A j : j \in k .. Len(m.fragments) <=> j = k \/ j \in k + 1 .. Len(m.fragments)
  BY <1>1
<1> QED
  BY <1>2, Zenon DEF AllFit

LEMMA OutcomeStep ==
  ASSUME NEW m, IsMatcher(m), NEW path, Path(path), NEW g, Matching(m, path, g),
         NEW P, Course(m, path, Len(m.fragments), P), NEW k \in 1 .. Len(m.fragments),
         P[k] \in 1 .. Len(path) + 2,
         P[k + 1] \in 1 .. Len(path) + 2 => g[k + 1][P[k + 1]] = Outcome(m, path, P, k + 1)
  PROVE  g[k][P[k]] = Outcome(m, path, P, k)
<1>0. PICK row : row = g[k + 1]
  OBVIOUS
<1>1. PICK pos \in 1 .. Len(path) + 2 : row = g[k + 1] /\ pos = P[k]
  BY <1>0
<1>2. k \in 1 .. Len(m.fragments) + 1 /\ k \in Nat /\ k >= 1 /\ k + 1 \in Nat /\ k + 1 >= 1
  BY DEF IsMatcher
<1>3. P[k + 1] = Onward(m, path, k, pos)
  BY <1>1, Zenon DEF Course
<1>4. g[k][P[k]] =
        IF ~Fits(m, path, k, pos) THEN NoMatch
        ELSE IF k > Len(m.names) \/ row[P[k + 1]] = NoMatch THEN row[P[k + 1]]
             ELSE <<Captured(m, path, k, pos)>> \o row[P[k + 1]]
  <2>1. g[k][P[k]] = MatchedBy(m, path, row, k, pos)
    BY <1>1, <1>2, Zenon DEF Matching
  <2>2. MatchedBy(m, path, row, k, pos) =
          IF ~Fits(m, path, k, pos) THEN NoMatch
          ELSE IF k > Len(m.names) \/ row[P[k + 1]] = NoMatch THEN row[P[k + 1]]
               ELSE <<Captured(m, path, k, pos)>> \o row[P[k + 1]]
    BY <1>3, TurnOfMatch, Zenon DEF Captured
  <2> QED
    BY <2>1, <2>2, Zenon
<1>5. AllFit(m, path, P, k) <=> Fits(m, path, k, pos) /\ AllFit(m, path, P, k + 1)
  BY <1>1, AllFitStep
<1>6. CASE ~Fits(m, path, k, pos)
  BY <1>4, <1>5, <1>6, Zenon DEF Outcome
<1>7. CASE Fits(m, path, k, pos)
  <2>1. P[k + 1] \in 1 .. Len(path) + 2
    <3>1. path \in Seq(Nat)
      BY DEF Path
    <3>2. pos \in Nat /\ pos >= 1
      BY <3>1
    <3>3. ~(Behind(m, k, pos) - 1 > Len(path))
      BY <1>7, Zenon DEF Fits
    <3> QED
      BY <1>3, <3>1, <3>2, <3>3, GoesOn
  <2>2. row[P[k + 1]] = Outcome(m, path, P, k + 1)
    BY <1>1, <2>1, Zenon
  <2>3. AllFit(m, path, P, k + 1) => ValuesFrom(m, path, P, k + 1) # NoMatch
    BY <1>2, <2>1, NoneIsNone
  <2>4. /\ k <= Len(m.names) => <<Captured(m, path, k, pos)>> \o ValuesFrom(m, path, P, k + 1)
                                  = ValuesFrom(m, path, P, k)
        /\ k > Len(m.names) => ValuesFrom(m, path, P, k) = <<>> /\ ValuesFrom(m, path, P, k + 1) = <<>>
    <3>1. k > Len(m.names) => k + 1 > Len(m.names)
      BY <1>2 DEF IsMatcher
    <3>2. k > Len(m.names) => ValuesFrom(m, path, P, k) = <<>>
      BY <1>2, OneMoreValue
    <3>3. k > Len(m.names) => ValuesFrom(m, path, P, k + 1) = <<>>
      BY <1>2, <3>1, OneMoreValue
    <3>4. k <= Len(m.names) => <<Captured(m, path, k, P[k])>> \o ValuesFrom(m, path, P, k + 1)
                                 = ValuesFrom(m, path, P, k)
      BY <1>2, OneMoreValue
    <3> QED
      BY <1>1, <3>2, <3>3, <3>4, Zenon
  <2>5. k <= Len(m.names) <=> ~(k > Len(m.names))
    BY <1>2 DEF IsMatcher
  <2>6. CASE AllFit(m, path, P, k + 1)
    <3>1. row[P[k + 1]] = ValuesFrom(m, path, P, k + 1) /\ row[P[k + 1]] # NoMatch
      BY <2>2, <2>3, <2>6, Zenon DEF Outcome
    <3>2. Outcome(m, path, P, k) = ValuesFrom(m, path, P, k)
      BY <1>5, <1>7, <2>6, Zenon DEF Outcome
    <3> QED
      BY <1>4, <1>7, <2>4, <2>5, <3>1, <3>2, Zenon
  <2>7. CASE ~AllFit(m, path, P, k + 1)
    <3>1. row[P[k + 1]] = NoMatch /\ Outcome(m, path, P, k) = NoMatch
      BY <1>5, <2>2, <2>7, Zenon DEF Outcome
    <3> QED
      BY <1>4, <1>7, <3>1, Zenon
  <2> QED
    BY <2>6, <2>7
<1> QED
  BY <1>6, <1>7

LEMMA OutcomeLast ==
  ASSUME NEW m, IsMatcher(m), NEW path, NEW g, Matching(m, path, g), NEW P,
         NEW k, k = Len(m.fragments) + 1, P[k] \in 1 .. Len(path) + 2
  PROVE  g[k][P[k]] = Outcome(m, path, P, k)
<1>1. k \in Nat /\ k >= 1 /\ k > Len(m.fragments) /\ k > Len(m.names) /\ k \in 1 .. Len(m.fragments) + 1
      /\ k .. Len(m.fragments) = {}
  BY DEF IsMatcher
<1>2. ValuesFrom(m, path, P, k) = <<>>
  BY <1>1, OneMoreValue
<1>3. g[k][P[k]] = IF P[k] > Len(path) THEN <<>> ELSE NoMatch
  BY <1>1, Zenon DEF Matching, MatchedBy
<1>4. AllFit(m, path, P, k) <=> P[k] > Len(path)
  BY <1>1, Zenon DEF AllFit
<1> QED
  BY <1>2, <1>3, <1>4, Zenon DEF Outcome

\* match hands out what stands for the parameters if all fragments are found on their course.
LEMMA MatchIs ==
  ASSUME NEW m, IsMatcher(m), NEW path, Path(path)
  PROVE  \E P : Course(m, path, Len(m.fragments), P) /\ match(m, path) = Outcome(m, path, P, 1)
<1>1. PICK n \in Nat : n = Len(m.fragments)
  BY DEF IsMatcher
<1>2. PICK P : Course(m, path, n, P)
  BY CourseExists
<1>3. PICK g : match(m, path) = g[1][1] /\ Matching(m, path, g)
  BY MatchSays
<1> DEFINE S == {j \in Nat : j <= n => (P[n + 1 - j] \in 1 .. Len(path) + 2
                                          => g[n + 1 - j][P[n + 1 - j]] = Outcome(m, path, P, n + 1 - j))}
<1>4. 0 \in S
  <2>1. PICK k \in Nat : k = n + 1 - 0 /\ k = n + 1
    OBVIOUS
  <2>2. P[k] \in 1 .. Len(path) + 2 => g[k][P[k]] = Outcome(m, path, P, k)
    <3>1. k = Len(m.fragments) + 1
      BY <1>1, <2>1
    <3> QED
      BY <1>3, <3>1, OutcomeLast
  <2> QED
    BY <2>1, <2>2
<1>5. ASSUME NEW j \in Nat, j \in S PROVE j + 1 \in S
  <2> SUFFICES ASSUME j + 1 <= n, P[n + 1 - (j + 1)] \in 1 .. Len(path) + 2
               PROVE  g[n + 1 - (j + 1)][P[n + 1 - (j + 1)]] = Outcome(m, path, P, n + 1 - (j + 1))
    OBVIOUS
  <2>1. PICK k \in Nat : k = n + 1 - (j + 1)
    OBVIOUS
  <2>2. k \in 1 .. n /\ k + 1 = n + 1 - j /\ j <= n
    BY <2>1
  <2>3. P[k + 1] \in 1 .. Len(path) + 2 => g[k + 1][P[k + 1]] = Outcome(m, path, P, k + 1)
    BY <1>5, <2>2
  <2>4. P[k] \in 1 .. Len(path) + 2
    BY <2>1
  <2> HIDE DEF S
  <2>5. g[k][P[k]] = Outcome(m, path, P, k)
    BY <1>1, <1>2, <1>3, <2>2, <2>3, <2>4, OutcomeStep
  <2> QED
    BY <2>1, <2>5, Zenon
<1>6. n \in S
  <2> HIDE DEF S
  <2>1. \A j \in Nat : j \in S => j + 1 \in S
    BY <1>5
  <2> QED
    BY <1>4, <2>1, Counting
<1>7. n <= n /\ n + 1 - n = 1
  OBVIOUS
<1>8. P[1] \in 1 .. Len(path) + 2 => g[1][P[1]] = Outcome(m, path, P, 1)
  BY <1>6, <1>7
<1>9. P[1] = 1 /\ 1 \in 1 .. Len(path) + 2
  <2>1. path \in Seq(Nat)
    BY DEF Path
  <2>2. 1 \in 1 .. Len(path) + 2
    BY <2>1
  <2> QED
    BY <1>2, <2>2, Zenon DEF Course
<1> QED
  BY <1>1, <1>2, <1>3, <1>8, <1>9, Zenon

\* Sequences with the same parts are the same.
LEMMA PlacesSame ==
  ASSUME NEW A, NEW ss \in Seq(Seq(A)), NEW t \in Seq(A), NEW u \in Seq(A),
         NEW L, Places(ss, t, L), NEW M, Places(ss, u, M)
  PROVE  t = u
<1>1. PICK n \in Nat : n = Len(ss)
  OBVIOUS
<1>2. /\ L \in [0 .. n -> Nat] /\ L[0] = 0 /\ L[n] = Len(t)
      /\ M \in [0 .. n -> Nat] /\ M[0] = 0 /\ M[n] = Len(u)
  BY <1>1, Zenon DEF Places
<1> DEFINE S == {k \in Nat : k <= n => L[k] = M[k] /\ \A i \in 1 .. L[k] : t[i] = u[i]}
<1>3. 0 \in S
  BY <1>2
<1>4. ASSUME NEW k \in Nat, k \in S PROVE k + 1 \in S
  <2> SUFFICES ASSUME k + 1 <= n
               PROVE  L[k + 1] = M[k + 1] /\ \A i \in 1 .. L[k + 1] : t[i] = u[i]
    OBVIOUS
  <2>1. L[k] = M[k] /\ \A i \in 1 .. L[k] : t[i] = u[i]
    BY <1>4
  <2> HIDE DEF S
  <2>2. PICK j \in Nat : j = k + 1
    OBVIOUS
  <2>3. j \in 1 .. Len(ss) /\ j - 1 = k /\ k \in 0 .. n /\ j \in 0 .. n
    BY <1>1, <2>2
  <2>4. PICK w \in Seq(A) : w = ss[j]
    BY <2>3
  <2>5. L[j] = L[k] + Len(w) /\ Occurs(t, w, L[k]) /\ M[j] = M[k] + Len(w) /\ Occurs(u, w, M[k])
    BY <2>3, <2>4, Zenon DEF Places
  <2>6. PICK l \in Nat, e \in Nat : l = L[k] /\ l = M[k] /\ e = L[j] /\ e = l + Len(w) /\ e = M[j]
    BY <1>2, <2>1, <2>3, <2>5
  <2>7. ASSUME NEW i \in 1 .. e PROVE t[i] = u[i]
    <3>1. CASE i \in 1 .. l
      BY <2>1, <2>6, <3>1, Zenon
    <3>2. CASE ~(i \in 1 .. l)
      <4>1. PICK a \in 1 .. Len(w) : i = l + a
        <5>1. PICK d \in Nat : d = Len(w) /\ e = l + d
          BY <2>6
        <5>2. i - l \in 1 .. d /\ i = l + (i - l)
          BY <3>2, <5>1
        <5> QED
          BY <5>1, <5>2
      <4>2. t[l + a] = w[a] /\ u[l + a] = w[a]
        BY <2>5, <2>6, Zenon DEF Occurs
      <4> QED
        BY <4>1, <4>2
    <3> QED
      BY <3>1, <3>2
  <2> QED
    BY <2>2, <2>6, <2>7, Zenon
<1>5. n \in S
  <2> HIDE DEF S
  <2>1. \A k \in Nat : k \in S => k + 1 \in S
    BY <1>4
  <2> QED
    BY <1>3, <2>1, Counting
<1>6. Len(t) = Len(u) /\ \A i \in 1 .. Len(t) : t[i] = u[i]
  <2>1. n <= n
    OBVIOUS
  <2> QED
    BY <1>2, <1>5, <2>1
<1> QED
  BY <1>6, SeqEqual

\* Places that follow one another end where the last one ends.
LEMMA Rising ==
  ASSUME NEW n \in Nat, NEW L \in [0 .. n -> Nat], \A k \in 1 .. n : L[k - 1] <= L[k], NEW k \in 0 .. n
  PROVE  L[k] <= L[n]
<1> DEFINE S == {j \in Nat : j <= n => L[n - j] <= L[n]}
<1>1. 0 \in S
  OBVIOUS
<1>2. ASSUME NEW j \in Nat, j \in S PROVE j + 1 \in S
  <2> SUFFICES ASSUME j + 1 <= n PROVE L[n - (j + 1)] <= L[n]
    OBVIOUS
  <2>1. PICK i \in 1 .. n : i = n - j
    OBVIOUS
  <2>2. L[i - 1] <= L[i] /\ L[i] <= L[n]
    BY <1>2, <2>1
  <2>3. i - 1 = n - (j + 1) /\ i - 1 \in 0 .. n /\ i \in 0 .. n /\ n \in 0 .. n
    BY <2>1
  <2> HIDE DEF S
  <2>4. PICK x \in Nat, y \in Nat, z \in Nat : x = L[i - 1] /\ y = L[i] /\ z = L[n]
    BY <2>3
  <2>5. x <= z
    BY <2>2, <2>4
  <2> QED
    BY <2>3, <2>4, <2>5, Zenon
<1> HIDE DEF S
<1>3. \A j \in Nat : j \in S => j + 1 \in S
  BY <1>2
<1>4. PICK j \in Nat : j = n - k
  OBVIOUS
<1>5. j \in S
  BY <1>1, <1>3, Counting
<1>6. j <= n /\ n - j = k
  BY <1>4
<1> QED
  BY <1>5, <1>6 DEF S

\* The values of a pattern's parameters
ValuesOf(m, vs) == DOMAIN vs = 1 .. Len(m.names) /\ \A k \in 1 .. Len(m.names) : vs[k] \in Seq(Nat)

\* The k-th fragment, the value of its parameter and the slash behind that
ValueAt(vs, k) == IF k \in DOMAIN vs THEN vs[k] ELSE <<>>
Piece(m, vs, k) ==
  m.fragments[k] \o ValueAt(vs, k) \o IF k < Len(m.fragments) THEN <<c.slash>> ELSE <<>>

Joint(m, k) == IF k < Len(m.fragments) THEN 1 ELSE 0

PieceIn(m, vs, k, t, i) ==
  /\ Occurs(t, m.fragments[k], i) /\ Occurs(t, ValueAt(vs, k), i + Len(m.fragments[k]))
  /\ k < Len(m.fragments) => t[i + Len(m.fragments[k]) + Len(ValueAt(vs, k)) + 1] = c.slash

LEMMA ThreeParts ==
  ASSUME NEW f \in Seq(Nat), NEW v \in Seq(Nat), NEW e \in Seq(Nat), NEW w, w = f \o v \o e
  PROVE  /\ w \in Seq(Nat) /\ Len(w) = Len(f) + Len(v) + Len(e)
         /\ \A t : \A i \in Nat : Occurs(t, w, i) <=> /\ Occurs(t, f, i) /\ Occurs(t, v, i + Len(f))
                                                  /\ Occurs(t, e, i + Len(f) + Len(v))
<1>1. PICK x : x = f \o v
  OBVIOUS
<1>2. /\ x \in Seq(Nat) /\ Len(x) = Len(f) + Len(v)
      /\ \A j \in 1 .. Len(f) : x[j] = f[j]
      /\ \A j \in 1 .. Len(v) : x[Len(f) + j] = v[j]
  BY <1>1
<1>3. /\ w \in Seq(Nat) /\ Len(w) = Len(x) + Len(e)
      /\ \A j \in 1 .. Len(x) : w[j] = x[j]
      /\ \A j \in 1 .. Len(e) : w[Len(x) + j] = e[j]
  BY <1>1, <1>2
<1>4. PICK a \in Nat, b \in Nat, d \in Nat : a = Len(f) /\ b = Len(v) /\ d = Len(e)
  OBVIOUS
<1>5. /\ w \in Seq(Nat) /\ Len(w) = a + b + d /\ \A j \in 1 .. a : w[j] = f[j]
      /\ \A j \in 1 .. b : w[a + j] = v[j]
      /\ \A j \in 1 .. d : w[a + b + j] = e[j]
  <2>1. \A j \in 1 .. a : j \in 1 .. Len(x) /\ w[j] = f[j]
    BY <1>2, <1>3, <1>4
  <2>2. \A j \in 1 .. b : a + j \in 1 .. Len(x)
    BY <1>2, <1>4
  <2>3. \A j \in 1 .. b : w[a + j] = v[j]
    BY <1>2, <1>3, <1>4, <2>2
  <2> QED
    BY <1>2, <1>3, <1>4, <2>1, <2>3
<1>6. ASSUME NEW t, NEW i \in Nat
      PROVE  Occurs(t, w, i) <=> Occurs(t, f, i) /\ Occurs(t, v, i + a) /\ Occurs(t, e, i + a + b)
  <2>1. ASSUME Occurs(t, w, i) PROVE Occurs(t, f, i) /\ Occurs(t, v, i + a) /\ Occurs(t, e, i + a + b)
    <3>1. \A j \in 1 .. a + b + d : t[i + j] = w[j]
      BY <1>5, <2>1 DEF Occurs
    <3>2. ASSUME NEW j \in 1 .. a PROVE t[i + j] = f[j]
      <4>1. j \in 1 .. a + b + d
        OBVIOUS
      <4> QED
        BY <1>5, <3>1, <4>1
    <3>3. ASSUME NEW j \in 1 .. b PROVE t[(i + a) + j] = v[j]
      <4>1. a + j \in 1 .. a + b + d /\ (i + a) + j = i + (a + j)
        OBVIOUS
      <4> QED
        BY <1>5, <3>1, <4>1
    <3>4. ASSUME NEW j \in 1 .. d PROVE t[(i + a + b) + j] = e[j]
      <4>1. a + b + j \in 1 .. a + b + d /\ (i + a + b) + j = i + (a + b + j)
        OBVIOUS
      <4> QED
        BY <1>5, <3>1, <4>1
    <3> QED
      BY <1>4, <3>2, <3>3, <3>4 DEF Occurs
  <2>2. ASSUME Occurs(t, f, i), Occurs(t, v, i + a), Occurs(t, e, i + a + b) PROVE Occurs(t, w, i)
    <3>1. \A j \in 1 .. a : t[i + j] = f[j]
      BY <1>4, <2>2 DEF Occurs
    <3>2. \A j \in 1 .. b : t[(i + a) + j] = v[j]
      BY <1>4, <2>2 DEF Occurs
    <3>3. \A j \in 1 .. d : t[(i + a + b) + j] = e[j]
      BY <1>4, <2>2 DEF Occurs
    <3>4. ASSUME NEW j \in 1 .. a + b + d PROVE t[i + j] = w[j]
      <4>1. CASE j \in 1 .. a
        BY <1>5, <3>1, <4>1
      <4>2. CASE ~(j \in 1 .. a) /\ j <= a + b
        <5>1. PICK k \in 1 .. b : j = a + k /\ i + j = (i + a) + k
          BY <4>2
        <5> QED
          BY <1>5, <3>2, <5>1
      <4>3. CASE ~(j <= a + b)
        <5>1. PICK k \in 1 .. d : j = a + b + k /\ i + j = (i + a + b) + k
          BY <4>3
        <5> QED
          BY <1>5, <3>3, <5>1
      <4> QED
        BY <4>1, <4>2, <4>3
    <3> QED
      BY <1>5, <3>4 DEF Occurs
  <2> QED
    BY <2>1, <2>2
<1> QED
  BY <1>4, <1>5, <1>6

LEMMA PieceSays ==
  ASSUME NEW m, IsMatcher(m), NEW vs, ValuesOf(m, vs), NEW k \in 1 .. Len(m.fragments), NEW w, w = Piece(m, vs, k)
  PROVE  /\ ValueAt(vs, k) \in Seq(Nat) /\ w \in Seq(Nat)
         /\ Len(w) = Len(m.fragments[k]) + Len(ValueAt(vs, k)) + Joint(m, k)
         /\ \A t : \A i \in Nat : Occurs(t, w, i) <=> PieceIn(m, vs, k, t, i)
<1>1. PICK f \in Seq(Nat) : f = m.fragments[k]
  BY DEF IsMatcher
<1>2. PICK v \in Seq(Nat) : v = ValueAt(vs, k)
  <2>1. CASE k \in DOMAIN vs
    <3>1. vs[k] \in Seq(Nat)
      BY <2>1, Zenon DEF ValuesOf
    <3> QED
      BY <2>1, <3>1, Zenon DEF ValueAt
  <2>2. CASE k \notin DOMAIN vs
    <3>1. <<>> \in Seq(Nat)
      OBVIOUS
    <3> QED
      BY <2>2, <3>1, Zenon DEF ValueAt
  <2> QED
    BY <2>1, <2>2
<1>3. PICK e \in Seq(Nat) : e = IF k < Len(m.fragments) THEN <<c.slash>> ELSE <<>>
  <2>1. <<>> \in Seq(Nat) /\ <<c.slash>> \in Seq(Nat)
    BY DEF c
  <2> QED
    BY <2>1, Zenon
<1>4. w = f \o v \o e
  BY <1>1, <1>2, <1>3, Zenon DEF Piece
<1>5. /\ w \in Seq(Nat) /\ Len(w) = Len(f) + Len(v) + Len(e)
      /\ \A t : \A i \in Nat : Occurs(t, w, i) <=> /\ Occurs(t, f, i) /\ Occurs(t, v, i + Len(f))
                                               /\ Occurs(t, e, i + Len(f) + Len(v))
  BY <1>4, ThreeParts
<1>6. Len(e) = Joint(m, k)
  BY <1>3 DEF Joint
<1>7. ASSUME NEW t, NEW i \in Nat
      PROVE  Occurs(t, e, i) <=> (k < Len(m.fragments) => t[i + 1] = c.slash)
  BY <1>3 DEF Occurs
<1>8. ASSUME NEW t, NEW i \in Nat PROVE Occurs(t, w, i) <=> PieceIn(m, vs, k, t, i)
  <2>1. i + Len(f) + Len(v) \in Nat
    OBVIOUS
  <2>2. Occurs(t, e, i + Len(f) + Len(v)) <=> (k < Len(m.fragments) => t[i + Len(f) + Len(v) + 1] = c.slash)
    BY <1>7, <2>1
  <2>3. PieceIn(m, vs, k, t, i) <=>
          /\ Occurs(t, f, i) /\ Occurs(t, v, i + Len(f))
          /\ k < Len(m.fragments) => t[i + Len(f) + Len(v) + 1] = c.slash
    BY <1>1, <1>2 DEF PieceIn
  <2> QED
    BY <1>5, <2>2, <2>3, Zenon
<1> QED
  BY <1>1, <1>2, <1>5, <1>6, <1>8

RoutePieces(m, vs) == [k \in 1 .. Len(m.fragments) |-> Piece(m, vs, k)]

LEMMA FilledSays ==
  ASSUME NEW m, IsMatcher(m), NEW vs, ValuesOf(m, vs)
  PROVE  /\ RoutePieces(m, vs) \in Seq(Seq(Nat)) /\ Len(RoutePieces(m, vs)) = Len(m.fragments)
         /\ \A k \in 1 .. Len(m.fragments) : RoutePieces(m, vs)[k] = Piece(m, vs, k)
         /\ Filled(m, vs) = FlattenSeq(RoutePieces(m, vs))
<1>1. PICK n \in Nat : n = Len(m.fragments) /\ DOMAIN m.fragments = 1 .. n
  BY DEF IsMatcher
<1>2. \A k \in 1 .. n : Piece(m, vs, k) \in Seq(Nat)
  BY <1>1, PieceSays
<1>3. PICK ss : ss = [k \in 1 .. n |-> Piece(m, vs, k)]
  OBVIOUS
<1>4. ss \in Seq(Seq(Nat)) /\ Len(ss) = n /\ \A k \in 1 .. n : ss[k] = Piece(m, vs, k)
  BY <1>2, <1>3
<1>5. Filled(m, vs) = FlattenSeq(ss)
  BY <1>1, <1>3, Zenon DEF Filled, Piece, ValueAt
<1>6. RoutePieces(m, vs) = ss
  BY <1>1, <1>3, Zenon DEF RoutePieces
<1> QED
  BY <1>1, <1>4, <1>5, <1>6, Zenon

\* The course stays on the path as long as the fragments are there.
LEMMA CourseIn ==
  ASSUME NEW m, IsMatcher(m), NEW path, Path(path), NEW P, Course(m, path, Len(m.fragments), P),
         AllFit(m, path, P, 1), NEW k \in 1 .. Len(m.fragments) + 1
  PROVE  P[k] \in 1 .. Len(path) + 2
<1>1. PICK n \in Nat : n = Len(m.fragments)
  BY DEF IsMatcher
<1>2. path \in Seq(Nat)
  BY DEF Path
<1> DEFINE S == {j \in Nat : j <= n => P[j + 1] \in 1 .. Len(path) + 2}
<1>3. 0 \in S
  <2>1. P[1] = 1
    BY Zenon DEF Course
  <2> QED
    BY <1>2, <2>1
<1>4. ASSUME NEW j \in Nat, j \in S PROVE j + 1 \in S
  <2> SUFFICES ASSUME j + 1 <= n PROVE P[(j + 1) + 1] \in 1 .. Len(path) + 2
    OBVIOUS
  <2>1. PICK i \in 1 .. n : i = j + 1
    OBVIOUS
  <2>2. P[i] \in 1 .. Len(path) + 2
    BY <1>4, <2>1
  <2> HIDE DEF S
  <2>3. PICK pos \in Nat : pos = P[i] /\ pos >= 1
    BY <1>2, <2>2
  <2>4. ~(Behind(m, i, pos) - 1 > Len(path))
    <3>1. Fits(m, path, i, P[i])
      BY <1>1, <2>1, Zenon DEF AllFit
    <3> QED
      BY <2>3, <3>1, Zenon DEF Fits
  <2>5. Onward(m, path, i, pos) \in 1 .. Len(path) + 2
    BY <1>1, <1>2, <2>3, <2>4, GoesOn
  <2>6. P[i + 1] = Onward(m, path, i, pos)
    BY <1>1, <2>3, Zenon DEF Course
  <2> QED
    BY <2>1, <2>5, <2>6, Zenon
<1> HIDE DEF S
<1>5. \A j \in Nat : j \in S => j + 1 \in S
  BY <1>4
<1>6. PICK j \in Nat : j = k - 1 /\ j + 1 = k /\ j <= n
  BY <1>1
<1>7. j \in S
  BY <1>3, <1>5, Counting
<1> QED
  BY <1>6, <1>7 DEF S

\* What a parameter is: no slash
NoSlash(v) == v \in Seq(Nat) /\ \A i \in 1 .. Len(v) : v[i] # c.slash

\* The k-th fragment ends before b, and the value behind it before p.
Stretch(m, path, P, vs, k, b, p) ==
  /\ b = P[k] + Len(m.fragments[k]) /\ b <= Len(path) + 1
  /\ Occurs(path, m.fragments[k], P[k] - 1)
  /\ p = b + Len(ValueAt(vs, k)) /\ p <= Len(path) + 1 /\ Occurs(path, ValueAt(vs, k), b - 1)
  /\ k <= Len(m.names) => P[k + 1] = p + 1 /\ (p <= Len(path) => path[p] = c.slash)
  /\ k > Len(m.names) => P[k + 1] = b /\ p = b

\* The values that are found, and where the pieces are that they fill
LEMMA ValuesFound ==
  ASSUME NEW m, IsMatcher(m), NEW path, Path(path), NEW P, Course(m, path, Len(m.fragments), P),
         AllFit(m, path, P, 1), NEW vs, vs = ValuesFrom(m, path, P, 1)
  PROVE  /\ ValuesOf(m, vs) /\ Len(vs) = Len(m.names)
         /\ \A k \in 1 .. Len(m.names) : NoSlash(vs[k])
         /\ \A k \in 1 .. Len(m.fragments) :
              \E b \in Nat, p \in Nat : Stretch(m, path, P, vs, k, b, p)
<1>0. path \in Seq(Nat)
  BY DEF Path
<1>1. PICK n \in Nat : n = Len(m.names) /\ n <= Len(m.fragments)
  BY DEF IsMatcher
<1>2. DOMAIN vs = 1 .. n /\ Len(vs) = n /\ \A k \in 1 .. n : vs[k] = Captured(m, path, k, P[k])
  <2>1. vs = [j \in 1 .. n - 1 + 1 |-> Captured(m, path, 1 + j - 1, P[1 + j - 1])]
    BY <1>1, Zenon DEF ValuesFrom
  <2>2. n - 1 + 1 = n /\ \A j \in 1 .. n : 1 + j - 1 = j
    OBVIOUS
  <2>3. vs = [j \in 1 .. n |-> Captured(m, path, j, P[j])]
    BY <2>1, <2>2
  <2> QED
    BY <2>3
<1>3. \A k \in 1 .. Len(m.fragments) : P[k] \in 1 .. Len(path) + 2 /\ Fits(m, path, k, P[k])
  <2>1. \A k \in 1 .. Len(m.fragments) : k \in 1 .. Len(m.fragments) + 1
    BY DEF IsMatcher
  <2> QED
    BY <2>1, CourseIn, Zenon DEF AllFit
<1>4. ASSUME NEW k \in 1 .. n
      PROVE  \E b \in Nat, p \in Nat : CapturedIn(m, path, k, P[k], vs[k], b, p)
  <2>1. k \in 1 .. Len(m.fragments)
    BY <1>1
  <2>2. PICK pos \in 1 .. Len(path) + 2 : pos = P[k] /\ Fits(m, path, k, pos)
    BY <1>3, <2>1
  <2>3. PICK w : w = vs[k] /\ w = Captured(m, path, k, pos)
    BY <1>2, <2>2
  <2>4. \E b \in Nat, p \in Nat : CapturedIn(m, path, k, pos, w, b, p)
    BY <2>1, <2>2, <2>3, CapturedSays
  <2> QED
    BY <2>2, <2>3, <2>4
<1>5. \A k \in 1 .. n : NoSlash(vs[k])
  <2> SUFFICES ASSUME NEW k \in 1 .. n PROVE NoSlash(vs[k])
    OBVIOUS
  <2>1. PICK b \in Nat, p \in Nat : CapturedIn(m, path, k, P[k], vs[k], b, p)
    BY <1>4
  <2> QED
    BY <2>1, Zenon DEF CapturedIn, NoSlash
<1>6. ValuesOf(m, vs)
  BY <1>1, <1>2, <1>5, Zenon DEF ValuesOf, NoSlash
<1>7. ASSUME NEW k \in 1 .. Len(m.fragments)
      PROVE  \E b \in Nat, p \in Nat : Stretch(m, path, P, vs, k, b, p)
  <2>1. PICK pos \in 1 .. Len(path) + 2 : pos = P[k] /\ Fits(m, path, k, pos)
    BY <1>3
  <2>2. PICK q \in Nat : pos = q + 1
    BY <1>0
  <2>3. PICK f \in Seq(Nat) : f = m.fragments[k]
    BY DEF IsMatcher
  <2>4. PICK b \in Nat : b = pos + Len(f) /\ b = Behind(m, k, pos) /\ b >= 1
    <3>1. Behind(m, k, pos) = pos + Len(f)
      BY <2>3, Zenon DEF Behind
    <3>2. pos + Len(f) \in Nat /\ pos + Len(f) >= 1
      BY <2>2
    <3> QED
      BY <3>1, <3>2
  <2>5. b <= Len(path) + 1 /\ SubSeq(path, pos, b - 1) = f
    <3>1. ~(b - 1 > Len(path)) /\ SubSeq(path, pos, b - 1) = f
      BY <2>1, <2>3, <2>4, Zenon DEF Fits
    <3> QED
      BY <1>0, <2>4, <3>1
  <2>6. Occurs(path, f, q)
    <3>1. q + 1 = pos /\ q + Len(f) = b - 1 /\ q + Len(f) <= Len(path)
      BY <1>0, <2>2, <2>4, <2>5
    <3> QED
      BY <1>0, <2>5, <3>1, SubSeqSays
  <2>7. P[k + 1] = Onward(m, path, k, pos)
    BY <2>1, Zenon DEF Course
  <2>8. q = P[k] - 1
    BY <2>1, <2>2
  <2>9. CASE k <= n
    <3>1. k \in 1 .. n /\ ~(k > n)
      BY <2>9
    <3>2. PICK v : v = vs[k] /\ v = ValueAt(vs, k)
      BY <1>2, <3>1, Zenon DEF ValueAt
    <3>3. PICK bb \in Nat, p \in Nat : CapturedIn(m, path, k, pos, v, bb, p)
      BY <1>4, <2>1, <3>1, <3>2
    <3>4. /\ bb = b /\ p = Slash(m, path, k, pos) /\ b <= p /\ p <= Len(path) + 1
          /\ v \in Seq(Nat) /\ Len(v) = p - b
          /\ \A i \in 1 .. p - b : v[i] = path[b + i - 1]
      BY <2>4, <3>3, Zenon DEF CapturedIn
    <3>5. p = b + Len(v) /\ Occurs(path, v, b - 1)
      <4>1. p = b + Len(v)
        BY <3>4
      <4>2. \A i \in 1 .. p - b : b + i - 1 = (b - 1) + i
        OBVIOUS
      <4>3. \A i \in 1 .. Len(v) : path[(b - 1) + i] = v[i]
        BY <3>4, <4>2
      <4> QED
        BY <4>1, <4>3, Zenon DEF Occurs
    <3>6. P[k + 1] = p + 1
      BY <1>1, <2>7, <3>1, <3>4, Zenon DEF Onward
    <3>7. p <= Len(path) => path[p] = c.slash
      <4>1. Found(path, c.slash, b, p)
        <5>1. pos \in Nat /\ pos >= 1 /\ ~(Behind(m, k, pos) - 1 > Len(path))
          BY <1>0, <2>2, <2>4, <2>5
        <5>2. Found(path, c.slash, Behind(m, k, pos), Slash(m, path, k, pos))
          BY <1>0, <5>1, GoesOn
        <5> QED
          BY <2>4, <3>4, <5>2
      <4> QED
        BY <4>1, Zenon DEF Found
    <3>8. b = P[k] + Len(m.fragments[k]) /\ Occurs(path, m.fragments[k], P[k] - 1)
      BY <2>1, <2>3, <2>4, <2>6, <2>8, Zenon
    <3>9. p = b + Len(ValueAt(vs, k)) /\ Occurs(path, ValueAt(vs, k), b - 1)
      BY <3>2, <3>5, Zenon
    <3> QED
      BY <1>1, <2>5, <3>1, <3>4, <3>6, <3>7, <3>8, <3>9, Zenon DEF Stretch
  <2>10. CASE ~(k <= n)
    <3>1. k > n /\ k \notin 1 .. n
      BY <2>10
    <3>2. ValueAt(vs, k) = <<>>
      BY <1>2, <3>1, Zenon DEF ValueAt
    <3>3. b = b + Len(ValueAt(vs, k)) /\ Occurs(path, ValueAt(vs, k), b - 1)
      BY <3>2 DEF Occurs
    <3>4. P[k + 1] = b
      BY <1>1, <2>4, <2>7, <3>1, Zenon DEF Onward
    <3>5. b = P[k] + Len(m.fragments[k]) /\ Occurs(path, m.fragments[k], P[k] - 1)
      BY <2>1, <2>3, <2>4, <2>6, <2>8, Zenon
    <3> QED
      BY <1>1, <2>5, <2>10, <3>3, <3>4, <3>5, Zenon DEF Stretch
  <2> QED
    BY <2>9, <2>10
<1> QED
  BY <1>1, <1>2, <1>5, <1>6, <1>7, Zenon

\* Where the pieces end
Ends(m, P, vs) ==
  [k \in 0 .. Len(m.fragments) |->
     IF k = 0 THEN 0
     ELSE P[k] + Len(m.fragments[k]) + Len(ValueAt(vs, k)) + Joint(m, k) - 1]

LEMMA EndsSay ==
  ASSUME NEW m, IsMatcher(m), NEW path, Path(path), NEW P, Course(m, path, Len(m.fragments), P),
         AllFit(m, path, P, 1), NEW vs, vs = ValuesFrom(m, path, P, 1),
         NEW L, L = Ends(m, P, vs), NEW k \in 1 .. Len(m.fragments)
  PROVE  /\ P[k] \in Nat /\ P[k] >= 1 /\ L[k - 1] = P[k] - 1 /\ L[k - 1] \in Nat /\ L[k] \in Nat
         /\ L[k] = L[k - 1] + Len(Piece(m, vs, k)) /\ L[k] <= Len(path)
         /\ Occurs(path, Piece(m, vs, k), L[k - 1])
<1>0. path \in Seq(Nat)
  BY DEF Path
<1>1. PICK n \in Nat, o \in Nat : n = Len(m.names) /\ o = Len(m.fragments) /\ o \in {n, n + 1}
  BY DEF IsMatcher
<1>2. /\ ValuesOf(m, vs)
      /\ \A i \in 1 .. o : \E b \in Nat, p \in Nat : Stretch(m, path, P, vs, i, b, p)
  BY <1>1, ValuesFound
<1>3. \A i \in 1 .. o : P[i] \in Nat /\ P[i] >= 1
  <2>1. \A i \in 1 .. o : P[i] \in 1 .. Len(path) + 2
    <3>1. \A i \in 1 .. o : i \in 1 .. Len(m.fragments) + 1
      BY <1>1
    <3> QED
      BY <3>1, CourseIn, Zenon
  <2> QED
    BY <1>0, <2>1
<1>4. \A i \in 1 .. o : m.fragments[i] \in Seq(Nat) /\ ValueAt(vs, i) \in Seq(Nat)
  <2> SUFFICES ASSUME NEW i \in 1 .. o PROVE m.fragments[i] \in Seq(Nat) /\ ValueAt(vs, i) \in Seq(Nat)
    OBVIOUS
  <2>1. i \in 1 .. Len(m.fragments)
    BY <1>1
  <2>2. ValuesOf(m, vs)
    BY <1>2
  <2>3. ValueAt(vs, i) \in Seq(Nat)
    BY <2>1, <2>2, PieceSays
  <2> QED
    BY <2>1, <2>3 DEF IsMatcher
<1>5. ASSUME NEW i \in 1 .. o
      PROVE  /\ L[i] = P[i] + Len(m.fragments[i]) + Len(ValueAt(vs, i)) + Joint(m, i) - 1
             /\ L[i] \in Nat
  <2>1. i \in 0 .. o /\ i # 0
    OBVIOUS
  <2>2. L[i] = P[i] + Len(m.fragments[i]) + Len(ValueAt(vs, i)) + Joint(m, i) - 1
    BY <1>1, <2>1, Zenon DEF Ends
  <2>3. Joint(m, i) \in Nat
    BY DEF Joint
  <2>4. PICK x \in Nat, y \in Nat, z \in Nat, j \in Nat :
          x = P[i] /\ x >= 1 /\ y = Len(m.fragments[i]) /\ z = Len(ValueAt(vs, i)) /\ j = Joint(m, i)
    <3>1. P[i] \in Nat /\ P[i] >= 1 /\ m.fragments[i] \in Seq(Nat) /\ ValueAt(vs, i) \in Seq(Nat)
      BY <1>3, <1>4, Zenon
    <3>2. Len(m.fragments[i]) \in Nat /\ Len(ValueAt(vs, i)) \in Nat
      BY <3>1
    <3> QED
      BY <2>3, <3>1, <3>2, Zenon
  <2>5. x + y + z + j - 1 \in Nat
    <3>1. x >= 1
      BY <2>4
    <3> QED
      BY <3>1
  <2> QED
    BY <2>2, <2>4, <2>5, Zenon
<1>6. L[0] = 0
  <2>1. 0 \in 0 .. o
    OBVIOUS
  <2> QED
    BY <1>1, <2>1, Zenon DEF Ends
\* The next fragment is on the path, so the slash before it is.
<1>7. ASSUME NEW i \in 1 .. o, i < o
      PROVE  /\ P[i + 1] = P[i] + Len(m.fragments[i]) + Len(ValueAt(vs, i)) + 1
             /\ P[i] + Len(m.fragments[i]) + Len(ValueAt(vs, i)) <= Len(path)
             /\ path[P[i] + Len(m.fragments[i]) + Len(ValueAt(vs, i))] = c.slash
             /\ L[i] = P[i + 1] - 1
  <2>1. i <= Len(m.names) /\ i + 1 \in 1 .. o
    BY <1>1, <1>7
  <2>2. PICK b \in Nat, p \in Nat : Stretch(m, path, P, vs, i, b, p)
    BY <1>2
  <2>3. PICK d \in Nat, e \in Nat : Stretch(m, path, P, vs, i + 1, d, e)
    BY <1>2, <2>1
  <2>4. /\ b = P[i] + Len(m.fragments[i]) /\ p = b + Len(ValueAt(vs, i))
        /\ P[i + 1] = p + 1 /\ (p <= Len(path) => path[p] = c.slash)
    BY <2>1, <2>2, Zenon DEF Stretch
  <2>5. d = P[i + 1] + Len(m.fragments[i + 1]) /\ d <= Len(path) + 1
    BY <2>3, Zenon DEF Stretch
  <2>6. m.fragments[i + 1] \in Seq(Nat)
    BY <1>4, <2>1
  <2>7. p <= Len(path)
    <3>1. PICK y \in Nat, z \in Nat : y = Len(m.fragments[i + 1]) /\ z = Len(path)
      BY <1>0, <2>6
    <3>2. d = (p + 1) + y /\ d <= z + 1
      BY <2>4, <2>5, <3>1
    <3>3. p <= z
      BY <3>2
    <3> QED
      BY <3>1, <3>3
  <2>8. Joint(m, i) = 1
    BY <1>1, <1>7 DEF Joint
  <2>9. L[i] = p
    <3>1. L[i] = p + Joint(m, i) - 1
      BY <1>5, <2>4
    <3> QED
      BY <2>8, <3>1
  <2> QED
    BY <2>4, <2>7, <2>9
<1>8. L[k - 1] = P[k] - 1
  <2>1. CASE k = 1
    <3>1. P[1] = 1
      BY Zenon DEF Course
    <3> QED
      BY <1>6, <2>1, <3>1
  <2>2. CASE k # 1
    <3>1. PICK i \in 1 .. o : i < o /\ k = i + 1 /\ k - 1 = i
      BY <1>1, <2>2
    <3> QED
      BY <1>7, <3>1
  <2> QED
    BY <2>1, <2>2
<1>9. k \in 1 .. o
  BY <1>1
<1>10. PICK x \in Nat, f \in Seq(Nat), v \in Seq(Nat) :
         x = P[k] /\ x >= 1 /\ f = m.fragments[k] /\ v = ValueAt(vs, k)
  BY <1>3, <1>4, <1>9
<1>11. L[k - 1] = x - 1 /\ L[k - 1] \in Nat
  BY <1>8, <1>10
<1>12. PICK w : w = Piece(m, vs, k)
  OBVIOUS
<1>13. /\ w \in Seq(Nat) /\ Len(w) = Len(f) + Len(v) + Joint(m, k)
       /\ \A t : \A i \in Nat : Occurs(t, w, i) <=> PieceIn(m, vs, k, t, i)
  BY <1>2, <1>10, <1>12, PieceSays
<1>14. L[k] = x + Len(f) + Len(v) + Joint(m, k) - 1 /\ L[k] \in Nat
  BY <1>5, <1>9, <1>10
<1>15. L[k] = L[k - 1] + Len(w)
  <2>1. Joint(m, k) \in Nat
    BY DEF Joint
  <2> QED
    BY <1>11, <1>13, <1>14, <2>1
<1>16. PICK b \in Nat, p \in Nat : Stretch(m, path, P, vs, k, b, p)
  BY <1>2, <1>9
<1>17. /\ b = x + Len(f) /\ p = b + Len(v) /\ p <= Len(path) + 1
       /\ Occurs(path, f, x - 1) /\ Occurs(path, v, b - 1)
  BY <1>10, <1>16, Zenon DEF Stretch
<1>18. L[k] <= Len(path)
  <2>1. CASE k < o
    <3>1. L[k] = p
      <4>1. Joint(m, k) = 1
        BY <1>1, <2>1 DEF Joint
      <4> QED
        BY <1>14, <1>17, <4>1
    <3>2. x + Len(f) + Len(v) <= Len(path)
      BY <1>7, <1>9, <1>10, <2>1
    <3> QED
      BY <1>17, <3>1, <3>2
  <2>2. CASE ~(k < o)
    <3>1. Joint(m, k) = 0
      BY <1>1, <2>2 DEF Joint
    <3> QED
      BY <1>0, <1>14, <1>17, <3>1
  <2> QED
    BY <2>1, <2>2
<1>19. PieceIn(m, vs, k, path, x - 1)
  <2>1. Occurs(path, m.fragments[k], x - 1)
    BY <1>10, <1>17
  <2>2. Occurs(path, ValueAt(vs, k), x - 1 + Len(m.fragments[k]))
    <3>1. x - 1 + Len(f) = b - 1
      BY <1>17
    <3> QED
      BY <1>10, <1>17, <3>1, Zenon
  <2>3. k < Len(m.fragments) => path[x - 1 + Len(m.fragments[k]) + Len(ValueAt(vs, k)) + 1] = c.slash
    <3> SUFFICES ASSUME k < o PROVE path[x - 1 + Len(f) + Len(v) + 1] = c.slash
      BY <1>1, <1>10, Zenon
    <3>1. x - 1 + Len(f) + Len(v) + 1 = x + Len(f) + Len(v)
      OBVIOUS
    <3>2. path[x + Len(f) + Len(v)] = c.slash
      BY <1>7, <1>9, <1>10
    <3> QED
      BY <3>1, <3>2
  <2> QED
    BY <2>1, <2>2, <2>3, Zenon DEF PieceIn
<1>20. Occurs(path, w, L[k - 1])
  <2>1. PICK i \in Nat : i = L[k - 1] /\ i = x - 1
    BY <1>11
  <2>2. PieceIn(m, vs, k, path, i)
    BY <1>19, <2>1
  <2> QED
    BY <1>13, <2>1, <2>2, Zenon
<1> QED
  BY <1>10, <1>11, <1>12, <1>14, <1>15, <1>18, <1>20, Zenon

\* The beginning of a sequence
LEMMA Beginning ==
  ASSUME NEW s \in Seq(Nat), NEW l \in Nat, l <= Len(s), NEW t, t = SubSeq(s, 1, l)
  PROVE  /\ t \in Seq(Nat) /\ Len(t) = l /\ \A i \in 1 .. l : t[i] = s[i]
         /\ l = Len(s) => t = s
         /\ l + 1 = Len(s) => s = t \o <<s[l + 1]>>
<1>1. t \in Seq(Nat) /\ Len(t) = l /\ \A i \in 1 .. l : t[i] = s[i]
  OBVIOUS
<1>2. l = Len(s) => t = s
  BY <1>1
<1>3. ASSUME l + 1 = Len(s) PROVE s = t \o <<s[l + 1]>>
  <2>1. PICK x \in Nat : x = s[l + 1]
    BY <1>3
  <2>2. PICK u : u = t \o <<x>>
    OBVIOUS
  <2>3. u \in Seq(Nat) /\ Len(u) = l + 1 /\ u[l + 1] = x /\ \A i \in 1 .. l : u[i] = t[i]
    BY <1>1, <2>2
  <2>4. \A i \in 1 .. Len(s) : s[i] = u[i]
    <3> SUFFICES ASSUME NEW i \in 1 .. Len(s) PROVE s[i] = u[i]
      OBVIOUS
    <3>1. i \in 1 .. l \/ i = l + 1
      BY <1>3
    <3> QED
      BY <1>1, <2>1, <2>3, <3>1
  <2>5. s = u
    BY <1>3, <2>3, <2>4, SeqEqual
  <2> QED
    BY <2>1, <2>2, <2>5
<1> QED
  BY <1>1, <1>2, <1>3

\* Where values are found, the path is the pattern filled with them, perhaps with a slash
\* behind it.
LEMMA FilledFound ==
  ASSUME NEW m, IsMatcher(m), NEW path, Path(path), NEW P, Course(m, path, Len(m.fragments), P),
         AllFit(m, path, P, 1), NEW vs, vs = ValuesFrom(m, path, P, 1)
  PROVE  path = Filled(m, vs) \/ path = Filled(m, vs) \o <<c.slash>>
<1>0. path \in Seq(Nat)
  BY DEF Path
<1>1. PICK n \in Nat, o \in Nat : n = Len(m.names) /\ o = Len(m.fragments) /\ o \in {n, n + 1}
  BY DEF IsMatcher
<1>2. PICK L : L = Ends(m, P, vs)
  OBVIOUS
<1>3. \A k \in 1 .. o :
        /\ P[k] \in Nat /\ P[k] >= 1 /\ L[k - 1] = P[k] - 1 /\ L[k - 1] \in Nat /\ L[k] \in Nat
        /\ L[k] = L[k - 1] + Len(Piece(m, vs, k)) /\ L[k] <= Len(path)
        /\ Occurs(path, Piece(m, vs, k), L[k - 1])
  <2> SUFFICES ASSUME NEW k \in 1 .. Len(m.fragments)
      PROVE  /\ P[k] \in Nat /\ P[k] >= 1 /\ L[k - 1] = P[k] - 1 /\ L[k - 1] \in Nat /\ L[k] \in Nat
             /\ L[k] = L[k - 1] + Len(Piece(m, vs, k)) /\ L[k] <= Len(path)
             /\ Occurs(path, Piece(m, vs, k), L[k - 1])
    BY <1>1, Zenon
  <2> QED
    BY <1>2, EndsSay
<1>4. L[0] = 0 /\ L = [k \in 0 .. o |-> L[k]]
  <2>1. 0 \in 0 .. o
    OBVIOUS
  <2>2. L[0] = 0
    BY <1>1, <1>2, <2>1, Zenon DEF Ends
  <2>3. L = [k \in 0 .. o |-> L[k]]
    BY <1>1, <1>2 DEF Ends
  <2> QED
    BY <2>2, <2>3
<1>5. L \in [0 .. o -> Nat]
  <2>1. \A k \in 0 .. o : L[k] \in Nat
    <3>1. \A k \in 0 .. o : k = 0 \/ k \in 1 .. o
      OBVIOUS
    <3>2. 0 \in Nat
      OBVIOUS
    <3> QED
      BY <1>3, <1>4, <3>1, <3>2, Zenon
  <2> QED
    BY <1>4, <2>1, Zenon
<1>6. PICK l \in Nat : l = L[o] /\ l <= Len(path)
  <2>1. o \in 0 .. o /\ (o = 0 \/ o \in 1 .. o) /\ 0 <= Len(path)
    BY <1>0
  <2> QED
    BY <1>3, <1>4, <1>5, <2>1
<1>7. PICK t : t = SubSeq(path, 1, l)
  OBVIOUS
<1>8. /\ t \in Seq(Nat) /\ Len(t) = l /\ \A i \in 1 .. l : t[i] = path[i]
      /\ l = Len(path) => t = path
      /\ l + 1 = Len(path) => path = t \o <<path[l + 1]>>
  <2>1. l <= Len(path)
    BY <1>6
  <2> QED
    BY <1>0, <1>7, <2>1, Beginning
<1>9. ValuesOf(m, vs)
  BY ValuesFound
<1>10. PICK ss : ss = RoutePieces(m, vs)
  OBVIOUS
<1>11. /\ ss \in Seq(Seq(Nat)) /\ Len(ss) = o /\ \A k \in 1 .. o : ss[k] = Piece(m, vs, k)
       /\ Filled(m, vs) = FlattenSeq(ss)
  BY <1>1, <1>9, <1>10, FilledSays
<1>12. \A k \in 1 .. o : L[k - 1] <= L[k] /\ L[k] = L[k - 1] + Len(ss[k])
  <2> SUFFICES ASSUME NEW k \in 1 .. o PROVE L[k - 1] <= L[k] /\ L[k] = L[k - 1] + Len(ss[k])
    OBVIOUS
  <2>1. L[k - 1] \in Nat /\ ss[k] \in Seq(Nat) /\ L[k] = L[k - 1] + Len(ss[k])
    BY <1>3, <1>11
  <2>2. PICK x \in Nat, y \in Nat : x = L[k - 1] /\ y = Len(ss[k])
    BY <2>1
  <2> QED
    BY <2>1, <2>2
<1>13. \A k \in 1 .. o : L[k] <= l
  <2> SUFFICES ASSUME NEW k \in 1 .. o PROVE L[k] <= L[o]
    BY <1>6
  <2>1. k \in 0 .. o
    OBVIOUS
  <2>2. \A j \in 1 .. o : L[j - 1] <= L[j]
    BY <1>12
  <2> QED
    BY <1>5, <2>1, <2>2, Rising
<1>14. ASSUME NEW k \in 1 .. o PROVE Occurs(t, ss[k], L[k - 1])
  <2>1. PICK w \in Seq(Nat) : w = ss[k] /\ w = Piece(m, vs, k)
    BY <1>11
  <2>2. PICK x \in Nat : x = L[k - 1] /\ x + Len(w) <= l
    BY <1>3, <1>12, <1>13, <2>1
  <2>3. Occurs(path, w, x)
    BY <1>3, <2>1, <2>2
  <2>4. ASSUME NEW j \in 1 .. Len(w) PROVE t[x + j] = w[j]
    <3>1. x + j \in 1 .. l
      BY <2>2
    <3> QED
      BY <1>8, <2>3, <3>1 DEF Occurs
  <2> QED
    BY <2>1, <2>2, <2>4 DEF Occurs
<1>15. Places(ss, t, L)
  <2>1. L[Len(ss)] = Len(t)
    BY <1>6, <1>8, <1>11
  <2>2. \A k \in 1 .. Len(ss) : L[k] = L[k - 1] + Len(ss[k]) /\ L[k] <= Len(t) /\ Occurs(t, ss[k], L[k - 1])
    BY <1>8, <1>11, <1>12, <1>13, <1>14, Zenon
  <2> QED
    BY <1>4, <1>5, <1>11, <2>1, <2>2, Zenon DEF Places
<1>16. t = Filled(m, vs)
  <2>1. PICK u : u = FlattenSeq(ss)
    OBVIOUS
  <2>2. u \in Seq(Nat) /\ \E M : Places(ss, u, M)
    BY <1>11, <2>1, Flattened
  <2>3. PICK M : Places(ss, u, M)
    BY <2>2
  <2>4. t = u
    BY <1>8, <1>11, <1>15, <2>2, <2>3, PlacesSame
  <2> QED
    BY <1>11, <2>1, <2>4
<1>17. l = Len(path) \/ (l + 1 = Len(path) /\ path[l + 1] = c.slash)
  <2>1. P[o + 1] > Len(path)
    BY <1>1, Zenon DEF AllFit
  <2>2. CASE o = 0
    <3>1. P[1] = 1
      BY Zenon DEF Course
    <3> QED
      <4>1. o + 1 = 1
        BY <2>2
      <4>2. 1 > Len(path)
        BY <2>1, <3>1, <4>1, Zenon
      <4> QED
        BY <1>0, <1>4, <1>6, <2>2, <4>2
  <2>3. CASE o # 0
    <3>1. o \in 1 .. Len(m.fragments) /\ o \in 1 .. o
      BY <1>1, <2>3
    <3>2. \A k \in 1 .. Len(m.fragments) : \E b \in Nat, p \in Nat : Stretch(m, path, P, vs, k, b, p)
      BY ValuesFound
    <3>3. PICK b \in Nat, p \in Nat : Stretch(m, path, P, vs, o, b, p)
      BY <3>1, <3>2
    <3>4. /\ b = P[o] + Len(m.fragments[o]) /\ p = b + Len(ValueAt(vs, o)) /\ p <= Len(path) + 1
          /\ o <= Len(m.names) => P[o + 1] = p + 1 /\ (p <= Len(path) => path[p] = c.slash)
          /\ o > Len(m.names) => P[o + 1] = b /\ p = b
      BY <3>3, Zenon DEF Stretch
    <3>5. l = p - 1
      <4>1. Joint(m, o) = 0
        BY <1>1 DEF Joint
      <4>2. o \in 0 .. o
        OBVIOUS
      <4>3. L[o] = P[o] + Len(m.fragments[o]) + Len(ValueAt(vs, o)) + Joint(m, o) - 1
        BY <1>1, <1>2, <2>3, <4>2, Zenon DEF Ends
      <4>4. L[o] = p + 0 - 1
        BY <3>4, <4>1, <4>3, Zenon
      <4> QED
        BY <1>6, <4>4
    <3>6. p <= Len(path) + 1 /\ p >= Len(path)
      <4>1. o <= Len(m.names) \/ o > Len(m.names)
        BY <1>1
      <4>2. PICK e \in Nat : e = Len(path)
        BY <1>0
      <4>3. CASE o <= Len(m.names)
        <5>1. p + 1 > e
          BY <2>1, <3>4, <4>2, <4>3, Zenon
        <5>2. p >= e
          BY <5>1
        <5> QED
          BY <3>4, <4>2, <5>2
      <4>4. CASE o > Len(m.names)
        <5>1. p > e
          BY <2>1, <3>4, <4>2, <4>4, Zenon
        <5>2. p >= e
          BY <5>1
        <5> QED
          BY <3>4, <4>2, <5>2
      <4> QED
        BY <4>1, <4>3, <4>4
    <3>7. CASE p = Len(path) + 1
      BY <3>5, <3>7
    <3>8. CASE p # Len(path) + 1
      <4>1. p = Len(path) /\ l + 1 = p
        BY <1>0, <3>5, <3>6, <3>8
      <4>2. o <= Len(m.names)
        BY <1>1, <2>1, <3>4, <4>1
      <4> QED
        BY <3>4, <4>1, <4>2
    <3> QED
      BY <3>7, <3>8
  <2> QED
    BY <2>2, <2>3
<1> QED
  BY <1>8, <1>16, <1>17, Zenon

\* Values without slashes the pattern is filled with
Fillable(m, vs) == ValuesOf(m, vs) /\ \A k \in 1 .. Len(m.names) : NoSlash(vs[k])

\* The k-th piece stands in the path from behind x up to e.
PieceStands(m, path, vs, k, x, e) ==
  /\ PieceIn(m, vs, k, path, x)
  /\ e = x + Len(m.fragments[k]) + Len(ValueAt(vs, k)) + Joint(m, k) /\ e <= Len(path)
  /\ k = Len(m.fragments) => e = Len(path)

\* A piece that is there is recognised: the fragment fits, and the search goes on behind it.
LEMMA AtPiece ==
  ASSUME NEW m, IsMatcher(m), NEW path, Path(path), NEW vs, Fillable(m, vs),
         NEW k \in 1 .. Len(m.fragments), NEW x \in Nat, NEW e \in Nat, PieceStands(m, path, vs, k, x, e)
  PROVE  /\ Fits(m, path, k, x + 1)
         /\ k < Len(m.fragments) => Onward(m, path, k, x + 1) = e + 1
         /\ k = Len(m.fragments) => Onward(m, path, k, x + 1) > Len(path)
<1>0. path \in Seq(Nat) /\ ValuesOf(m, vs)
  BY DEF Path, Fillable
<1>a. /\ PieceIn(m, vs, k, path, x)
      /\ e = x + Len(m.fragments[k]) + Len(ValueAt(vs, k)) + Joint(m, k) /\ e <= Len(path)
      /\ k = Len(m.fragments) => e = Len(path)
  BY Zenon DEF PieceStands
<1>1. PICK n \in Nat, o \in Nat : n = Len(m.names) /\ o = Len(m.fragments) /\ o \in {n, n + 1}
  BY DEF IsMatcher
<1>2. PICK f \in Seq(Nat), v \in Seq(Nat) : f = m.fragments[k] /\ v = ValueAt(vs, k)
  <2>1. ValueAt(vs, k) \in Seq(Nat)
    BY <1>0, PieceSays
  <2>2. m.fragments[k] \in Seq(Nat)
    BY DEF IsMatcher
  <2> QED
    BY <2>1, <2>2
<1>3. PICK y \in Nat, z \in Nat, j \in Nat : y = Len(f) /\ z = Len(v) /\ j = Joint(m, k) /\ e = x + y + z + j
  <2>1. Joint(m, k) \in Nat
    BY DEF Joint
  <2>2. PICK y \in Nat, z \in Nat, j \in Nat : y = Len(f) /\ z = Len(v) /\ j = Joint(m, k)
    BY <2>1
  <2>3. e = x + y + z + j
    BY <1>a, <1>2, <2>2, Zenon
  <2> QED
    BY <2>2, <2>3
<1>4. /\ Occurs(path, f, x) /\ Occurs(path, v, x + y)
      /\ k < o => path[x + y + z + 1] = c.slash
  BY <1>a, <1>1, <1>2, <1>3, Zenon DEF PieceIn
<1>5. PICK l \in Nat : l = Len(path) /\ e <= l /\ (k = o => e = l)
  BY <1>a, <1>0, <1>1
<1>6. (k < o => j = 1) /\ (k = o => j = 0)
  BY <1>1, <1>3 DEF Joint
<1>7. PICK b \in Nat : b = x + 1 + y /\ b = Behind(m, k, x + 1) /\ b - 1 = x + y
  <2>1. Behind(m, k, x + 1) = x + 1 + y
    BY <1>2, <1>3, Zenon DEF Behind
  <2>2. x + 1 + y \in Nat /\ (x + 1 + y) - 1 = x + y
    OBVIOUS
  <2> QED
    BY <2>1, <2>2
<1>8. Fits(m, path, k, x + 1)
  <2>1. ~(b - 1 > Len(path)) /\ x + Len(f) <= Len(path)
    <3>1. e = x + y + z + j /\ y = Len(f)
      BY <1>3
    <3>2. x + y <= l
      BY <1>5, <3>1
    <3> QED
      BY <1>5, <1>7, <3>1, <3>2
  <2>2. SubSeq(path, x + 1, x + Len(f)) = f
    BY <1>0, <1>4, <2>1, SubSeqSays
  <2>3. b - 1 = x + Len(f)
    BY <1>3, <1>7
  <2> QED
    BY <1>2, <1>7, <2>1, <2>2, <2>3, Zenon DEF Fits
<1>9. CASE k <= n
  <2>1. k \in 1 .. n /\ ~(k > n) /\ (k < o \/ k = o)
    BY <1>1, <1>9
  <2>2. NoSlash(v)
    BY <1>0, <1>1, <1>2, <2>1, Zenon DEF Fillable, ValuesOf, ValueAt
  <2>3. PICK p \in Nat : p = b + z
    OBVIOUS
  <2>4. p <= l + 1 /\ (k < o => p = e) /\ (k = o => p = l + 1)
    <3>1. e = x + y + z + j
      BY <1>3
    <3>2. p = x + y + z + 1
      <4>1. b = x + 1 + y
        BY <1>7
      <4> QED
        BY <2>3, <4>1
    <3>3. CASE k < o
      BY <1>5, <1>6, <3>1, <3>2, <3>3
    <3>4. CASE k = o
      BY <1>5, <1>6, <3>1, <3>2, <3>4
    <3> QED
      BY <2>1, <3>3, <3>4
  <2>5. p <= Len(path) => path[p] = c.slash
    <3>1. p = x + y + z + 1
      <4>1. b = x + 1 + y
        BY <1>7
      <4> QED
        BY <2>3, <4>1
    <3>2. CASE k < o
      BY <1>4, <3>1, <3>2
    <3>3. CASE k = o
      BY <1>5, <2>4, <3>3
    <3> QED
      BY <2>1, <3>2, <3>3
  <2>6. ASSUME NEW i \in Nat, b <= i, i < p PROVE path[i] # c.slash
    <3>1. PICK a \in 1 .. Len(v) : i = (x + y) + a
      <4>1. i - (x + y) \in 1 .. z /\ i = (x + y) + (i - (x + y))
        BY <1>7, <2>3, <2>6
      <4> QED
        BY <1>3, <4>1
    <3>2. path[(x + y) + a] = v[a] /\ v[a] # c.slash
      BY <1>4, <2>2, Zenon DEF Occurs, NoSlash
    <3> QED
      BY <3>1, <3>2
  <2>7. Found(path, c.slash, b, p)
    <3>1. b <= p /\ p <= Len(path) + 1
      BY <1>5, <2>3, <2>4
    <3> QED
      BY <2>5, <2>6, <3>1, Zenon DEF Found
  <2>8. FindFrom(path, c.slash, b) = p
    <3>1. b >= 1 /\ b <= Len(path) + 1
      BY <1>5, <1>7, <2>3, <2>4
    <3>2. Found(path, c.slash, b, FindFrom(path, c.slash, b))
      BY <1>0, <3>1, FindSays
    <3> QED
      BY <1>0, <2>7, <3>2, FoundOnce
  <2>9. Onward(m, path, k, x + 1) = p + 1
    BY <1>1, <1>7, <2>1, <2>8, Zenon DEF Onward, Slash
  <2>10. k = o => p + 1 > Len(path)
    BY <1>5, <2>4
  <2> QED
    BY <1>1, <1>8, <2>4, <2>9, <2>10, Zenon
<1>10. CASE ~(k <= n)
  <2>1. k > n /\ k = o /\ ~(k < o) /\ k \notin 1 .. n
    BY <1>1, <1>10
  <2>2. v = <<>>
    BY <1>0, <1>1, <1>2, <2>1, Zenon DEF ValuesOf, ValueAt
  <2>3. z = 0 /\ j = 0
    BY <1>3, <1>6, <2>1, <2>2
  <2>4. Onward(m, path, k, x + 1) = b
    BY <1>1, <1>7, <2>1, Zenon DEF Onward
  <2>5. b > Len(path)
    BY <1>3, <1>5, <1>7, <2>1, <2>3
  <2> QED
    BY <1>1, <1>8, <2>1, <2>4, <2>5, Zenon
<1> QED
  BY <1>9, <1>10

\* The pattern filled with values without slashes is recognised.
LEMMA FilledMatches ==
  ASSUME NEW m, IsMatcher(m), NEW path, Path(path), NEW P, Course(m, path, Len(m.fragments), P),
         NEW vs, Fillable(m, vs), path = Filled(m, vs)
  PROVE  AllFit(m, path, P, 1)
<1>0. path \in Seq(Nat) /\ ValuesOf(m, vs)
  BY DEF Path, Fillable
<1>1. PICK o \in Nat : o = Len(m.fragments)
  BY DEF IsMatcher
<1>2. PICK ss : ss = RoutePieces(m, vs)
  OBVIOUS
<1>3. /\ ss \in Seq(Seq(Nat)) /\ Len(ss) = o /\ \A k \in 1 .. o : ss[k] = Piece(m, vs, k)
      /\ path = FlattenSeq(ss)
  BY <1>0, <1>1, <1>2, FilledSays
<1>4. PICK L : Places(ss, path, L)
  <2>1. \E L : Places(ss, FlattenSeq(ss), L)
    BY <1>3, Flattened
  <2> QED
    BY <1>3, <2>1
<1>5. /\ L \in [0 .. o -> Nat] /\ L[0] = 0 /\ L[o] = Len(path)
      /\ \A k \in 1 .. o : L[k] = L[k - 1] + Len(ss[k]) /\ L[k] <= Len(path) /\ Occurs(path, ss[k], L[k - 1])
  BY <1>3, <1>4, Zenon DEF Places
<1>6. ASSUME NEW k \in 1 .. o, P[k] = L[k - 1] + 1
      PROVE  /\ Fits(m, path, k, P[k]) /\ (k < o => P[k + 1] = L[k] + 1)
             /\ (k = o => P[k + 1] > Len(path))
  <2>1. k - 1 \in 0 .. o /\ k \in 0 .. o /\ k \in 1 .. Len(m.fragments)
    BY <1>1
  <2>2. PICK x \in Nat, e \in Nat : x = L[k - 1] /\ e = L[k] /\ e <= Len(path) /\ P[k] = x + 1
    BY <1>5, <1>6, <2>1
  <2>3. PICK w : w = ss[k] /\ w = Piece(m, vs, k)
    BY <1>3
  <2>4. /\ Len(w) = Len(m.fragments[k]) + Len(ValueAt(vs, k)) + Joint(m, k)
        /\ \A t : \A i \in Nat : Occurs(t, w, i) <=> PieceIn(m, vs, k, t, i)
        /\ ValueAt(vs, k) \in Seq(Nat)
    BY <1>0, <2>1, <2>3, PieceSays
  <2>5. PieceIn(m, vs, k, path, x)
    BY <1>5, <2>2, <2>3, <2>4, Zenon
  <2>6. e = x + Len(m.fragments[k]) + Len(ValueAt(vs, k)) + Joint(m, k)
    <3>1. e = x + Len(w)
      BY <1>5, <2>2, <2>3, Zenon
    <3>2. PICK y \in Nat, z \in Nat, j \in Nat :
            y = Len(m.fragments[k]) /\ z = Len(ValueAt(vs, k)) /\ j = Joint(m, k)
      <4>1. m.fragments[k] \in Seq(Nat) /\ Joint(m, k) \in Nat
        BY <2>1 DEF IsMatcher, Joint
      <4> QED
        BY <2>4, <4>1
    <3>3. e = x + y + z + j
      <4>1. Len(w) = y + z + j
        BY <2>4, <3>2, Zenon
      <4> QED
        BY <3>1, <4>1
    <3> QED
      BY <3>2, <3>3, Zenon
  <2>7. k = Len(m.fragments) => e = Len(path)
    BY <1>1, <1>5, <2>2
  <2>8. /\ Fits(m, path, k, x + 1)
        /\ k < Len(m.fragments) => Onward(m, path, k, x + 1) = e + 1
        /\ k = Len(m.fragments) => Onward(m, path, k, x + 1) > Len(path)
    <3>1. PieceStands(m, path, vs, k, x, e)
      BY <2>2, <2>5, <2>6, <2>7, Zenon DEF PieceStands
    <3> QED
      BY <2>1, <3>1, AtPiece
  <2>9. P[k + 1] = Onward(m, path, k, x + 1)
    BY <2>1, <2>2, Zenon DEF Course
  <2> QED
    BY <1>1, <2>2, <2>8, <2>9, Zenon
<1> DEFINE S == {j \in Nat : j < o => P[j + 1] = L[j] + 1}
<1>7. 0 \in S
  <2>1. P[1] = 1
    BY Zenon DEF Course
  <2> QED
    BY <1>5, <2>1
<1>8. ASSUME NEW j \in Nat, j \in S PROVE j + 1 \in S
  <2> SUFFICES ASSUME j + 1 < o PROVE P[(j + 1) + 1] = L[j + 1] + 1
    OBVIOUS
  <2>1. PICK k \in 1 .. o : k = j + 1 /\ k - 1 = j /\ k < o
    OBVIOUS
  <2>2. P[k] = L[k - 1] + 1
    BY <1>8, <2>1
  <2> HIDE DEF S
  <2>3. P[k + 1] = L[k] + 1
    BY <1>6, <2>1, <2>2
  <2> QED
    BY <2>1, <2>3, Zenon
<1>9. ASSUME NEW k \in 1 .. o PROVE P[k] = L[k - 1] + 1
  <2> HIDE DEF S
  <2>1. \A j \in Nat : j \in S => j + 1 \in S
    BY <1>8
  <2>2. PICK j \in Nat : j = k - 1 /\ j + 1 = k /\ j < o
    OBVIOUS
  <2>3. j \in S
    BY <1>7, <2>1, Counting
  <2> QED
    BY <2>2, <2>3 DEF S
<1>10. \A j \in 1 .. Len(m.fragments) : Fits(m, path, j, P[j])
  BY <1>1, <1>6, <1>9, Zenon
<1>11. P[o + 1] > Len(path)
  <2>1. CASE o = 0
    <3>1. P[1] = 1 /\ Len(path) = 0
      BY <1>5, <2>1 DEF Course
    <3>2. o + 1 = 1
      BY <2>1
    <3> QED
      BY <3>1, <3>2
  <2>2. CASE o # 0
    <3>1. o \in 1 .. o
      BY <2>2
    <3> QED
      BY <1>6, <1>9, <3>1, Zenon
  <2> QED
    BY <2>1, <2>2
<1> QED
  BY <1>1, <1>10, <1>11, Zenon DEF AllFit

\* What PathParamsMatcher makes of the pattern from i on, g being what it makes of it further on
MatcherFrom(pattern, g, i) ==
  IF i > Len(pattern) THEN [fragments |-> <<>>, names |-> <<>>]
  ELSE IF FindFrom(pattern, c.colon, i) > Len(pattern)
  THEN [fragments |-> <<SubSeq(pattern, i, Len(pattern))>>, names |-> <<>>]
  ELSE [fragments |-> <<SubSeq(pattern, i, FindFrom(pattern, c.colon, i) - 1)>>
                        \o g[FindFrom(pattern, c.slash, FindFrom(pattern, c.colon, i) + 1) + 1].fragments,
        names     |-> <<SubSeq(pattern, FindFrom(pattern, c.colon, i) + 1,
                               FindFrom(pattern, c.slash, FindFrom(pattern, c.colon, i) + 1) - 1)>>
                        \o g[FindFrom(pattern, c.slash, FindFrom(pattern, c.colon, i) + 1) + 1].names]

MatchersFrom(pattern, low, g) == g = [i \in low .. Len(pattern) + 2 |-> MatcherFrom(pattern, g, i)]

\* Behind a parameter the search goes on further on.
LEMMA NextFragment ==
  ASSUME NEW pattern \in Seq(Nat), NEW i \in Nat, i >= 1, ~(i > Len(pattern)),
         NEW a, a = FindFrom(pattern, c.colon, i), ~(a > Len(pattern)),
         NEW b, b = FindFrom(pattern, c.slash, a + 1)
  PROVE  /\ a \in Nat /\ b \in Nat /\ i <= a /\ a < b /\ b <= Len(pattern) + 1
         /\ b + 1 \in i + 1 .. Len(pattern) + 2
<1>1. PICK l \in Nat : l = Len(pattern) /\ i <= l
  OBVIOUS
<1>2. Found(pattern, c.colon, i, a)
  BY <1>1, FindSays
<1>3. a \in Nat /\ i <= a /\ a <= l
  <2>1. a \in Nat /\ i <= a
    BY <1>2, Zenon DEF Found
  <2> QED
    BY <1>1, <2>1
<1>4. Found(pattern, c.slash, a + 1, b)
  <2>1. a + 1 \in Nat /\ a + 1 >= 1 /\ a + 1 <= Len(pattern) + 1
    BY <1>1, <1>3
  <2> QED
    BY <2>1, FindSays
<1>5. b \in Nat /\ a + 1 <= b /\ b <= Len(pattern) + 1
  BY <1>4, Zenon DEF Found
<1> QED
  BY <1>1, <1>3, <1>5

LEMMA MatcherFurtherOn ==
  ASSUME NEW pattern \in Seq(Nat), NEW i \in Nat, i >= 1, NEW g, NEW h,
         \A j \in i + 1 .. Len(pattern) + 2 : g[j] = h[j]
  PROVE  MatcherFrom(pattern, g, i) = MatcherFrom(pattern, h, i)
<1>1. PICK a, b : a = FindFrom(pattern, c.colon, i) /\ b = FindFrom(pattern, c.slash, a + 1)
  OBVIOUS
<1>2. CASE i > Len(pattern)
  BY <1>2, Zenon DEF MatcherFrom
<1>3. CASE ~(i > Len(pattern)) /\ a > Len(pattern)
  BY <1>1, <1>3, Zenon DEF MatcherFrom
<1>4. CASE ~(i > Len(pattern)) /\ ~(a > Len(pattern))
  <2>1. b + 1 \in i + 1 .. Len(pattern) + 2
    BY <1>1, <1>4, NextFragment
  <2>2. g[b + 1] = h[b + 1]
    BY <2>1, Zenon
  <2> QED
    BY <1>1, <1>4, <2>2, Zenon DEF MatcherFrom
<1> QED
  BY <1>2, <1>3, <1>4

LEMMA MatcherExists ==
  ASSUME NEW pattern \in Seq(Nat) PROVE \E g : MatchersFrom(pattern, 1, g)
<1>1. PICK n \in Nat : n = Len(pattern) + 1 /\ n + 1 = Len(pattern) + 2
  OBVIOUS
<1> DEFINE Upward(low, g) == g = [i \in low .. n + 1 |-> MatcherFrom(pattern, g, i)]
           S == {j \in Nat : j <= n => \E g : Upward(n + 1 - j, g)}
<1>2. 0 \in S
  <2>1. PICK l \in Nat : l = n + 1 - 0 /\ l = n + 1
    OBVIOUS
  <2>2. l > Len(pattern)
    BY <1>1, <2>1
  <2> DEFINE g == [i \in l .. l |-> [fragments |-> <<>>, names |-> <<>>]]
  <2>3. g = [i \in l .. l |-> MatcherFrom(pattern, g, i)]
    <3>1. \A i \in l .. l : i > Len(pattern)
      BY <2>2
    <3>2. \A i \in l .. l : MatcherFrom(pattern, g, i) = [fragments |-> <<>>, names |-> <<>>]
      BY <3>1, Zenon DEF MatcherFrom
    <3>3. g = [i \in l .. l |-> [fragments |-> <<>>, names |-> <<>>]]
      OBVIOUS
    <3> HIDE DEF g
    <3> QED
      BY <3>2, <3>3, Zenon
  <2> HIDE DEF g
  <2>4. Upward(l, g)
    BY <2>1, <2>3, Zenon
  <2> QED
    BY <2>1, <2>4
<1>3. ASSUME NEW j \in Nat, j \in S PROVE j + 1 \in S
  <2> SUFFICES ASSUME j + 1 <= n PROVE \E h : Upward(n + 1 - (j + 1), h)
    OBVIOUS
  <2>1. PICK l \in Nat : l = n + 1 - (j + 1) /\ l + 1 = n + 1 - j /\ l >= 1
    <3>1. n + 1 - (j + 1) = n - j /\ n - j >= 1 /\ n - j \in Nat /\ n + 1 - j = (n - j) + 1
      OBVIOUS
    <3> QED
      BY <3>1
  <2>2. PICK g : Upward(l + 1, g)
    <3>1. j <= n
      OBVIOUS
    <3> QED
      BY <1>3, <2>1, <3>1
  <2> HIDE DEF S
  <2>3. \A i \in l + 1 .. n + 1 : g[i] = MatcherFrom(pattern, g, i)
    BY <2>2, Zenon
  <2> DEFINE h == [i \in l .. n + 1 |-> IF i = l THEN MatcherFrom(pattern, g, l) ELSE g[i]]
  <2>4. h = [i \in l .. n + 1 |-> h[i]]
    OBVIOUS
  <2>5. h[l] = MatcherFrom(pattern, g, l)
    <3>1. l \in l .. n + 1
      BY <2>1
    <3> QED
      BY <3>1, Zenon
  <2>6. \A i \in l + 1 .. n + 1 : h[i] = g[i]
    <3>1. \A i \in l + 1 .. n + 1 : i \in l .. n + 1 /\ i # l
      OBVIOUS
    <3> QED
      BY <3>1, Zenon
  <2> HIDE DEF h
  <2>7. ASSUME NEW i \in l .. n + 1 PROVE h[i] = MatcherFrom(pattern, h, i)
    <3>1. i \in Nat /\ i >= 1 /\ (i # l => i \in l + 1 .. n + 1) /\ \A k \in i + 1 .. n + 1 : k \in l + 1 .. n + 1
      BY <2>1
    <3>2. h[i] = MatcherFrom(pattern, g, i)
      BY <2>3, <2>5, <2>6, <3>1, Zenon
    <3>3. \A k \in i + 1 .. n + 1 : g[k] = h[k]
      BY <2>6, <3>1, Zenon
    <3>4. \A k \in i + 1 .. Len(pattern) + 2 : g[k] = h[k]
      BY <1>1, <3>3, Zenon
    <3>5. MatcherFrom(pattern, g, i) = MatcherFrom(pattern, h, i)
      BY <3>1, <3>4, MatcherFurtherOn
    <3> QED
      BY <3>2, <3>5, Zenon
  <2>8. Upward(l, h)
    BY <2>4, <2>7, Zenon
  <2> QED
    BY <2>1, <2>8
<1>4. n \in S
  <2> HIDE DEF S
  <2>1. \A j \in Nat : j \in S => j + 1 \in S
    BY <1>3
  <2> QED
    BY <1>2, <2>1, Counting
<1>5. n <= n /\ n + 1 - n = 1
  OBVIOUS
<1>6. PICK g : Upward(1, g)
  BY <1>4, <1>5
<1> QED
  BY <1>1, <1>6, Zenon DEF MatchersFrom

\* A pattern is cut into fragments and, behind each or each but the last, a parameter.
LEMMA PatternIsMatcher ==
  ASSUME NEW pattern \in Seq(Nat) PROVE IsMatcher(PathParamsMatcher(pattern))
<1>1. PICK n \in Nat : n = Len(pattern) + 1 /\ n + 1 = Len(pattern) + 2
  OBVIOUS
<1> DEFINE g == CHOOSE f : MatchersFrom(pattern, 1, f)
<1>2. MatchersFrom(pattern, 1, g)
  BY MatcherExists, Zenon
<1>3. PathParamsMatcher(pattern) = g[1]
  BY Zenon DEF PathParamsMatcher, MatchersFrom, MatcherFrom
<1> HIDE DEF g
<1>4. \A i \in 1 .. n + 1 : g[i] = MatcherFrom(pattern, g, i)
  BY <1>1, <1>2, Zenon DEF MatchersFrom
<1>5. ASSUME NEW i \in Nat, i >= 1, i <= n + 1, \A j \in i + 1 .. n + 1 : IsMatcher(g[j])
      PROVE  IsMatcher(g[i])
  <2>1. g[i] = MatcherFrom(pattern, g, i)
    BY <1>4, <1>5
  <2>2. PICK a, b : a = FindFrom(pattern, c.colon, i) /\ b = FindFrom(pattern, c.slash, a + 1)
    OBVIOUS
  <2>3. CASE i > Len(pattern)
    <3>1. g[i] = [fragments |-> <<>>, names |-> <<>>]
      BY <2>1, <2>3, Zenon DEF MatcherFrom
    <3> QED
      BY <3>1 DEF IsMatcher
  <2>4. CASE ~(i > Len(pattern)) /\ a > Len(pattern)
    <3>1. g[i] = [fragments |-> <<SubSeq(pattern, i, Len(pattern))>>, names |-> <<>>]
      BY <2>1, <2>2, <2>4, Zenon DEF MatcherFrom
    <3>2. PICK w \in Seq(Nat) : w = SubSeq(pattern, i, Len(pattern))
      <4>1. PICK l \in Nat : l = Len(pattern)
        OBVIOUS
      <4>2. i \in Int /\ l \in Int /\ \A j \in i .. l : pattern[j] \in Nat
        BY <1>5, <4>1
      <4>3. SubSeq(pattern, i, l) \in Seq(Nat)
        BY <4>2, SubSeqProperties
      <4> QED
        BY <4>1, <4>3
    <3>3. <<w>> \in Seq(Seq(Nat)) /\ Len(<<w>>) = 1 /\ <<>> \in Seq(Seq(Nat)) /\ Len(<<>>) = 0
      OBVIOUS
    <3> QED
      BY <3>1, <3>2, <3>3 DEF IsMatcher
  <2>5. CASE ~(i > Len(pattern)) /\ ~(a > Len(pattern))
    <3>1. /\ a \in Nat /\ b \in Nat /\ i <= a /\ a < b /\ b <= Len(pattern) + 1
          /\ b + 1 \in i + 1 .. Len(pattern) + 2
      BY <1>5, <2>2, <2>5, NextFragment
    <3>2. PICK more : more = g[b + 1]
      OBVIOUS
    <3>3. IsMatcher(more)
      BY <1>1, <1>5, <3>1, <3>2
    <3>4. PICK w, v : w = SubSeq(pattern, i, a - 1) /\ v = SubSeq(pattern, a + 1, b - 1)
      OBVIOUS
    <3>5. w \in Seq(Nat) /\ v \in Seq(Nat)
      <4>1. /\ i \in Int /\ a - 1 \in Int /\ a + 1 \in Int /\ b - 1 \in Int
            /\ \A j \in i .. a - 1 : pattern[j] \in Nat
            /\ \A j \in a + 1 .. b - 1 : pattern[j] \in Nat
        <5>1. PICK l \in Nat : l = Len(pattern)
          OBVIOUS
        <5>2. PICK p \in Nat, q \in Nat : p = a /\ q = b /\ i <= p /\ p < q /\ q <= l + 1
          BY <3>1, <5>1
        <5>3. \A j \in 1 .. l : pattern[j] \in Nat
          BY <5>1
        <5>4. (\A j \in i .. p - 1 : j \in 1 .. l) /\ (\A j \in p + 1 .. q - 1 : j \in 1 .. l)
          BY <1>5, <5>2
        <5>5. i \in Int /\ p - 1 \in Int /\ p + 1 \in Int /\ q - 1 \in Int
          BY <5>2
        <5> QED
          BY <5>2, <5>3, <5>4, <5>5, Zenon
      <4>2. SubSeq(pattern, i, a - 1) \in Seq(Nat)
        BY <4>1, SubSeqProperties
      <4>3. SubSeq(pattern, a + 1, b - 1) \in Seq(Nat)
        BY <4>1, SubSeqProperties
      <4> QED
        BY <3>4, <4>2, <4>3, Zenon
    <3>6. g[i] = [fragments |-> <<w>> \o more.fragments, names |-> <<v>> \o more.names]
      BY <2>1, <2>2, <2>5, <3>2, <3>4, Zenon DEF MatcherFrom
    <3>7. PICK F \in Seq(Seq(Nat)), N \in Seq(Seq(Nat)) :
            F = more.fragments /\ N = more.names /\ Len(F) \in {Len(N), Len(N) + 1}
      BY <3>3 DEF IsMatcher
    <3>8. PICK G, M : G = <<w>> \o F /\ M = <<v>> \o N
      OBVIOUS
    <3>9. /\ G \in Seq(Seq(Nat)) /\ Len(G) = Len(F) + 1
          /\ M \in Seq(Seq(Nat)) /\ Len(M) = Len(N) + 1
      BY <3>5, <3>8
    <3>10. g[i] = [fragments |-> G, names |-> M]
      BY <3>6, <3>7, <3>8, Zenon
    <3>11. Len(G) \in {Len(M), Len(M) + 1}
      <4>1. PICK x \in Nat, y \in Nat : x = Len(F) /\ y = Len(N) /\ x \in {y, y + 1}
        BY <3>7
      <4>2. Len(G) = x + 1 /\ Len(M) = y + 1
        BY <3>9, <4>1, Zenon
      <4>3. x + 1 \in {y + 1, (y + 1) + 1}
        BY <4>1
      <4> QED
        BY <4>2, <4>3, Zenon
    <3>12. g[i].fragments = G /\ g[i].names = M
      BY <3>10
    <3> QED
      BY <3>9, <3>11, <3>12, Zenon DEF IsMatcher
  <2> QED
    BY <2>3, <2>4, <2>5
<1> DEFINE S == {j \in Nat : j <= n => \A i \in n + 1 - j .. n + 1 : IsMatcher(g[i])}
<1>6. 0 \in S
  <2>1. IsMatcher(g[n + 1])
    <3>1. n + 1 \in Nat /\ n + 1 >= 1 /\ (n + 1) + 1 .. n + 1 = {}
      OBVIOUS
    <3> QED
      BY <1>5, <3>1
  <2>2. \A i \in n + 1 - 0 .. n + 1 : i = n + 1
    OBVIOUS
  <2> QED
    BY <2>1, <2>2
<1>7. ASSUME NEW j \in Nat, j \in S PROVE j + 1 \in S
  <2> SUFFICES ASSUME j + 1 <= n, NEW i \in n + 1 - (j + 1) .. n + 1 PROVE IsMatcher(g[i])
    OBVIOUS
  <2>1. \A k \in n + 1 - j .. n + 1 : IsMatcher(g[k])
    BY <1>7
  <2> HIDE DEF S
  <2>2. CASE i \in n + 1 - j .. n + 1
    BY <2>1, <2>2
  <2>3. CASE i \notin n + 1 - j .. n + 1
    <3>1. i \in Nat /\ i >= 1 /\ i <= n + 1 /\ \A k \in i + 1 .. n + 1 : k \in n + 1 - j .. n + 1
      BY <2>3
    <3>2. \A k \in i + 1 .. n + 1 : IsMatcher(g[k])
      BY <2>1, <3>1, Zenon
    <3> QED
      BY <1>5, <3>1, <3>2
  <2> QED
    BY <2>2, <2>3
<1>8. n \in S
  <2> HIDE DEF S
  <2>1. \A j \in Nat : j \in S => j + 1 \in S
    BY <1>7
  <2> QED
    BY <1>6, <2>1, Counting
<1>9. IsMatcher(g[1])
  <2>1. n <= n /\ 1 \in n + 1 - n .. n + 1
    OBVIOUS
  <2> QED
    BY <1>8, <2>1
<1> QED
  BY <1>3, <1>9, Zenon

\* Patterns and paths of any characters
RouteItem(x) == x.pattern \in Seq(Nat) /\ Path(x.path)

\* A path matches a pattern exactly if it is the pattern filled with values without slashes,
\* with one more slash at its end at most, and those are the values that are handed out.
LEMMA MatchesFilled ==
  ASSUME NEW m, IsMatcher(m), NEW path, Path(path)
  PROVE  /\ match(m, path) # NoMatch =>
              /\ Len(match(m, path)) = Len(m.names) /\ ValuesOf(m, match(m, path))
              /\ path \in {Filled(m, match(m, path)), Filled(m, match(m, path)) \o <<c.slash>>}
              /\ \A k \in 1 .. Len(m.names) : NoSlash(match(m, path)[k])
         /\ match(m, path) = NoMatch => \A vs : Fillable(m, vs) => Filled(m, vs) # path
<1>1. PICK P : Course(m, path, Len(m.fragments), P) /\ match(m, path) = Outcome(m, path, P, 1)
  BY MatchIs
<1>2. CASE AllFit(m, path, P, 1)
  <2>1. PICK vs : vs = ValuesFrom(m, path, P, 1) /\ match(m, path) = vs
    BY <1>1, <1>2, Zenon DEF Outcome
  <2>2. vs # NoMatch
    <3>1. path \in Seq(Nat)
      BY DEF Path
    <3>2. P[1] = 1
      BY <1>1, Zenon DEF Course
    <3>3. 1 \in Nat /\ 1 >= 1 /\ P[1] \in 1 .. Len(path) + 2
      BY <3>1, <3>2
    <3> QED
      BY <1>2, <2>1, <3>3, NoneIsNone
  <2>3. ValuesOf(m, vs) /\ Len(vs) = Len(m.names) /\ \A k \in 1 .. Len(m.names) : NoSlash(vs[k])
    BY <1>1, <1>2, <2>1, ValuesFound
  <2>4. path = Filled(m, vs) \/ path = Filled(m, vs) \o <<c.slash>>
    BY <1>1, <1>2, <2>1, FilledFound
  <2> QED
    BY <2>1, <2>2, <2>3, <2>4, Zenon
<1>3. CASE ~AllFit(m, path, P, 1)
  <2>1. match(m, path) = NoMatch
    BY <1>1, <1>3, Zenon DEF Outcome
  <2>2. \A vs : Fillable(m, vs) => Filled(m, vs) # path
    BY <1>1, <1>3, FilledMatches
  <2> QED
    BY <2>1, <2>2, Zenon
<1> QED
  BY <1>2, <1>3

\* A request whose pattern has parameters is answered as match says, for every pattern and path.
LEMMA RouteMatches ==
  ASSUME item.kind = "route", RouteItem(item) PROVE ParamsMatch
<1>1. PICK m : m = PathParamsMatcher(item.pattern)
  OBVIOUS
<1>2. PICK path : path = item.path
  OBVIOUS
<1>3. PICK values : values = match(m, path)
  OBVIOUS
<1>4. IsMatcher(m) /\ Path(path)
  BY <1>1, <1>2, PatternIsMatcher DEF RouteItem
<1>5. PICK n \in Nat : n = Len(m.names) /\ DOMAIN m.names = 1 .. n
  BY <1>4 DEF IsMatcher
<1>6. ASSUME values # NoMatch
      PROVE  /\ Len(values) = Len(m.names)
             /\ path \in {Filled(m, values), Filled(m, values) \o <<c.slash>>}
             /\ \A k \in DOMAIN values : c.slash \notin ToSet(values[k])
  <2>1. /\ Len(values) = Len(m.names) /\ ValuesOf(m, values)
        /\ path \in {Filled(m, values), Filled(m, values) \o <<c.slash>>}
        /\ \A k \in 1 .. Len(m.names) : NoSlash(values[k])
    BY <1>3, <1>4, <1>6, MatchesFilled, Zenon
  <2>2. DOMAIN values = 1 .. Len(m.names)
    BY <2>1, Zenon DEF ValuesOf
  <2>3. ASSUME NEW v, NoSlash(v) PROVE c.slash \notin ToSet(v)
    <3>1. DOMAIN v = 1 .. Len(v) /\ \A i \in 1 .. Len(v) : v[i] # c.slash
      BY <2>3 DEF NoSlash
    <3> QED
      BY <3>1, Zenon DEF ToSet
  <2> QED
    BY <2>1, <2>2, <2>3, Zenon
<1>7. ASSUME values = NoMatch, NEW vs \in [DOMAIN m.names -> Strings({97}, 2)]
      PROVE  Filled(m, vs) # path
  <2>1. DOMAIN vs = 1 .. Len(m.names) /\ \A k \in 1 .. Len(m.names) : vs[k] \in Strings({97}, 2)
    BY <1>5, Zenon
  <2>2. ASSUME NEW v \in Strings({97}, 2) PROVE v \in Seq(Nat) /\ NoSlash(v)
    <3>1. PICK l \in 0 .. 2 : v \in [1 .. l -> {97}]
      BY DEF Strings, BoundedSeq, SeqOf
    <3>2. v \in Seq(Nat) /\ Len(v) = l /\ \A i \in 1 .. l : v[i] = 97
      BY <3>1
    <3>3. 97 # c.slash
      BY DEF c
    <3> QED
      BY <3>2, <3>3, Zenon DEF NoSlash
  <2>3. Fillable(m, vs)
    BY <2>1, <2>2, Zenon DEF Fillable, ValuesOf
  <2> QED
    BY <1>3, <1>4, <1>7, <2>3, MatchesFilled, Zenon
<1> QED
  BY <1>1, <1>2, <1>3, <1>6, <1>7, Zenon DEF ParamsMatch

\* What reaches the files of a mount point or the handler of a pattern is what the path of the
\* request says, for paths and patterns of any length and any number of parameters: no path
\* is_valid_path lets through leads out of its directory, and match hands out the values the
\* pattern is filled with, and finds none only if there are none.
THEOREM PathsAreRight ==
  /\ (item.kind = "path" /\ PathItem(item)) \/ (item.kind = "route" /\ RouteItem(item))
  /\ [][Next]_<<vars, item>>
  => []PathsRight
<1> DEFINE Mounted == item.kind = "path" /\ PathItem(item)
           Routed  == item.kind = "route" /\ RouteItem(item)
<1>1. Mounted => ParamsMatch
  BY DEF ParamsMatch
<1>2. Routed => PathBelowMount /\ ParamsMatch
  BY RouteMatches DEF PathBelowMount
<1>3. Mounted /\ [Next]_<<vars, item>> => Mounted'
  BY DEF Next, PathItem
<1>4. Routed /\ [Next]_<<vars, item>> => Routed'
  BY DEF Next, RouteItem, Path
<1>5. PathBelowMount /\ ParamsMatch => PathsRight
  BY DEF PathsRight
<1> QED
  BY <1>1, <1>2, <1>3, <1>4, <1>5, PathsStayBelow, PTL

-----------------------------------------------------------------------------
(***************************************************************************)
(* Trimming and splitting                                                  *)
(***************************************************************************)
Blanks == {c.space, c.tab}

\* Neither the first nor the last character is blank.
Trimmed(w) == w # <<>> => w[1] \notin Blanks /\ w[Len(w)] \notin Blanks

\* t says w behind its first i characters, and nothing else that is not blank.
BlankBut(t, w, i) ==
  /\ Occurs(t, w, i) /\ i + Len(w) <= Len(t)
  /\ \A j \in Nat : 1 <= j /\ j <= Len(t) /\ (j <= i \/ i + Len(w) < j) => t[j] \in Blanks

LEMMA LeastIs ==
  ASSUME NEW S, S \subseteq Nat, NEW p \in S, \A y \in S : p <= y PROVE Min(S) = p
<1>1. \A x \in S : (\A y \in S : x <= y) => x = p
  OBVIOUS
<1> QED
  BY <1>1 DEF Min

LEMMA GreatestIs ==
  ASSUME NEW S, S \subseteq Nat, NEW p \in S, \A y \in S : y <= p PROVE Max(S) = p
<1>1. \A x \in S : (\A y \in S : x >= y) => x = p
  OBVIOUS
<1>2. \A y \in S : p >= y
  OBVIOUS
<1> QED
  BY <1>1, <1>2 DEF Max

LEMMA LeastExists ==
  ASSUME NEW S, S \subseteq Nat, S # {} PROVE \E p \in S : \A y \in S : p <= y
<1>1. \E z \in S : \A y \in S : ~(<<y, z>> \in OpToRel(<, Nat))
  BY WFMin, NatLessThanWellFounded
<1>2. \A y, z \in Nat : y < z => <<y, z>> \in OpToRel(<, Nat)
  BY DEF OpToRel
<1>3. PICK u \in S : \A y \in S : ~(<<y, u>> \in OpToRel(<, Nat))
  BY <1>1
<1>4. \A y \in S : ~(y < u)
  BY <1>2, <1>3, Zenon
<1> QED
  BY <1>4

LEMMA GreatestExists ==
  ASSUME NEW n \in Nat, NEW S, S \subseteq Nat, S # {}, \A y \in S : y <= n
  PROVE  \E p \in S : \A y \in S : y <= p
<1> DEFINE D == {n - y : y \in S}
<1>1. D \subseteq Nat /\ D # {}
  <2>1. ASSUME NEW y \in S PROVE n - y \in Nat
    <3>1. y \in Nat /\ y <= n
      OBVIOUS
    <3> QED
      BY <3>1
  <2> QED
    BY <2>1
<1>2. \A y \in S : n - y \in D
  OBVIOUS
<1>3. \A d \in D : \E y \in S : d = n - y
  OBVIOUS
<1> HIDE DEF D
<1>4. PICK d \in D : \A e \in D : d <= e
  BY <1>1, LeastExists
<1>5. PICK p \in S : d = n - p
  BY <1>3
<1>6. ASSUME NEW y \in S PROVE y <= p
  <2>1. n - p <= n - y
    BY <1>2, <1>4, <1>5
  <2>2. y \in Nat /\ p \in Nat
    OBVIOUS
  <2> QED
    BY <2>1, <2>2
<1> QED
  BY <1>6

\* The first and the last place that is not blank are those of the first and the last character
\* of w.
LEMMA BlackPlaces ==
  ASSUME NEW t \in Seq(Nat), NEW w \in Seq(Nat), NEW i \in Nat, BlankBut(t, w, i), w # <<>>, Trimmed(w)
  PROVE  /\ {j \in DOMAIN t : t[j] \notin {c.space, c.tab}} # {}
         /\ Min({j \in DOMAIN t : t[j] \notin {c.space, c.tab}}) = i + 1
         /\ Max({j \in DOMAIN t : t[j] \notin {c.space, c.tab}}) = i + Len(w)
<1>1. PICK n \in Nat : n = Len(w) /\ n >= 1
  OBVIOUS
<1>2. PICK l \in Nat : l = Len(t) /\ DOMAIN t = 1 .. l
  OBVIOUS
<1> DEFINE B == {j \in DOMAIN t : t[j] \notin {c.space, c.tab}}
<1>3. /\ i + n <= l /\ \A j \in 1 .. n : t[i + j] = w[j]
      /\ \A j \in Nat : 1 <= j /\ j <= l /\ (j <= i \/ i + n < j) => t[j] \in Blanks
  BY <1>1, <1>2, Zenon DEF BlankBut, Occurs
<1>4. w[1] \notin Blanks /\ w[n] \notin Blanks
  BY <1>1, Zenon DEF Trimmed
<1>5. \A j : j \in B <=> j \in 1 .. l /\ t[j] \notin Blanks
  BY <1>2, Zenon DEF Blanks
<1> HIDE DEF B
<1>6. B \subseteq Nat
  BY <1>2, <1>5
<1>7. i + 1 \in B /\ i + n \in B
  <2>1. 1 \in 1 .. n /\ n \in 1 .. n /\ i + 1 \in 1 .. l /\ i + n \in 1 .. l
    BY <1>1, <1>2, <1>3
  <2>2. t[i + 1] = w[1] /\ t[i + n] = w[n]
    BY <1>3, <2>1, Zenon
  <2> QED
    BY <1>4, <1>5, <2>1, <2>2, Zenon
<1>8. ASSUME NEW y \in B PROVE i + 1 <= y /\ y <= i + n
  <2>1. y \in Nat /\ 1 <= y /\ y <= l /\ t[y] \notin Blanks
    BY <1>5
  <2>2. ~(y <= i \/ i + n < y)
    BY <1>3, <2>1, Zenon
  <2> QED
    BY <2>1, <2>2
<1>9. Min(B) = i + 1
  BY <1>6, <1>7, <1>8, LeastIs
<1>10. Max(B) = i + n
  BY <1>6, <1>7, <1>8, GreatestIs
<1>11. B # {}
  BY <1>7
<1> QED
  BY <1>1, <1>9, <1>10, <1>11 DEF B

LEMMA TrimsTo ==
  ASSUME NEW t \in Seq(Nat), NEW w \in Seq(Nat), NEW i \in Nat, BlankBut(t, w, i), w # <<>>, Trimmed(w)
  PROVE  trim(t) = w
<1>1. PICK B : B = {j \in DOMAIN t : t[j] \notin {c.space, c.tab}}
  OBVIOUS
<1>2. B # {} /\ Min(B) = i + 1 /\ Max(B) = i + Len(w)
  BY <1>1, BlackPlaces, Zenon
<1>3. trim(t) = SubSeq(t, i + 1, i + Len(w))
  BY <1>1, <1>2, Zenon DEF trim
<1>4. Occurs(t, w, i) /\ i + Len(w) <= Len(t)
  BY Zenon DEF BlankBut
<1> QED
  BY <1>3, <1>4, SubSeqSays

LEMMA TrimKeeps ==
  ASSUME NEW w \in Seq(Nat), Trimmed(w) PROVE trim(w) = w
<1>1. CASE w = <<>>
  BY <1>1 DEF trim
<1>2. CASE w # <<>>
  <2>1. BlankBut(w, w, 0)
    <3>1. PICK n \in Nat : n = Len(w)
      OBVIOUS
    <3>2. Occurs(w, w, 0) /\ 0 + n <= n
      BY <3>1 DEF Occurs
    <3>3. \A j \in Nat : ~(1 <= j /\ j <= n /\ (j <= 0 \/ 0 + n < j))
      BY <3>1
    <3> QED
      BY <3>1, <3>2, <3>3, Zenon DEF BlankBut
  <2> QED
    BY <1>2, <2>1, TrimsTo
<1> QED
  BY <1>1, <1>2

\* Only what is trimmed already is left as it is.
LEMMA KeptIsTrimmed ==
  ASSUME NEW s \in Seq(Nat), trim(s) = s PROVE Trimmed(s)
<1> SUFFICES ASSUME s # <<>> PROVE s[1] \notin Blanks /\ s[Len(s)] \notin Blanks
  BY DEF Trimmed
<1>1. PICK n \in Nat : n = Len(s) /\ n >= 1 /\ DOMAIN s = 1 .. n
  OBVIOUS
<1>2. PICK B : B = {j \in DOMAIN s : s[j] \notin {c.space, c.tab}}
  OBVIOUS
<1>3. B \subseteq Nat /\ \A j : j \in B <=> j \in 1 .. n /\ s[j] \notin Blanks
  <2>1. \A j : j \in B <=> j \in 1 .. n /\ s[j] \notin Blanks
    BY <1>1, <1>2, Zenon DEF Blanks
  <2> QED
    BY <1>1, <2>1
<1>4. B # {} /\ s = SubSeq(s, Min(B), Max(B))
  <2>1. trim(s) = IF B = {} THEN <<>> ELSE SubSeq(s, Min(B), Max(B))
    BY <1>2, Zenon DEF trim
  <2> QED
    BY <2>1, Zenon
<1>5. Min(B) \in B
  <2>1. PICK p \in B : \A y \in B : p <= y
    BY <1>3, <1>4, LeastExists
  <2>2. Min(B) = p
    BY <1>3, <2>1, LeastIs
  <2> QED
    BY <2>1, <2>2
<1>6. Max(B) \in B
  <2>1. PICK p \in B : \A y \in B : y <= p
    <3>1. \A y \in B : y <= n
      BY <1>3
    <3> QED
      BY <1>3, <1>4, <3>1, GreatestExists
  <2>2. Max(B) = p
    BY <1>3, <2>1, GreatestIs
  <2> QED
    BY <2>1, <2>2
<1>7. PICK a \in Nat, b \in Nat : a = Min(B) /\ b = Max(B)
  BY <1>3, <1>5, <1>6
<1>8. a >= 1 /\ a <= n /\ b >= 1 /\ b <= n
  BY <1>1, <1>3, <1>5, <1>6, <1>7
<1>9. n = IF a <= b THEN b - a + 1 ELSE 0
  <2>1. \A i \in a .. b : s[i] \in Nat
    BY <1>1, <1>8
  <2>2. Len(SubSeq(s, a, b)) = IF a <= b THEN b - a + 1 ELSE 0
    BY <2>1, SubSeqProperties
  <2> QED
    BY <1>1, <1>4, <1>7, <2>2, Zenon
<1>10. a = 1 /\ b = n
  BY <1>1, <1>8, <1>9
<1> QED
  BY <1>1, <1>3, <1>5, <1>6, <1>7, <1>10, Zenon

PartOf(s, d, i) == trim(SubSeq(s, i, FindFrom(s, d, i) - 1))

\* A part, unless there is nothing in it
IfAny(part) == IF part = <<>> THEN <<>> ELSE <<part>>

\* What split makes of s from i on, g being what it makes of it further on
SplitAt(s, d, g, i) == IF i > Len(s) THEN <<>> ELSE IfAny(PartOf(s, d, i)) \o g[FindFrom(s, d, i) + 1]

SplitsFrom(s, d, low, g) == g = [i \in low .. Len(s) + 2 |-> SplitAt(s, d, g, i)]

LEMMA CutIsFurtherOn ==
  ASSUME NEW s \in Seq(Nat), NEW d, NEW i \in Nat, i >= 1, ~(i > Len(s))
  PROVE  FindFrom(s, d, i) + 1 \in i + 1 .. Len(s) + 2
<1>1. PICK n \in Nat : n = Len(s) /\ i <= n
  OBVIOUS
<1>2. Found(s, d, i, FindFrom(s, d, i))
  BY <1>1, FindSays
<1>3. PICK p \in Nat : p = FindFrom(s, d, i) /\ i <= p /\ p <= n + 1
  BY <1>1, <1>2, Zenon DEF Found
<1>4. p + 1 \in i + 1 .. n + 2
  BY <1>3
<1> QED
  BY <1>1, <1>3, <1>4, Zenon

LEMMA SplitFurtherOn ==
  ASSUME NEW s \in Seq(Nat), NEW d, NEW i \in Nat, i >= 1, NEW g, NEW h,
         \A j \in i + 1 .. Len(s) + 2 : g[j] = h[j]
  PROVE  SplitAt(s, d, g, i) = SplitAt(s, d, h, i)
<1>1. CASE i > Len(s)
  BY <1>1, Zenon DEF SplitAt
<1>2. CASE ~(i > Len(s))
  <2>1. g[FindFrom(s, d, i) + 1] = h[FindFrom(s, d, i) + 1]
    BY <1>2, CutIsFurtherOn, Zenon
  <2> QED
    BY <1>2, <2>1, Zenon DEF SplitAt
<1> QED
  BY <1>1, <1>2

LEMMA SplittingExists ==
  ASSUME NEW s \in Seq(Nat), NEW d PROVE \E g : SplitsFrom(s, d, 1, g)
<1>1. PICK n \in Nat : n = Len(s) + 1 /\ n + 1 = Len(s) + 2
  OBVIOUS
<1> DEFINE Upward(low, g) == g = [i \in low .. n + 1 |-> SplitAt(s, d, g, i)]
           S == {j \in Nat : j <= n => \E g : Upward(n + 1 - j, g)}
<1>2. 0 \in S
  <2>1. PICK l \in Nat : l = n + 1 - 0 /\ l = n + 1
    OBVIOUS
  <2>2. l > Len(s)
    BY <1>1, <2>1
  <2> DEFINE g == [i \in l .. l |-> <<>>]
  <2>3. g = [i \in l .. l |-> SplitAt(s, d, g, i)]
    <3>1. \A i \in l .. l : i > Len(s)
      BY <2>2
    <3>2. \A i \in l .. l : SplitAt(s, d, g, i) = <<>>
      BY <3>1, Zenon DEF SplitAt
    <3>3. g = [i \in l .. l |-> <<>>]
      OBVIOUS
    <3> HIDE DEF g
    <3> QED
      BY <3>2, <3>3, Zenon
  <2> HIDE DEF g
  <2>4. Upward(l, g)
    BY <2>1, <2>3, Zenon
  <2> QED
    BY <2>1, <2>4
<1>3. ASSUME NEW j \in Nat, j \in S PROVE j + 1 \in S
  <2> SUFFICES ASSUME j + 1 <= n PROVE \E h : Upward(n + 1 - (j + 1), h)
    OBVIOUS
  <2>1. PICK l \in Nat : l = n + 1 - (j + 1) /\ l + 1 = n + 1 - j /\ l >= 1
    <3>1. n + 1 - (j + 1) = n - j /\ n - j >= 1 /\ n - j \in Nat /\ n + 1 - j = (n - j) + 1
      OBVIOUS
    <3> QED
      BY <3>1
  <2>2. PICK g : Upward(l + 1, g)
    <3>1. j <= n
      OBVIOUS
    <3> QED
      BY <1>3, <2>1, <3>1
  <2> HIDE DEF S
  <2>3. \A i \in l + 1 .. n + 1 : g[i] = SplitAt(s, d, g, i)
    BY <2>2, Zenon
  <2> DEFINE h == [i \in l .. n + 1 |-> IF i = l THEN SplitAt(s, d, g, l) ELSE g[i]]
  <2>4. h = [i \in l .. n + 1 |-> h[i]]
    OBVIOUS
  <2>5. h[l] = SplitAt(s, d, g, l)
    <3>1. l \in l .. n + 1
      BY <2>1
    <3> QED
      BY <3>1, Zenon
  <2>6. \A i \in l + 1 .. n + 1 : h[i] = g[i]
    <3>1. \A i \in l + 1 .. n + 1 : i \in l .. n + 1 /\ i # l
      OBVIOUS
    <3> QED
      BY <3>1, Zenon
  <2> HIDE DEF h
  <2>7. ASSUME NEW i \in l .. n + 1 PROVE h[i] = SplitAt(s, d, h, i)
    <3>1. i \in Nat /\ i >= 1 /\ (i # l => i \in l + 1 .. n + 1) /\ \A k \in i + 1 .. n + 1 : k \in l + 1 .. n + 1
      BY <2>1
    <3>2. h[i] = SplitAt(s, d, g, i)
      BY <2>3, <2>5, <2>6, <3>1, Zenon
    <3>3. \A k \in i + 1 .. n + 1 : g[k] = h[k]
      BY <2>6, <3>1, Zenon
    <3>4. \A k \in i + 1 .. Len(s) + 2 : g[k] = h[k]
      BY <1>1, <3>3, Zenon
    <3>5. SplitAt(s, d, g, i) = SplitAt(s, d, h, i)
      BY <3>1, <3>4, SplitFurtherOn
    <3> QED
      BY <3>2, <3>5, Zenon
  <2>8. Upward(l, h)
    BY <2>4, <2>7, Zenon
  <2> QED
    BY <2>1, <2>8
<1>4. n \in S
  <2> HIDE DEF S
  <2>1. \A j \in Nat : j \in S => j + 1 \in S
    BY <1>3
  <2> QED
    BY <1>2, <2>1, Counting
<1>5. n <= n /\ n + 1 - n = 1
  OBVIOUS
<1>6. PICK g : Upward(1, g)
  BY <1>4, <1>5
<1> QED
  BY <1>1, <1>6, Zenon DEF SplitsFrom

Splitting(s, d, g) == \A i \in Nat : i >= 1 /\ i <= Len(s) + 2 => g[i] = SplitAt(s, d, g, i)

LEMMA SplitSays ==
  ASSUME NEW s \in Seq(Nat), NEW d
  PROVE  \E g : split(s, d) = g[1] /\ Splitting(s, d, g)
<1> DEFINE g == CHOOSE f : SplitsFrom(s, d, 1, f)
<1>1. SplitsFrom(s, d, 1, g)
  BY SplittingExists, Zenon
<1>2. split(s, d) = g[1]
  BY Zenon DEF split, SplitsFrom, SplitAt, IfAny, PartOf
<1> HIDE DEF g
<1>3. g = [i \in 1 .. Len(s) + 2 |-> SplitAt(s, d, g, i)]
  BY <1>1, Zenon DEF SplitsFrom
<1>4. \A i \in 1 .. Len(s) + 2 : g[i] = SplitAt(s, d, g, i)
  BY <1>3, Zenon
<1>5. \A i \in Nat : i >= 1 /\ i <= Len(s) + 2 => i \in 1 .. Len(s) + 2
  OBVIOUS
<1> QED
  BY <1>2, <1>4, <1>5, Zenon DEF Splitting

\* d is not in w.
Without(w, d) == \A j \in 1 .. Len(w) : w[j] # d

\* The last part, from i on
LEMMA LastPart ==
  ASSUME NEW s \in Seq(Nat), NEW d, NEW q \in Seq(Nat), NEW i \in Nat, Occurs(s, q, i), i + Len(q) = Len(s),
         Without(q, d), NEW g, Splitting(s, d, g)
  PROVE  g[i + 1] = IfAny(trim(q))
<1>1. PICK n \in Nat : n = Len(s) /\ DOMAIN s = 1 .. n
  OBVIOUS
<1>2. PICK m \in Nat : m = Len(q) /\ i + m = n
  BY <1>1
<1>3. PICK a \in Nat, z \in Nat : a = i + 1 /\ z = n + 2
  <2>1. i + 1 \in Nat /\ n + 2 \in Nat
    OBVIOUS
  <2> QED
    BY <2>1
<1>4. a >= 1 /\ a <= n + 2 /\ z >= 1 /\ z <= n + 2 /\ z > n
  BY <1>2, <1>3
<1>5. g[a] = SplitAt(s, d, g, a) /\ g[z] = SplitAt(s, d, g, z)
  BY <1>1, <1>4, Zenon DEF Splitting
<1>6. g[z] = <<>>
  BY <1>1, <1>4, <1>5, Zenon DEF SplitAt
<1>7. CASE m = 0
  <2>1. q = <<>> /\ a > n
    <3>1. Len(q) = 0
      BY <1>2, <1>7
    <3>2. q = <<>>
      BY <3>1
    <3>3. a > n
      BY <1>2, <1>3, <1>7
    <3> QED
      BY <3>2, <3>3
  <2>2. trim(q) = <<>>
    BY <2>1 DEF trim
  <2>3. g[a] = <<>>
    BY <1>1, <1>5, <2>1, Zenon DEF SplitAt
  <2> QED
    BY <1>3, <2>2, <2>3, Zenon DEF IfAny
<1>8. CASE m > 0
  <2>1. PICK e \in Nat : e = n + 1
    BY <1>1
  <2>2. ~(a > n) /\ a <= e /\ a <= n + 1 /\ e - 1 = n /\ e + 1 = z
    BY <1>2, <1>3, <1>8, <2>1
  <2>3. Found(s, d, a, e)
    <3>1. e <= n + 1 /\ ~(e <= n)
      BY <2>1
    <3>2. ASSUME NEW j \in Nat, a <= j, j < e PROVE s[j] # d
      <4>1. PICK k \in Nat : k = j - i /\ k \in 1 .. m /\ i + k = j
        <5>1. j - i \in Nat /\ j - i \in 1 .. m /\ i + (j - i) = j
          BY <1>2, <1>3, <2>1, <3>2
        <5> QED
          BY <5>1
      <4>2. s[i + k] = q[k] /\ q[k] # d
        BY <1>2, <4>1, Zenon DEF Occurs, Without
      <4> QED
        BY <4>1, <4>2, Zenon
    <3> QED
      BY <1>1, <2>2, <3>1, <3>2, Zenon DEF Found
  <2>4. FindFrom(s, d, a) = e
    <3>1. Found(s, d, a, FindFrom(s, d, a))
      BY <1>1, <1>4, <2>2, FindSays
    <3> QED
      BY <2>3, <3>1, FoundOnce
  <2>5. SubSeq(s, a, n) = q
    <3>1. SubSeq(s, i + 1, i + Len(q)) = q
      <4>1. i + Len(q) <= Len(s)
        BY <1>1, <1>2
      <4> QED
        BY <4>1, SubSeqSays
    <3> QED
      BY <1>2, <1>3, <3>1, Zenon
  <2>6. PartOf(s, d, a) = trim(q)
    BY <2>2, <2>4, <2>5, Zenon DEF PartOf
  <2>7. g[a] = IfAny(trim(q)) \o <<>>
    BY <1>1, <1>5, <1>6, <2>2, <2>4, <2>6, Zenon DEF SplitAt
  <2>8. IfAny(trim(q)) \o <<>> = IfAny(trim(q))
    <3>1. PICK w : w = trim(q)
      OBVIOUS
    <3>2. <<w>> \o <<>> = <<w>> /\ <<>> \o <<>> = <<>>
      OBVIOUS
    <3> QED
      BY <3>1, <3>2, Zenon DEF IfAny
  <2> QED
    BY <1>3, <2>7, <2>8, Zenon
<1> QED
  BY <1>2, <1>7, <1>8

\* Without a d there is one part.
LEMMA NoCut ==
  ASSUME NEW s \in Seq(Nat), NEW d, Without(s, d)
  PROVE  split(s, d) = IfAny(trim(s))
<1>1. PICK g : split(s, d) = g[1] /\ Splitting(s, d, g)
  BY SplitSays
<1>2. Occurs(s, s, 0) /\ 0 + Len(s) = Len(s) /\ 0 + 1 = 1
  BY DEF Occurs
<1>3. g[0 + 1] = IfAny(trim(s))
  BY <1>1, <1>2, LastPart
<1> QED
  BY <1>1, <1>2, <1>3, Zenon

Joined(s, p, d, q) == s = p \o <<d>> \o q

\* With one d there are two.
LEMMA OneCut ==
  ASSUME NEW s, NEW d \in Nat, NEW p \in Seq(Nat), NEW q \in Seq(Nat), Joined(s, p, d, q),
         Without(p, d), Without(q, d)
  PROVE  split(s, d) = IfAny(trim(p)) \o IfAny(trim(q))
<1>1. /\ s \in Seq(Nat) /\ Len(s) = Len(p) + 1 + Len(q)
      /\ Occurs(s, p, 0) /\ s[Len(p) + 1] = d /\ Occurs(s, q, Len(p) + 1)
  BY DEF Occurs, Joined
<1>2. PICK n \in Nat, m \in Nat : n = Len(s) /\ m = Len(p) /\ m + 1 <= n
  BY <1>1
<1>3. PICK g : split(s, d) = g[1] /\ Splitting(s, d, g)
  BY <1>1, SplitSays
<1>4. PICK b \in Nat : b = m + 1
  OBVIOUS
<1>5. Found(s, d, 1, b)
  <2>1. 1 <= b /\ b <= n + 1 /\ s[b] = d
    BY <1>1, <1>2, <1>4
  <2>2. ASSUME NEW j \in Nat, 1 <= j, j < b PROVE s[j] # d
    <3>1. j \in 1 .. m /\ 0 + j = j
      BY <1>4, <2>2
    <3>2. s[0 + j] = p[j] /\ p[j] # d
      BY <1>1, <1>2, <3>1, Zenon DEF Occurs, Without
    <3> QED
      BY <3>1, <3>2, Zenon
  <2> QED
    BY <1>2, <2>1, <2>2, Zenon DEF Found
<1>6. FindFrom(s, d, 1) = b
  <2>1. Found(s, d, 1, FindFrom(s, d, 1))
    <3>1. s \in Seq(Nat) /\ 1 \in Nat /\ 1 >= 1 /\ 1 <= Len(s) + 1
      BY <1>1, <1>2
    <3> QED
      BY <3>1, FindSays
  <2> QED
    BY <1>1, <1>5, <2>1, FoundOnce
<1>7. SubSeq(s, 1, b - 1) = p
  <2>1. SubSeq(s, 0 + 1, 0 + Len(p)) = p
    <3>1. s \in Seq(Nat) /\ 0 \in Nat /\ 0 + Len(p) <= Len(s) /\ Occurs(s, p, 0)
      BY <1>1
    <3> QED
      BY <3>1, SubSeqSays
  <2>2. 0 + 1 = 1 /\ 0 + Len(p) = b - 1
    BY <1>2, <1>4
  <2> QED
    BY <2>1, <2>2, Zenon
<1>8. PartOf(s, d, 1) = trim(p)
  BY <1>6, <1>7, Zenon DEF PartOf
<1>9. g[1] = IfAny(trim(p)) \o g[b + 1]
  <2>1. 1 >= 1 /\ 1 <= n + 2 /\ ~(1 > n)
    BY <1>2
  <2>2. g[1] = SplitAt(s, d, g, 1)
    BY <1>2, <1>3, <2>1, Zenon DEF Splitting
  <2> QED
    BY <1>2, <1>6, <1>8, <2>1, <2>2, Zenon DEF SplitAt
<1>10. g[b + 1] = IfAny(trim(q))
  <2>1. s \in Seq(Nat) /\ b + Len(q) = Len(s) /\ Occurs(s, q, b)
    BY <1>1, <1>2, <1>4
  <2>2. Splitting(s, d, g)
    BY <1>3
  <2> QED
    BY <2>1, <2>2, LastPart
<1> QED
  BY <1>3, <1>9, <1>10, Zenon

-----------------------------------------------------------------------------
(***************************************************************************)
(* Keys and values                                                         *)
(***************************************************************************)
\* The quotes around a text are taken off.
LEMMA Unquotes ==
  ASSUME NEW s \in Seq(Nat)
  PROVE  /\ <<c.quote>> \o s \o <<c.quote>> \in Seq(Nat)
         /\ trim_double_quotes_copy(<<c.quote>> \o s \o <<c.quote>>) = s
<1>1. PICK e \in Nat : e = c.quote
  BY DEF c
<1>2. PICK t \in Seq(Nat) : t = <<e>> \o s \o <<e>>
  <2>1. <<e>> \o s \o <<e>> \in Seq(Nat)
    OBVIOUS
  <2> QED
    BY <2>1, Zenon
<1>3. PICK n \in Nat : n = Len(s)
  OBVIOUS
<1>4. Len(t) = n + 2 /\ t[1] = e /\ t[n + 2] = e /\ Occurs(t, s, 1)
  BY <1>2, <1>3 DEF Occurs
<1>5. n + 2 >= 2 /\ n + 2 - 1 = n + 1 /\ 1 + 1 = 2 /\ 1 + n = n + 1 /\ 1 + n <= n + 2
  OBVIOUS
<1>6. SubSeq(t, 1 + 1, 1 + Len(s)) = s
  BY <1>3, <1>4, <1>5, SubSeqSays
<1>7. Last(t) = e
  BY <1>4, Zenon DEF Last
<1>8. trim_double_quotes_copy(t) = SubSeq(t, 2, n + 2 - 1)
  <2>1. Len(t) >= 2 /\ t[1] = c.quote /\ Last(t) = c.quote
    BY <1>1, <1>4, <1>7
  <2>2. trim_double_quotes_copy(t) = SubSeq(t, 2, Len(t) - 1)
    BY <2>1, Zenon DEF trim_double_quotes_copy
  <2>3. Len(t) - 1 = n + 2 - 1
    BY <1>4
  <2> QED
    BY <2>2, <2>3, Zenon
<1>9. trim_double_quotes_copy(t) = s
  BY <1>3, <1>5, <1>6, <1>8, Zenon
<1> QED
  BY <1>1, <1>2, <1>9, Zenon

\* A text that does not begin with one is left alone.
LEMMA NoQuotes ==
  ASSUME NEW s \in Seq(Nat), Without(s, c.quote) PROVE trim_double_quotes_copy(s) = s
<1>1. CASE Len(s) >= 2
  <2>1. 1 \in 1 .. Len(s)
    BY <1>1
  <2>2. s[1] # c.quote
    BY <2>1, Zenon DEF Without
  <2> QED
    BY <2>2, Zenon DEF trim_double_quotes_copy
<1>2. CASE ~(Len(s) >= 2)
  BY <1>2, Zenon DEF trim_double_quotes_copy
<1> QED
  BY <1>1, <1>2

\* Sequences of two
LEMMA OneAndOne == ASSUME NEW a, NEW b PROVE <<a>> \o <<b>> = <<a, b>>
<1>1. PICK A : A = {a, b}
  OBVIOUS
<1>2. PICK x \in Seq(A) : x = <<a>> /\ Len(x) = 1 /\ x[1] = a
  <2>1. <<a>> \in Seq(A) /\ Len(<<a>>) = 1 /\ <<a>>[1] = a
    BY <1>1
  <2> QED
    BY <2>1, Zenon
<1>3. PICK y \in Seq(A) : y = <<b>> /\ Len(y) = 1 /\ y[1] = b
  <2>1. <<b>> \in Seq(A) /\ Len(<<b>>) = 1 /\ <<b>>[1] = b
    BY <1>1
  <2> QED
    BY <2>1, Zenon
<1>4. PICK z \in Seq(A) : z = <<a, b>> /\ Len(z) = 2 /\ z[1] = a /\ z[2] = b
  <2>1. <<a, b>> \in Seq(A) /\ Len(<<a, b>>) = 2 /\ <<a, b>>[1] = a /\ <<a, b>>[2] = b
    BY <1>1
  <2> QED
    BY <2>1, Zenon
<1>5. PICK s \in Seq(A) : s = x \o y /\ Len(s) = 2 /\ s[1] = a /\ s[2] = b
  <2>1. /\ x \o y \in Seq(A) /\ Len(x \o y) = 2 /\ (x \o y)[1] = a /\ (x \o y)[2] = b
    BY <1>2, <1>3
  <2> QED
    BY <2>1, Zenon
<1>6. s = z
  <2>1. \A i \in 1 .. 2 : s[i] = z[i]
    <3>1. \A i \in 1 .. 2 : i = 1 \/ i = 2
      OBVIOUS
    <3> QED
      BY <1>4, <1>5, <3>1, Zenon
  <2> QED
    BY <1>4, <1>5, <2>1, SeqEqual
<1> QED
  BY <1>2, <1>3, <1>4, <1>5, <1>6, Zenon

LEMMA OneMoreOf == ASSUME NEW a, NEW b PROVE Append(<<a>>, b) = <<a, b>>
<1>1. PICK A : A = {a, b}
  OBVIOUS
<1>2. <<a>> \in Seq(A) /\ b \in A
  BY <1>1
<1> QED
  BY <1>2, AppendIsConcat, OneAndOne

LEMMA FoldOfTwo ==
  ASSUME NEW fold, NEW a, NEW b, NEW s, s = <<a, b>>
  PROVE  FoldValue(fold, <<>>, <<>>, s, 2) = Turn(fold, <<>>, Turn(fold, <<>>, <<>>, a), b)
<1>1. PICK v : Computes(fold, <<>>, <<>>, s, 2, v)
  BY Folding
<1>2. v[0] = <<>> /\ FoldValue(fold, <<>>, <<>>, s, 2) = v[2]
  BY <1>1, Zenon DEF Computes
<1>3. 1 \in 1 .. 2 /\ 2 \in 1 .. 2 /\ 1 - 1 = 0 /\ 2 - 1 = 1 /\ s[1] = a /\ s[2] = b
  OBVIOUS
<1>4. v[1] = Turn(fold, <<>>, v[1 - 1], s[1]) /\ v[2] = Turn(fold, <<>>, v[2 - 1], s[2])
  BY <1>1, <1>3, Zenon DEF Computes
<1> QED
  BY <1>2, <1>3, <1>4, Zenon

\* Two different parts are both kept.
LEMMA DistinctOfTwo ==
  ASSUME NEW a, NEW b, a # b PROVE Distinct(<<a, b>>) = <<a, b>>
<1>1. PICK s : s = <<a, b>>
  OBVIOUS
<1>2. DOMAIN s = 1 .. 2
  BY <1>1
<1>3. FoldLeft(IfNew, <<>>, s) = FoldValue("new", <<>>, <<>>, s, 2)
  BY <1>2, Zenon DEF FoldLeft, MapThenFoldSet, FoldValue, Folds, Turn, Max
<1>4. FoldValue("new", <<>>, <<>>, s, 2) = Turn("new", <<>>, Turn("new", <<>>, <<>>, a), b)
  BY <1>1, FoldOfTwo
<1>5. \A v, x : Turn("new", <<>>, v, x) = IfNew(v, x)
  BY Zenon DEF Turn
<1>6. IfNew(<<>>, a) = <<a>>
  <2>1. 1 .. Len(<<>>) = {} /\ Append(<<>>, a) = <<a>>
    OBVIOUS
  <2> QED
    BY <2>1, Zenon DEF IfNew, Contains
<1>7. IfNew(<<a>>, b) = <<a, b>>
  <2>1. \A i \in 1 .. Len(<<a>>) : <<a>>[i] = a
    OBVIOUS
  <2> QED
    BY <2>1, OneMoreOf, Zenon DEF IfNew, Contains
<1> QED
  BY <1>1, <1>3, <1>4, <1>5, <1>6, <1>7, Zenon DEF Distinct

\* A part with a key says k and v.
Says(s, k, v) == split(s, c.eq) # <<>> /\ KeyValue(s) = <<k, v>>

LEMMA KeyedOfTwo ==
  ASSUME NEW a, NEW b, NEW k, NEW v, NEW m, NEW w, Says(a, k, v), Says(b, m, w)
  PROVE  FoldLeft(WithKey, <<>>, <<a, b>>) = <<<<k, v>>, <<m, w>>>>
<1>1. PICK s : s = <<a, b>>
  OBVIOUS
<1>2. DOMAIN s = 1 .. 2
  BY <1>1
<1>3. FoldLeft(WithKey, <<>>, s) = FoldValue("keyed", <<>>, <<>>, s, 2)
  BY <1>2, Zenon DEF FoldLeft, MapThenFoldSet, FoldValue, Folds, Turn, Max
<1>4. FoldValue("keyed", <<>>, <<>>, s, 2) = Turn("keyed", <<>>, Turn("keyed", <<>>, <<>>, a), b)
  BY <1>1, FoldOfTwo
<1>5. \A u, x : Turn("keyed", <<>>, u, x) = WithKey(u, x)
  BY Zenon DEF Turn
<1>6. WithKey(<<>>, a) = Append(<<>>, <<k, v>>) /\ \A u : WithKey(u, b) = Append(u, <<m, w>>)
  BY Zenon DEF WithKey, Says
<1>7. Append(<<>>, <<k, v>>) = <<<<k, v>>>> /\ Append(<<<<k, v>>>>, <<m, w>>) = <<<<k, v>>, <<m, w>>>>
  <2>1. \A x : Append(<<>>, x) = <<x>>
    OBVIOUS
  <2> QED
    BY <2>1, OneMoreOf, Zenon
<1> QED
  BY <1>1, <1>3, <1>4, <1>5, <1>6, <1>7, Zenon

\* A key and a value without equals signs and outer blanks
Pair(s, k, v) ==
  /\ k \in Seq(Nat) /\ k # <<>> /\ Trimmed(k) /\ Without(k, c.eq)
  /\ v \in Seq(Nat) /\ Trimmed(v) /\ Without(v, c.eq)
  /\ Joined(s, k, c.eq, v)

LEMMA PairSays ==
  ASSUME NEW s, NEW k, NEW v, Pair(s, k, v) PROVE Says(s, k, v)
<1>1. c.eq \in Nat
  BY DEF c
<1>2. /\ k \in Seq(Nat) /\ k # <<>> /\ Trimmed(k) /\ Without(k, c.eq)
      /\ v \in Seq(Nat) /\ Trimmed(v) /\ Without(v, c.eq) /\ Joined(s, k, c.eq, v)
  BY Zenon DEF Pair
<1>3. split(s, c.eq) = IfAny(trim(k)) \o IfAny(trim(v))
  BY <1>1, <1>2, OneCut
<1>4. trim(k) = k /\ trim(v) = v
  BY <1>2, TrimKeeps
<1>5. IfAny(k) = <<k>>
  BY <1>2, Zenon DEF IfAny
<1>6. split(s, c.eq) = <<k>> \o IfAny(v)
  BY <1>3, <1>4, <1>5, Zenon
<1>7. CASE v = <<>>
  <2>1. IfAny(v) = <<>>
    BY <1>7, Zenon DEF IfAny
  <2>2. <<k>> \o <<>> = <<k>> /\ Len(<<k>>) = 1 /\ ~(1 > 1) /\ <<k>>[1] = k /\ <<k>> # <<>>
    OBVIOUS
  <2>3. PICK parts : parts = split(s, c.eq)
    OBVIOUS
  <2>4. parts # <<>> /\ ~(Len(parts) > 1) /\ parts[1] = k
    BY <1>6, <2>1, <2>2, <2>3, Zenon
  <2> QED
    BY <1>7, <2>3, <2>4, Zenon DEF Says, KeyValue
<1>8. CASE v # <<>>
  <2>1. IfAny(v) = <<v>>
    BY <1>8, Zenon DEF IfAny
  <2>2. PICK parts : parts = <<k, v>>
    OBVIOUS
  <2>3. <<k>> \o <<v>> = parts /\ Len(parts) = 2 /\ 2 > 1 /\ parts[1] = k /\ parts[2] = v /\ parts # <<>>
    BY <2>2, OneAndOne
  <2>4. split(s, c.eq) = parts
    BY <1>6, <2>1, <2>3, Zenon
  <2>5. Last(parts) = v
    BY <2>3, Zenon DEF Last
  <2> QED
    BY <2>3, <2>4, <2>5, Zenon DEF Says, KeyValue
<1> QED
  BY <1>7, <1>8

\* Text s is a part p and a part q, with a d between.
TwoParts(s, d, p, q) ==
  /\ p \in Seq(Nat) /\ p # <<>> /\ Trimmed(p) /\ Without(p, d)
  /\ q \in Seq(Nat) /\ q # <<>> /\ Trimmed(q) /\ Without(q, d)
  /\ p # q /\ Joined(s, p, d, q)

LEMMA TwoSaid ==
  ASSUME NEW s, NEW d \in Nat, NEW p, NEW q, TwoParts(s, d, p, q),
         NEW k, NEW v, Says(p, k, v), NEW m, NEW w, Says(q, m, w)
  PROVE  KeyValues(s, d) = <<<<k, v>>, <<m, w>>>>
<1>1. /\ p \in Seq(Nat) /\ p # <<>> /\ Trimmed(p) /\ Without(p, d)
      /\ q \in Seq(Nat) /\ q # <<>> /\ Trimmed(q) /\ Without(q, d)
      /\ p # q /\ Joined(s, p, d, q)
  BY Zenon DEF TwoParts
<1>2. split(s, d) = IfAny(trim(p)) \o IfAny(trim(q))
  BY <1>1, OneCut
<1>3. trim(p) = p /\ trim(q) = q
  BY <1>1, TrimKeeps
<1>4. IfAny(p) = <<p>> /\ IfAny(q) = <<q>> /\ <<p>> \o <<q>> = <<p, q>>
  <2>1. <<p>> \o <<q>> = <<p, q>>
    BY OneAndOne
  <2> QED
    BY <1>1, <2>1, Zenon DEF IfAny
<1>5. Distinct(split(s, d)) = <<p, q>>
  <2>1. split(s, d) = <<p, q>>
    BY <1>2, <1>3, <1>4, Zenon
  <2>2. p # q
    BY <1>1
  <2> QED
    BY <2>1, <2>2, DistinctOfTwo, Zenon
<1>6. KeyValues(s, d) = FoldLeft(WithKey, <<>>, Distinct(split(s, d)))
  BY Zenon DEF KeyValues
<1>7. FoldLeft(WithKey, <<>>, <<p, q>>) = <<<<k, v>>, <<m, w>>>>
  BY KeyedOfTwo
<1> QED
  BY <1>5, <1>6, <1>7, Zenon

\* Characters decode_url leaves alone
Plain(s, plus) == \A i \in 1 .. Len(s) : s[i] # c.percent /\ ~(s[i] = c.plus /\ plus)

LEMMA DecodesPlain ==
  ASSUME NEW s \in Seq(Nat), NEW plus, Plain(s, plus) PROVE decode_url(s, plus) = s
<1>1. PICK g : decode_url(s, plus) = g[1] /\ Decoding(s, plus, g)
  BY DecodeSays
<1>2. PICK n \in Nat : n = Len(s)
  OBVIOUS
<1>3. \A i \in 1 .. n + 1 : g[i] = DecodedFrom(s, plus, g, i)
  BY <1>1, <1>2, Zenon DEF Decoding
<1> DEFINE S == {k \in Nat : k <= n => g[n - k + 1] = From(s, n - k)}
<1>4. 0 \in S
  <2>1. PICK e \in Nat : e = n + 1 /\ e = n - 0 + 1 /\ e > n /\ e \in 1 .. n + 1
    OBVIOUS
  <2>2. g[e] = <<>>
    BY <1>2, <1>3, <2>1, Zenon DEF DecodedFrom
  <2>3. From(s, n) = <<>> /\ n - 0 = n
    BY <1>2 DEF From
  <2> QED
    BY <2>1, <2>2, <2>3
<1>5. ASSUME NEW k \in Nat, k \in S PROVE k + 1 \in S
  <2> SUFFICES ASSUME k + 1 <= n PROVE g[n - (k + 1) + 1] = From(s, n - (k + 1))
    OBVIOUS
  <2>1. PICK p \in Nat : p = n - (k + 1) /\ p + 1 = n - k /\ p + 2 = n - k + 1 /\ p + 1 <= n /\ p < n
    <3>1. n - (k + 1) \in Nat
      OBVIOUS
    <3> QED
      BY <3>1
  <2>2. g[p + 2] = From(s, p + 1)
    BY <1>5, <2>1
  <2> HIDE DEF S
  <2>3. p + 1 \in 1 .. n + 1 /\ p + 1 \in 1 .. n
    BY <2>1
  <2>4. g[p + 1] = DecodedFrom(s, plus, g, p + 1)
    BY <1>3, <2>3
  <2>5. s[p + 1] # c.percent /\ ~(s[p + 1] = c.plus /\ plus)
    BY <1>2, <2>3, Zenon DEF Plain
  <2>6. DecodedFrom(s, plus, g, p + 1) = <<s[p + 1]>> \o g[p + 2]
    <3>1. p + 1 <= Len(s)
      BY <1>2, <2>1
    <3> QED
      BY <2>5, <3>1, ReadsPlain, Zenon
  <2>7. <<s[p + 1]>> \o From(s, p + 1) = From(s, p)
    BY <1>2, <2>1, OneOfFrom
  <2>8. g[p + 1] = From(s, p)
    BY <2>2, <2>4, <2>6, <2>7, Zenon
  <2> QED
    BY <2>1, <2>8, Zenon
<1>6. n \in S
  <2> HIDE DEF S
  <2>1. \A k \in Nat : k \in S => k + 1 \in S
    BY <1>5
  <2> QED
    BY <1>4, <2>1, Counting
<1>7. g[1] = From(s, 0)
  <2>1. n <= n /\ n - n + 1 = 1 /\ n - n = 0
    OBVIOUS
  <2>2. g[n - n + 1] = From(s, n - n)
    BY <1>6, <2>1
  <2> QED
    BY <2>1, <2>2, Zenon
<1>8. From(s, 0) = s
  BY DEF From
<1> QED
  BY <1>1, <1>7, <1>8, Zenon

\* What is written of an encoded text
EncodedChars == Unreserved \cup {c.percent}

LEMMA EncodedSays ==
  /\ EncodedChars \subseteq Nat
  /\ c.eq \notin EncodedChars /\ c.amp \notin EncodedChars /\ Blanks \cap EncodedChars = {}
BY DEF EncodedChars, Unreserved, Blanks, c

LEMMA WritesEncoded ==
  ASSUME NEW s \in Seq(Octets) PROVE encode_query_param(s) \in Seq(EncodedChars)
<1> DEFINE ss == [i \in 1 .. Len(s) |-> IF s[i] \in Unreserved THEN <<s[i]>> ELSE Percent(s[i])]
<1>1. ASSUME NEW d \in 0 .. 15 PROVE HexDigit(d, 65) \in EncodedChars
  <2>1. HexDigit(d, 65) \in 48 .. 57 \cup 65 .. 90
    BY DEF HexDigit
  <2> QED
    BY <2>1, Zenon DEF EncodedChars, Unreserved
<1>2. ASSUME NEW x \in Octets PROVE Percent(x) \in Seq(EncodedChars)
  <2>1. PICK a \in 0 .. 15, b \in 0 .. 15 : Percent(x) = <<c.percent, HexDigit(a, 65), HexDigit(b, 65)>>
    BY PercentSays, Zenon
  <2>2. c.percent \in EncodedChars
    BY Zenon DEF EncodedChars
  <2>3. <<c.percent, HexDigit(a, 65), HexDigit(b, 65)>> \in Seq(EncodedChars)
    BY <1>1, <2>2, ThreeOf
  <2> QED
    BY <2>1, <2>3, Zenon
<1>3. ASSUME NEW x \in Unreserved PROVE <<x>> \in Seq(EncodedChars)
  <2>1. x \in EncodedChars
    BY Zenon DEF EncodedChars
  <2> QED
    BY <2>1
<1>4. \A i \in 1 .. Len(s) : s[i] \in Octets
  OBVIOUS
<1>5. ss \in Seq(Seq(EncodedChars))
  <2>1. \A i \in 1 .. Len(s) : ss[i] \in Seq(EncodedChars)
    BY <1>2, <1>3, <1>4, Zenon
  <2>2. ss = [i \in 1 .. Len(s) |-> ss[i]]
    OBVIOUS
  <2> HIDE DEF ss
  <2> QED
    BY <2>1, <2>2
<1>6. FlattenSeq(ss) = encode_query_param(s)
  BY Zenon DEF encode_query_param
<1> HIDE DEF ss
<1>7. FlattenSeq(ss) \in Seq(EncodedChars)
  BY <1>5, Flattened
<1> QED
  BY <1>6, <1>7, Zenon

\* so that it is not cut or trimmed.
LEMMA EncodedStays ==
  ASSUME NEW e \in Seq(EncodedChars)
  PROVE  e \in Seq(Nat) /\ Trimmed(e) /\ Without(e, c.eq) /\ Without(e, c.amp)
<1>1. \A i \in 1 .. Len(e) : e[i] \in EncodedChars
  OBVIOUS
<1>2. e \in Seq(Nat)
  <2>1. \A i \in 1 .. Len(e) : e[i] \in Nat
    BY <1>1, EncodedSays, Zenon
  <2>2. e = [i \in 1 .. Len(e) |-> e[i]] /\ Len(e) \in Nat
    OBVIOUS
  <2> QED
    BY <2>1, <2>2
<1>3. Without(e, c.eq) /\ Without(e, c.amp)
  BY <1>1, EncodedSays, Zenon DEF Without
<1>4. \A x \in EncodedChars : x \notin Blanks
  BY EncodedSays
<1>5. e # <<>> => 1 \in 1 .. Len(e) /\ Len(e) \in 1 .. Len(e)
  OBVIOUS
<1>6. Trimmed(e)
  BY <1>1, <1>4, <1>5, Zenon DEF Trimmed
<1> QED
  BY <1>2, <1>3, <1>6

LEMMA TwoMapped ==
  ASSUME NEW f, NEW a, NEW b, f = [i \in 1 .. 2 |-> f[i]], f[1] = a, f[2] = b
  PROVE  f = <<a, b>>
<1>1. PICK A : A = {a, b}
  OBVIOUS
<1>2. \A i \in 1 .. 2 : f[i] \in A
  BY <1>1
<1>3. f \in Seq(A) /\ Len(f) = 2
  BY <1>2
<1>4. PICK z \in Seq(A) : z = <<a, b>> /\ Len(z) = 2 /\ z[1] = a /\ z[2] = b
  <2>1. <<a, b>> \in Seq(A) /\ Len(<<a, b>>) = 2 /\ <<a, b>>[1] = a /\ <<a, b>>[2] = b
    BY <1>1
  <2> QED
    BY <2>1, Zenon
<1>5. \A i \in 1 .. 2 : f[i] = z[i]
  <2>1. \A i \in 1 .. 2 : i = 1 \/ i = 2
    OBVIOUS
  <2> QED
    BY <1>4, <2>1, Zenon
<1> QED
  BY <1>3, <1>4, <1>5, SeqEqual

LEMMA FlattenTwo ==
  ASSUME NEW A, NEW ss \in Seq(Seq(A)), Len(ss) = 2 PROVE FlattenSeq(ss) = ss[1] \o ss[2]
<1>1. ss # <<>>
  <2>1. Len(<<>>) = 0 /\ 0 # 2
    OBVIOUS
  <2> QED
    BY <2>1, Zenon
<1>2. PICK g : /\ g[1] = ss[1] /\ \A i \in 2 .. Len(ss) : g[i] = g[i - 1] \o ss[i]
               /\ FlattenSeq(ss) = g[Len(ss)]
  BY <1>1, Flattening
<1>3. 2 \in 2 .. Len(ss) /\ 2 - 1 = 1
  OBVIOUS
<1>4. g[2] = g[2 - 1] \o ss[2]
  BY <1>2, <1>3, Zenon
<1> QED
  BY <1>2, <1>3, <1>4, Zenon

\* One character
LEMMA OneChar ==
  ASSUME NEW x \in Nat, x \notin Blanks
  PROVE  /\ <<x>> \in Seq(Nat) /\ <<x>> # <<>> /\ Trimmed(<<x>>) /\ \A d : d # x => Without(<<x>>, d)
<1>1. <<x>> \in Seq(Nat) /\ <<x>> # <<>> /\ Len(<<x>>) = 1 /\ <<x>>[1] = x /\ \A j \in 1 .. 1 : <<x>>[j] = x
  OBVIOUS
<1>2. Trimmed(<<x>>)
  BY <1>1, Zenon DEF Trimmed
<1>3. \A d : d # x => Without(<<x>>, d)
  BY <1>1, Zenon DEF Without
<1> QED
  BY <1>1, <1>2, <1>3

\* A pair is a part as it is cut out.
LEMMA PairIsPart ==
  ASSUME NEW s, NEW k, NEW v, Pair(s, k, v), NEW d, d # c.eq, Without(k, d), Without(v, d)
  PROVE  s \in Seq(Nat) /\ s # <<>> /\ Trimmed(s) /\ Without(s, d) /\ s[1] = k[1]
<1>1. /\ k \in Seq(Nat) /\ k # <<>> /\ Trimmed(k) /\ v \in Seq(Nat) /\ Trimmed(v)
      /\ Joined(s, k, c.eq, v)
  BY Zenon DEF Pair
<1>2. PICK e \in Nat : e = c.eq /\ e \notin Blanks
  BY DEF c, Blanks
<1>3. PICK n \in Nat, m \in Nat : n = Len(k) /\ n >= 1 /\ m = Len(v)
  BY <1>1
<1>4. /\ s \in Seq(Nat) /\ Len(s) = n + 1 + m /\ Occurs(s, k, 0) /\ s[n + 1] = e /\ Occurs(s, v, n + 1)
  <2>1. s = k \o <<e>> \o v
    BY <1>1, <1>2, Zenon DEF Joined
  <2> QED
    BY <1>1, <1>3, <2>1 DEF Occurs
<1>5. PICK l \in Nat : l = n + 1 + m
  OBVIOUS
<1>6. Len(s) = l /\ s # <<>>
  BY <1>3, <1>4, <1>5
<1>7. s[1] = k[1]
  <2>1. 1 \in 1 .. n /\ 0 + 1 = 1
    BY <1>3
  <2>2. s[0 + 1] = k[1]
    BY <1>3, <1>4, <2>1, Zenon DEF Occurs
  <2> QED
    BY <2>1, <2>2, Zenon
<1>8. s[l] \notin Blanks
  <2>1. CASE m = 0
    <3>1. l = n + 1
      BY <1>5, <2>1
    <3> QED
      BY <1>2, <1>4, <3>1, Zenon
  <2>2. CASE m > 0
    <3>1. m \in 1 .. m /\ l = (n + 1) + m /\ v # <<>>
      BY <1>3, <1>5, <2>2
    <3>2. s[(n + 1) + m] = v[m]
      BY <1>3, <1>4, <3>1, Zenon DEF Occurs
    <3>3. v[m] \notin Blanks
      BY <1>1, <1>3, <3>1, Zenon DEF Trimmed
    <3> QED
      BY <3>1, <3>2, <3>3, Zenon
  <2> QED
    BY <2>1, <2>2
<1>9. Trimmed(s)
  BY <1>1, <1>6, <1>7, <1>8, Zenon DEF Trimmed
<1>10. Without(s, d)
  <2> SUFFICES ASSUME NEW j \in 1 .. l PROVE s[j] # d
    BY <1>6, Zenon DEF Without
  <2>1. CASE j <= n
    <3>1. j \in 1 .. n /\ 0 + j = j
      BY <2>1
    <3>2. s[0 + j] = k[j] /\ k[j] # d
      BY <1>3, <1>4, <3>1, Zenon DEF Occurs, Without
    <3> QED
      BY <3>1, <3>2, Zenon
  <2>2. CASE j = n + 1
    BY <1>2, <1>4, <2>2, Zenon
  <2>3. CASE j > n + 1
    <3>1. PICK i \in Nat : i = j - (n + 1) /\ i \in 1 .. m /\ (n + 1) + i = j
      <4>1. j - (n + 1) \in Nat /\ j - (n + 1) \in 1 .. m /\ (n + 1) + (j - (n + 1)) = j
        BY <1>5, <2>3
      <4> QED
        BY <4>1
    <3>2. s[(n + 1) + i] = v[i] /\ v[i] # d
      BY <1>3, <1>4, <3>1, Zenon DEF Occurs, Without
    <3> QED
      BY <3>1, <3>2, Zenon
  <2> QED
    BY <2>1, <2>2, <2>3
<1> QED
  BY <1>4, <1>6, <1>7, <1>9, <1>10

\* Two pairs with different keys, each as it is cut out, are what is parsed.
LEMMA TwoPairs ==
  ASSUME NEW s, NEW d \in Nat, d # c.eq, NEW p, NEW q, Joined(s, p, d, q),
         NEW k, NEW v, Pair(p, k, v), Without(k, d), Without(v, d),
         NEW m, NEW w, Pair(q, m, w), Without(m, d), Without(w, d), k[1] # m[1]
  PROVE  KeyValues(s, d) = <<<<k, v>>, <<m, w>>>>
<1>1. p \in Seq(Nat) /\ p # <<>> /\ Trimmed(p) /\ Without(p, d) /\ p[1] = k[1]
  BY PairIsPart
<1>2. q \in Seq(Nat) /\ q # <<>> /\ Trimmed(q) /\ Without(q, d) /\ q[1] = m[1]
  BY PairIsPart
<1>3. p # q
  BY <1>1, <1>2, Zenon
<1>4. TwoParts(s, d, p, q)
  BY <1>1, <1>2, <1>3, Zenon DEF TwoParts
<1>5. Says(p, k, v) /\ Says(q, m, w)
  BY PairSays
<1> QED
  BY <1>4, <1>5, TwoSaid

LEMMA RegroupNat == \A s, t, u \in Seq(Nat) : Regrouped(s, t, u)
BY Regroup

\* The first of four parts taken out of the brackets
Pulled(a, k, d, v) == a \o k \o d \o v = a \o (k \o d \o v)

LEMMA Pulls ==
  ASSUME NEW a \in Seq(Nat), NEW k \in Seq(Nat), NEW d \in Seq(Nat), NEW v \in Seq(Nat)
  PROVE  Pulled(a, k, d, v)
<1>1. PICK kd \in Seq(Nat) : kd = k \o d
  <2>1. k \o d \in Seq(Nat)
    OBVIOUS
  <2> QED
    BY <2>1, Zenon
<1>2. Regrouped(a, k, d) /\ Regrouped(a, kd, v)
  BY RegroupNat
<1> QED
  BY <1>1, <1>2, Zenon DEF Regrouped, Pulled

\* What a client writes for two parameters with the values s and t, once they are encoded
LEMMA QuerySays ==
  ASSUME NEW a \in Nat, NEW b \in Nat, NEW s, NEW e, e = encode_query_param(s), e \in Seq(Nat),
         NEW p, p = <<a>> \o <<c.eq>> \o e, NEW q, q = <<b>> \o <<c.eq>> \o e
  PROVE  Joined(params_to_query_str(<<<<<<a>>, s>>, <<<<b>>, s>>>>), p, c.amp, q)
<1>1. PICK A \in Seq(Nat), B \in Seq(Nat), E \in Seq(Nat), M \in Seq(Nat) :
        A = <<a>> /\ B = <<b>> /\ E = <<c.eq>> /\ M = <<c.amp>>
  <2>1. <<a>> \in Seq(Nat) /\ <<b>> \in Seq(Nat) /\ <<c.eq>> \in Seq(Nat) /\ <<c.amp>> \in Seq(Nat)
    BY DEF c
  <2> QED
    BY <2>1, Zenon
<1>2. p = A \o E \o e /\ q = B \o E \o e
  BY <1>1, Zenon
<1>3. p \in Seq(Nat) /\ q \in Seq(Nat) /\ M \o q \in Seq(Nat)
  <2>1. A \o E \o e \in Seq(Nat) /\ B \o E \o e \in Seq(Nat)
    OBVIOUS
  <2>2. p \in Seq(Nat) /\ q \in Seq(Nat)
    BY <1>2, <2>1, Zenon
  <2> QED
    BY <2>2
<1>4. PICK params : params = <<<<<<a>>, s>>, <<<<b>>, s>>>>
  OBVIOUS
<1>5. /\ Len(params) = 2 /\ params[1][1] = <<a>> /\ params[1][2] = s
      /\ params[2][1] = <<b>> /\ params[2][2] = s
  BY <1>4
<1> DEFINE ss == [i \in 1 .. 2 |-> (IF i = 1 THEN <<>> ELSE <<c.amp>>) \o params[i][1] \o <<c.eq>>
                                      \o encode_query_param(params[i][2])]
<1>6. params_to_query_str(params) = FlattenSeq(ss)
  BY <1>5, Zenon DEF params_to_query_str
<1>7. 1 \in 1 .. 2 /\ 2 \in 1 .. 2 /\ 2 # 1 /\ \A i \in 1 .. 2 : i = 1 \/ i = 2
  OBVIOUS
<1>8. ss[1] = <<>> \o A \o E \o e /\ ss[2] = M \o B \o E \o e /\ ss = [i \in 1 .. 2 |-> ss[i]]
  BY <1>1, <1>5, <1>7, Zenon
<1> HIDE DEF ss
<1>9. ss[1] = p
  <2>1. <<>> \o A = A
    OBVIOUS
  <2> QED
    BY <1>2, <1>8, <2>1, Zenon
<1>10. ss[2] = M \o q
  <2>1. Pulled(M, B, E, e)
    BY Pulls
  <2> QED
    BY <1>2, <1>8, <2>1, Zenon DEF Pulled
<1>11. ss \in Seq(Seq(Nat)) /\ Len(ss) = 2
  <2>1. \A i \in 1 .. 2 : ss[i] \in Seq(Nat)
    BY <1>3, <1>7, <1>9, <1>10, Zenon
  <2> QED
    BY <1>8, <2>1
<1>12. FlattenSeq(ss) = p \o (M \o q)
  BY <1>9, <1>10, <1>11, FlattenTwo, Zenon
<1>13. p \o (M \o q) = p \o M \o q
  <2>1. Regrouped(p, M, q)
    BY <1>3, RegroupNat
  <2> QED
    BY <2>1, Zenon DEF Regrouped
<1> QED
  BY <1>1, <1>4, <1>6, <1>12, <1>13, Zenon DEF Joined

\* Two parameters with the same value come back as they were.
LEMMA QueryRoundTrips ==
  ASSUME NEW s \in Seq(Octets)
  PROVE  parse_query_text(params_to_query_str(<<<<<<97>>, s>>, <<<<49>>, s>>>>))
           = <<<<<<97>>, s>>, <<<<49>>, s>>>>
<1>1. PICK e : e = encode_query_param(s)
  OBVIOUS
<1>2. e \in Seq(Nat) /\ Trimmed(e) /\ Without(e, c.eq) /\ Without(e, c.amp)
  BY <1>1, WritesEncoded, EncodedStays
<1>3. PICK a \in Nat, b \in Nat : a = 97 /\ b = 49
  OBVIOUS
<1>4. a \notin Blanks /\ b \notin Blanks /\ c.eq # a /\ c.eq # b /\ c.amp # a /\ c.amp # b /\ a # b
  BY <1>3 DEF Blanks, c
<1>5. PICK k : k = <<a>>
  OBVIOUS
<1>6. PICK m : m = <<b>>
  OBVIOUS
<1>7. k \in Seq(Nat) /\ k # <<>> /\ Trimmed(k) /\ Without(k, c.eq) /\ Without(k, c.amp)
  BY <1>4, <1>5, OneChar
<1>8. m \in Seq(Nat) /\ m # <<>> /\ Trimmed(m) /\ Without(m, c.eq) /\ Without(m, c.amp)
  BY <1>4, <1>6, OneChar
<1>9. k[1] # m[1]
  BY <1>4, <1>5, <1>6
<1>10. PICK p : p = k \o <<c.eq>> \o e
  OBVIOUS
<1>11. PICK q : q = m \o <<c.eq>> \o e
  OBVIOUS
<1>12. Pair(p, k, e) /\ Pair(q, m, e)
  BY <1>2, <1>7, <1>8, <1>10, <1>11, Zenon DEF Pair, Joined
<1>13. PICK params : params = <<<<k, s>>, <<m, s>>>>
  OBVIOUS
<1>14. PICK str : str = params_to_query_str(params)
  OBVIOUS
<1>15. Joined(str, p, c.amp, q)
  <2>1. Joined(params_to_query_str(<<<<<<a>>, s>>, <<<<b>>, s>>>>), p, c.amp, q)
    <3>1. p = <<a>> \o <<c.eq>> \o e /\ q = <<b>> \o <<c.eq>> \o e
      BY <1>5, <1>6, <1>10, <1>11, Zenon
    <3> QED
      BY <1>1, <1>2, <3>1, QuerySays
  <2> QED
    BY <1>5, <1>6, <1>13, <1>14, <2>1, Zenon
<1>16. PICK kvs : kvs = <<<<k, e>>, <<m, e>>>>
  OBVIOUS
<1>17. KeyValues(str, c.amp) = kvs
  <2>1. c.amp \in Nat /\ c.amp # c.eq
    BY DEF c
  <2>2. KeyValues(str, c.amp) = <<<<k, e>>, <<m, e>>>>
    BY <1>2, <1>7, <1>8, <1>9, <1>12, <1>15, <2>1, TwoPairs
  <2> QED
    BY <1>16, <2>2, Zenon
<1>18. Len(kvs) = 2 /\ kvs[1][1] = k /\ kvs[1][2] = e /\ kvs[2][1] = m /\ kvs[2][2] = e
  BY <1>16
<1> DEFINE f == [i \in 1 .. 2 |-> <<decode_url(kvs[i][1], TRUE), decode_url(kvs[i][2], TRUE)>>]
<1>19. parse_query_text(str) = f
  BY <1>17, <1>18, Zenon DEF parse_query_text
<1>20. decode_url(e, TRUE) = s
  BY <1>1, TextRoundTrips, Zenon
<1>21. ASSUME NEW x \in {a, b} PROVE decode_url(<<x>>, TRUE) = <<x>>
  <2>1. <<x>> \in Seq(Nat) /\ Len(<<x>>) = 1 /\ \A i \in 1 .. 1 : <<x>>[i] = x
    OBVIOUS
  <2>2. x # c.percent /\ x # c.plus
    BY <1>3 DEF c
  <2>3. Plain(<<x>>, TRUE)
    BY <2>1, <2>2, Zenon DEF Plain
  <2> QED
    BY <2>1, <2>3, DecodesPlain
<1>22. 1 \in 1 .. 2 /\ 2 \in 1 .. 2
  OBVIOUS
<1>23. f[1] = <<k, s>> /\ f[2] = <<m, s>> /\ f = [i \in 1 .. 2 |-> f[i]]
  BY <1>5, <1>6, <1>18, <1>20, <1>21, <1>22, Zenon
<1> HIDE DEF f
<1>24. f = params
  <2>1. PICK x : x = <<k, s>>
    OBVIOUS
  <2>2. PICK y : y = <<m, s>>
    OBVIOUS
  <2>3. f[1] = x /\ f[2] = y
    BY <1>23, <2>1, <2>2, Zenon
  <2>4. f = <<x, y>>
    BY <1>23, <2>3, TwoMapped
  <2> QED
    BY <1>13, <2>1, <2>2, <2>4, Zenon
<1> QED
  BY <1>3, <1>5, <1>6, <1>13, <1>14, <1>19, <1>24, Zenon

LEMMA ThreeChars ==
  ASSUME NEW a \in Nat, NEW b \in Nat, NEW z \in Nat PROVE <<a>> \o <<b>> \o <<z>> = <<a, b, z>>
<1>1. PICK x \in Seq(Nat) : x = <<a>> \o <<b>> \o <<z>>
  <2>1. <<a>> \o <<b>> \o <<z>> \in Seq(Nat)
    OBVIOUS
  <2> QED
    BY <2>1, Zenon
<1>2. PICK y \in Seq(Nat) : y = <<a, b, z>>
  <2>1. <<a, b, z>> \in Seq(Nat)
    OBVIOUS
  <2> QED
    BY <2>1, Zenon
<1>3. Len(x) = 3 /\ x[1] = a /\ x[2] = b /\ x[3] = z
  <2>1. PICK w \in Seq(Nat) : w = <<a>> \o <<b>> /\ Len(w) = 2 /\ w[1] = a /\ w[2] = b
    <3>1. <<a>> \o <<b>> \in Seq(Nat)
      OBVIOUS
    <3>2. PICK w \in Seq(Nat) : w = <<a>> \o <<b>>
      BY <3>1, Zenon
    <3>3. Len(w) = 2 /\ w[1] = a /\ w[2] = b
      BY <3>2
    <3> QED
      BY <3>2, <3>3
  <2>2. x = w \o <<z>>
    BY <1>1, <2>1, Zenon
  <2> QED
    BY <2>1, <2>2
<1>4. Len(y) = 3 /\ y[1] = a /\ y[2] = b /\ y[3] = z
  BY <1>2
<1>5. \A i \in 1 .. 3 : x[i] = y[i]
  <2>1. \A i \in 1 .. 3 : i = 1 \/ i = 2 \/ i = 3
    OBVIOUS
  <2> QED
    BY <1>3, <1>4, <2>1, Zenon
<1> QED
  BY <1>1, <1>2, <1>3, <1>4, <1>5, SeqEqual

InOne(a, b, z, d, e) == <<a>> \o <<b>> \o <<z, d, e>> = <<a, b, z, d, e>>

LEMMA FiveChars ==
  ASSUME NEW a \in Nat, NEW b \in Nat, NEW z \in Nat, NEW d \in Nat, NEW e \in Nat
  PROVE  InOne(a, b, z, d, e)
<1>1. PICK x \in Seq(Nat) : x = <<a>> \o <<b>> \o <<z, d, e>>
  <2>1. <<a>> \o <<b>> \o <<z, d, e>> \in Seq(Nat)
    OBVIOUS
  <2> QED
    BY <2>1, Zenon
<1>2. PICK y \in Seq(Nat) : y = <<a, b, z, d, e>>
  <2>1. <<a, b, z, d, e>> \in Seq(Nat)
    OBVIOUS
  <2> QED
    BY <2>1, Zenon
<1>3. Len(x) = 5 /\ x[1] = a /\ x[2] = b /\ x[3] = z /\ x[4] = d /\ x[5] = e
  BY <1>1
<1>4. Len(y) = 5 /\ y[1] = a /\ y[2] = b /\ y[3] = z /\ y[4] = d /\ y[5] = e
  BY <1>2
<1>5. \A i \in 1 .. 5 : x[i] = y[i]
  <2>1. \A i \in 1 .. 5 : i = 1 \/ i = 2 \/ i = 3 \/ i = 4 \/ i = 5
    OBVIOUS
  <2> QED
    BY <1>3, <1>4, <2>1, Zenon
<1>6. x = y
  BY <1>3, <1>4, <1>5, SeqEqual
<1> QED
  BY <1>1, <1>2, <1>6, Zenon DEF InOne

\* Quotes moved from what is around a text to the text
Quoted(x, Q, s, d, q) == (x \o Q) \o s \o (Q \o d \o q) = x \o (Q \o s \o Q) \o d \o q

LEMMA Quoting ==
  ASSUME NEW x \in Seq(Nat), NEW Q \in Seq(Nat), NEW s \in Seq(Nat), NEW d \in Seq(Nat), NEW q \in Seq(Nat)
  PROVE  Quoted(x, Q, s, d, q)
<1>1. PICK y \in Seq(Nat), v \in Seq(Nat), z \in Seq(Nat), w \in Seq(Nat) :
        y = Q \o s /\ v = y \o Q /\ z = d \o q /\ w = x \o y
  <2>1. PICK y \in Seq(Nat) : y = Q \o s
    <3>1. Q \o s \in Seq(Nat)
      OBVIOUS
    <3> QED
      BY <3>1, Zenon
  <2>2. y \o Q \in Seq(Nat) /\ d \o q \in Seq(Nat) /\ x \o y \in Seq(Nat)
    OBVIOUS
  <2> QED
    BY <2>1, <2>2, Zenon
<1>2. PICK u \in Seq(Nat) : u = x \o v
  <2>1. x \o v \in Seq(Nat)
    OBVIOUS
  <2> QED
    BY <2>1, Zenon
<1>3. Regrouped(x, Q, s) /\ Regrouped(Q, d, q) /\ Regrouped(w, Q, z) /\ Regrouped(x, y, Q) /\ Regrouped(u, d, q)
  BY RegroupNat
<1>4. (x \o Q) \o s = w /\ Q \o d \o q = Q \o z
  BY <1>1, <1>3, Zenon DEF Regrouped
<1>5. w \o (Q \o z) = (w \o Q) \o z /\ w \o Q = u
  BY <1>1, <1>2, <1>3, Zenon DEF Regrouped
<1>6. u \o z = u \o d \o q
  BY <1>1, <1>3, Zenon DEF Regrouped
<1> QED
  BY <1>1, <1>2, <1>4, <1>5, <1>6, Zenon DEF Quoted

LEMMA QuotesAround ==
  ASSUME NEW s \in Seq(Nat), NEW v, v = <<c.quote>> \o s \o <<c.quote>>
  PROVE  v \in Seq(Nat) /\ Trimmed(v) /\ \A d : d # c.quote /\ Without(s, d) => Without(v, d)
<1>1. PICK e \in Nat : e = c.quote /\ e \notin Blanks
  BY DEF c, Blanks
<1>2. PICK n \in Nat : n = Len(s)
  OBVIOUS
<1>3. PICK l \in Nat : l = n + 2
  OBVIOUS
<1>4. v \in Seq(Nat) /\ Len(v) = l /\ v[1] = e /\ v[l] = e /\ Occurs(v, s, 1)
  <2>1. v = <<e>> \o s \o <<e>>
    BY <1>1, Zenon
  <2> QED
    BY <1>2, <1>3, <2>1 DEF Occurs
<1>5. Trimmed(v)
  BY <1>1, <1>4, Zenon DEF Trimmed
<1>6. ASSUME NEW d, d # c.quote, Without(s, d) PROVE Without(v, d)
  <2> SUFFICES ASSUME NEW j \in 1 .. l PROVE v[j] # d
    BY <1>4, Zenon DEF Without
  <2>1. CASE j = 1 \/ j = l
    BY <1>1, <1>4, <1>6, <2>1, Zenon
  <2>2. CASE j # 1 /\ j # l
    <3>1. PICK i \in Nat : i = j - 1 /\ i \in 1 .. n /\ 1 + i = j
      <4>1. j - 1 \in Nat /\ j - 1 \in 1 .. n /\ 1 + (j - 1) = j
        BY <1>3, <2>2
      <4> QED
        BY <4>1
    <3>2. v[1 + i] = s[i] /\ s[i] # d
      BY <1>2, <1>4, <1>6, <3>1, Zenon DEF Occurs, Without
    <3> QED
      BY <3>1, <3>2, Zenon
  <2> QED
    BY <2>1, <2>2
<1> QED
  BY <1>4, <1>5, <1>6

\* What a client writes of a name and a file name
DispositionOf(s) == <<97, c.eq, c.quote>> \o s \o <<c.quote, c.semicolon, 49, c.eq, 97>>

LEMMA DispositionSays ==
  ASSUME NEW s \in Seq(Nat), NEW v, v = <<c.quote>> \o s \o <<c.quote>>,
         NEW a \in Nat, a = 97, NEW b \in Nat, b = 49,
         NEW p, p = <<a>> \o <<c.eq>> \o v, NEW q, q = <<b>> \o <<c.eq>> \o <<a>>
  PROVE  Joined(DispositionOf(s), p, c.semicolon, q)
<1>1. PICK e \in Nat, u \in Nat, d \in Nat :
        e = c.eq /\ u = c.quote /\ d = c.semicolon
  BY DEF c
<1>2. PICK A \in Seq(Nat), B \in Seq(Nat), E \in Seq(Nat), Q \in Seq(Nat), D \in Seq(Nat) :
        A = <<a>> /\ B = <<b>> /\ E = <<e>> /\ Q = <<u>> /\ D = <<d>>
  <2>1. <<a>> \in Seq(Nat) /\ <<b>> \in Seq(Nat) /\ <<e>> \in Seq(Nat) /\ <<u>> \in Seq(Nat) /\ <<d>> \in Seq(Nat)
    OBVIOUS
  <2> QED
    BY <2>1, Zenon
<1>3. PICK x \in Seq(Nat), z \in Seq(Nat) : x = A \o E /\ z = B \o E \o A
  <2>1. A \o E \in Seq(Nat) /\ B \o E \o A \in Seq(Nat)
    OBVIOUS
  <2> QED
    BY <2>1, Zenon
<1>4. <<a, e, u>> = x \o Q
  <2>1. <<a>> \o <<e>> \o <<u>> = <<a, e, u>>
    BY ThreeChars
  <2> QED
    BY <1>2, <1>3, <2>1, Zenon
<1>5. <<u, d, b, e, a>> = Q \o D \o z
  <2>1. <<b>> \o <<e>> \o <<a>> = <<b, e, a>>
    BY ThreeChars
  <2>2. InOne(u, d, b, e, a)
    BY FiveChars
  <2> QED
    BY <1>2, <1>3, <2>1, <2>2, Zenon DEF InOne
<1>6. DispositionOf(s) = x \o Q \o s \o (Q \o D \o z)
  BY <1>1, <1>4, <1>5, Zenon DEF DispositionOf
<1>7. Quoted(x, Q, s, D, z)
  BY Quoting
<1>8. p = x \o (Q \o s \o Q) /\ q = z
  BY <1>1, <1>2, <1>3, Zenon
<1> QED
  BY <1>1, <1>2, <1>6, <1>7, <1>8, Zenon DEF Quoted, Joined

LEMMA DispositionRoundTrips ==
  ASSUME NEW s \in Seq(Nat), Without(s, c.eq), Without(s, c.semicolon)
  PROVE  parse_disposition_params(DispositionOf(s)) = <<<<<<97>>, s>>, <<<<49>>, <<97>>>>>>
<1>1. PICK a \in Nat, b \in Nat : a = 97 /\ b = 49
  OBVIOUS
<1>2. /\ a \notin Blanks /\ b \notin Blanks /\ c.eq # a /\ c.eq # b /\ a # b
      /\ c.semicolon # a /\ c.semicolon # b /\ c.quote # a /\ c.quote # b
  BY <1>1 DEF Blanks, c
<1>3. PICK k : k = <<a>>
  OBVIOUS
<1>4. PICK m : m = <<b>>
  OBVIOUS
<1>5. /\ k \in Seq(Nat) /\ k # <<>> /\ Trimmed(k) /\ Without(k, c.eq) /\ Without(k, c.semicolon)
      /\ Without(k, c.quote)
  BY <1>2, <1>3, OneChar
<1>6. /\ m \in Seq(Nat) /\ m # <<>> /\ Trimmed(m) /\ Without(m, c.eq) /\ Without(m, c.semicolon)
      /\ Without(m, c.quote)
  BY <1>2, <1>4, OneChar
<1>7. k[1] # m[1]
  BY <1>2, <1>3, <1>4
<1>8. PICK v : v = <<c.quote>> \o s \o <<c.quote>>
  OBVIOUS
<1>9. v \in Seq(Nat) /\ Trimmed(v) /\ Without(v, c.eq) /\ Without(v, c.semicolon)
  <2>1. c.eq # c.quote /\ c.semicolon # c.quote
    BY DEF c
  <2> QED
    BY <1>8, <2>1, QuotesAround
<1>10. PICK p : p = k \o <<c.eq>> \o v
  OBVIOUS
<1>11. PICK q : q = m \o <<c.eq>> \o k
  OBVIOUS
<1>12. Pair(p, k, v) /\ Pair(q, m, k)
  BY <1>5, <1>6, <1>9, <1>10, <1>11, Zenon DEF Pair, Joined
<1>13. PICK str : str = DispositionOf(s)
  OBVIOUS
<1>14. Joined(str, p, c.semicolon, q)
  <2>1. p = <<a>> \o <<c.eq>> \o v /\ q = <<b>> \o <<c.eq>> \o <<a>>
    BY <1>3, <1>4, <1>10, <1>11, Zenon
  <2> QED
    BY <1>1, <1>8, <1>13, <2>1, DispositionSays
<1>15. PICK kvs : kvs = <<<<k, v>>, <<m, k>>>>
  OBVIOUS
<1>16. KeyValues(str, c.semicolon) = kvs
  <2>1. c.semicolon \in Nat /\ c.semicolon # c.eq
    BY DEF c
  <2>2. KeyValues(str, c.semicolon) = <<<<k, v>>, <<m, k>>>>
    BY <1>5, <1>6, <1>7, <1>9, <1>12, <1>14, <2>1, TwoPairs
  <2> QED
    BY <1>15, <2>2, Zenon
<1>17. Len(kvs) = 2 /\ kvs[1][1] = k /\ kvs[1][2] = v /\ kvs[2][1] = m /\ kvs[2][2] = k
  BY <1>15
<1> DEFINE f == [i \in 1 .. 2 |->
                   <<trim_double_quotes_copy(kvs[i][1]), trim_double_quotes_copy(kvs[i][2])>>]
<1>18. parse_disposition_params(str) = f
  BY <1>16, <1>17, Zenon DEF parse_disposition_params
<1>19. trim_double_quotes_copy(k) = k /\ trim_double_quotes_copy(m) = m
  BY <1>5, <1>6, NoQuotes
<1>20. trim_double_quotes_copy(v) = s
  BY <1>8, Unquotes
<1>21. 1 \in 1 .. 2 /\ 2 \in 1 .. 2
  OBVIOUS
<1>22. f[1] = <<k, s>> /\ f[2] = <<m, k>> /\ f = [i \in 1 .. 2 |-> f[i]]
  BY <1>17, <1>19, <1>20, <1>21, Zenon
<1> HIDE DEF f
<1>23. f = <<<<k, s>>, <<m, k>>>>
  <2>1. PICK x : x = <<k, s>>
    OBVIOUS
  <2>2. PICK y : y = <<m, k>>
    OBVIOUS
  <2>3. f[1] = x /\ f[2] = y
    BY <1>22, <2>1, <2>2, Zenon
  <2>4. f = <<x, y>>
    BY <1>22, <2>3, TwoMapped
  <2> QED
    BY <2>1, <2>2, <2>4, Zenon
<1> QED
  BY <1>1, <1>3, <1>4, <1>13, <1>18, <1>23, Zenon

\* The part of s behind its first i characters that w is
PartIs(s, w, i) == SubSeq(s, i + 1, i + Len(w)) = w

LEMMA PartAt ==
  ASSUME NEW s \in Seq(Nat), NEW w \in Seq(Nat), NEW i \in Nat, i + Len(w) <= Len(s), Occurs(s, w, i)
  PROVE  PartIs(s, w, i)
BY SubSeqSays, Zenon DEF PartIs

\* What a client writes of a form's boundary, with a parameter behind it
BoundaryOf(s) == <<97, c.semicolon, boundary_is>> \o s \o <<c.semicolon, 97>>

LEMMA BoundaryRoundTrips ==
  ASSUME NEW s \in Seq(Nat), Without(s, c.semicolon), Without(s, c.quote), Without(s, boundary_is)
  PROVE  parse_multipart_boundary(BoundaryOf(s)) = s
<1>1. PICK a \in Nat, d \in Nat, b \in Nat : a = 97 /\ d = c.semicolon /\ b = boundary_is
  BY DEF c, boundary_is
<1>2. a # b /\ d # b /\ a # d
  BY <1>1 DEF c, boundary_is
<1>3. PICK n \in Nat : n = Len(s)
  OBVIOUS
<1>4. PICK l \in Nat, e \in Nat, z \in Nat : l = n + 5 /\ e = n + 4 /\ z = n + 3
  <2>1. n + 5 \in Nat /\ n + 4 \in Nat /\ n + 3 \in Nat
    OBVIOUS
  <2> QED
    BY <2>1
<1>5. PICK t \in Seq(Nat) : t = <<a, d, b>> \o s \o <<d, a>>
  <2>1. <<a, d, b>> \o s \o <<d, a>> \in Seq(Nat)
    OBVIOUS
  <2> QED
    BY <2>1, Zenon
<1>6. Len(t) = l /\ t[1] = a /\ t[2] = d /\ t[3] = b /\ Occurs(t, s, 3) /\ t[e] = d
  <2>1. PICK h \in Seq(Nat), k \in Seq(Nat) : h = <<a, d, b>> /\ k = <<d, a>>
    <3>1. <<a, d, b>> \in Seq(Nat) /\ <<d, a>> \in Seq(Nat)
      OBVIOUS
    <3> QED
      BY <3>1, Zenon
  <2>2. Len(h) = 3 /\ h[1] = a /\ h[2] = d /\ h[3] = b
    BY <2>1
  <2>3. Len(k) = 2 /\ k[1] = d
    BY <2>1
  <2>4. PICK g \in Seq(Nat) : g = h \o s
    <3>1. h \o s \in Seq(Nat)
      OBVIOUS
    <3> QED
      BY <3>1, Zenon
  <2>5. Len(g) = 3 + n /\ Occurs(g, h, 0) /\ Occurs(g, s, 3)
    <3>1. Len(h \o s) = Len(h) + Len(s) /\ Occurs(h \o s, h, 0) /\ Occurs(h \o s, s, Len(h))
      BY ConcatSays
    <3> QED
      BY <1>3, <2>2, <2>4, <3>1, Zenon
  <2>6. t = g \o k
    BY <1>5, <2>1, <2>4, Zenon
  <2>7. Len(t) = Len(g) + 2 /\ Occurs(t, g, 0) /\ Occurs(t, k, 3 + n)
    <3>1. Len(g \o k) = Len(g) + Len(k) /\ Occurs(g \o k, g, 0) /\ Occurs(g \o k, k, Len(g))
      BY ConcatSays
    <3> QED
      BY <2>3, <2>5, <2>6, <3>1, Zenon
  <2>8. Len(t) = l
    BY <1>4, <2>5, <2>7
  <2>9. /\ (3 + n) + 1 = e /\ 1 \in 1 .. 2 /\ Len(g) = z
        /\ \A j \in 1 .. z : 0 + j = j
        /\ 1 \in 1 .. z /\ 2 \in 1 .. z /\ 3 \in 1 .. z /\ \A j \in 1 .. n : 3 + j \in 1 .. z
        /\ 1 \in 1 .. 3 /\ 2 \in 1 .. 3 /\ 3 \in 1 .. 3
    BY <1>4, <2>5
  <2>10. t[e] = d
    BY <2>3, <2>7, <2>9, Zenon DEF Occurs
  <2>11. \A j \in 1 .. z : t[j] = g[j]
    BY <2>7, <2>9, Zenon DEF Occurs
  <2>12. g[1] = a /\ g[2] = d /\ g[3] = b
    BY <2>2, <2>5, <2>9, Zenon DEF Occurs
  <2>13. \A j \in 1 .. n : g[3 + j] = s[j]
    BY <1>3, <2>5, Zenon DEF Occurs
  <2> QED
    BY <1>3, <2>8, <2>9, <2>10, <2>11, <2>12, <2>13, Zenon DEF Occurs
<1>7. BoundaryOf(s) = t
  BY <1>1, <1>5, Zenon DEF BoundaryOf
<1>8. Found(t, b, 1, 3)
  <2>1. 3 \in Nat /\ 1 <= 3 /\ 3 <= l + 1 /\ \A j \in Nat : 1 <= j /\ j < 3 => j = 1 \/ j = 2
    BY <1>4
  <2> QED
    BY <1>2, <1>6, <2>1, Zenon DEF Found
<1>9. FindFrom(t, b, 1) = 3
  <2>1. 1 \in Nat /\ 1 >= 1 /\ 1 <= Len(t) + 1
    BY <1>4, <1>6
  <2>2. Found(t, b, 1, FindFrom(t, b, 1))
    BY <2>1, FindSays
  <2> QED
    BY <1>8, <2>2, FoundOnce
<1>10. Found(t, d, 3, e)
  <2>1. 3 <= e /\ e <= l + 1
    BY <1>4
  <2>2. ASSUME NEW j \in Nat, 3 <= j, j < e PROVE t[j] # d
    <3>1. CASE j = 3
      BY <1>2, <1>6, <3>1, Zenon
    <3>2. CASE j # 3
      <4>1. PICK i \in Nat : i = j - 3 /\ i \in 1 .. n /\ 3 + i = j
        <5>1. j - 3 \in Nat /\ j - 3 \in 1 .. n /\ 3 + (j - 3) = j
          BY <1>4, <2>2, <3>2
        <5> QED
          BY <5>1
      <4>2. t[3 + i] = s[i] /\ s[i] # d
        BY <1>1, <1>3, <1>6, <4>1, Zenon DEF Occurs, Without
      <4> QED
        BY <4>1, <4>2, Zenon
    <3> QED
      BY <3>1, <3>2
  <2> QED
    BY <1>6, <2>1, <2>2, Zenon DEF Found
<1>11. FindFrom(t, d, 3) = e
  <2>1. 3 \in Nat /\ 3 >= 1 /\ 3 <= Len(t) + 1
    BY <1>4, <1>6
  <2>2. Found(t, d, 3, FindFrom(t, d, 3))
    BY <2>1, FindSays
  <2> QED
    BY <1>10, <2>2, FoundOnce
<1>12. SubSeq(t, 3 + 1, e - 1) = s
  <2>1. 3 \in Nat /\ 3 + Len(s) <= Len(t) /\ 3 + Len(s) = e - 1
    BY <1>3, <1>4, <1>6
  <2>2. PartIs(t, s, 3)
    BY <1>6, <2>1, PartAt
  <2> QED
    BY <2>1, <2>2, Zenon DEF PartIs
<1>13. ~(3 > Len(t))
  BY <1>4, <1>6
<1>14. parse_multipart_boundary(t) = trim_double_quotes_copy(s)
  BY <1>1, <1>9, <1>11, <1>12, <1>13, Zenon DEF parse_multipart_boundary
<1> QED
  BY <1>7, <1>14, NoQuotes, Zenon

\* A header line, blanks in front of the value and behind it
HeaderOf(name, s) == <<name, c.colon, c.space>> \o s \o <<c.tab>>

LEMMA HeaderRoundTrips ==
  ASSUME NEW s \in Seq(Nat), s # <<>>, Trimmed(s), NEW name \in HeaderNames,
         Without(s, c.percent) \/ name = location_is
  PROVE  parse_header(HeaderOf(name, s)) = <<<<name>>, s>>
<1>0. name \in {97, 257}
  BY DEF HeaderNames, location_is
<1>1. PICK a \in Nat, d \in Nat, b \in Nat, f \in Nat : a = name /\ d = c.colon /\ b = c.space /\ f = c.tab
  BY <1>0 DEF c
<1>2. a # d /\ a \notin Blanks /\ b \in Blanks /\ f \in Blanks
  BY <1>0, <1>1 DEF c, Blanks
<1>3. PICK n \in Nat : n = Len(s) /\ n >= 1
  OBVIOUS
<1>4. PICK l \in Nat, e \in Nat : l = n + 3 /\ e = n + 4
  <2>1. n + 3 \in Nat /\ n + 4 \in Nat
    OBVIOUS
  <2> QED
    BY <2>1
<1>5. PICK u \in Seq(Nat) : u = <<b>> \o s
  <2>1. <<b>> \o s \in Seq(Nat)
    OBVIOUS
  <2> QED
    BY <2>1, Zenon
<1>6. PICK w \in Seq(Nat) : w = <<a, d, b>> \o s
  <2>1. <<a, d, b>> \o s \in Seq(Nat)
    OBVIOUS
  <2> QED
    BY <2>1, Zenon
<1>7. PICK t \in Seq(Nat) : t = w \o <<f>>
  <2>1. w \o <<f>> \in Seq(Nat)
    OBVIOUS
  <2> QED
    BY <2>1, Zenon
<1>8. HeaderOf(name, s) = t
  BY <1>1, <1>6, <1>7, Zenon DEF HeaderOf
<1>9. Len(u) = n + 1 /\ u[1] = b /\ Occurs(u, s, 1)
  BY <1>3, <1>5 DEF Occurs
<1>10. Len(w) = l /\ w[1] = a /\ w[2] = d /\ w[3] = b /\ Occurs(w, s, 3)
  BY <1>3, <1>4, <1>6 DEF Occurs
<1>11. Len(t) = e /\ t[e] = f /\ Occurs(t, w, 0)
  BY <1>4, <1>7, <1>10 DEF Occurs
<1>12. s[1] \notin Blanks /\ s[n] \notin Blanks
  BY <1>3, Zenon DEF Trimmed
<1>13. Trimmed(w) /\ w # <<>>
  <2>1. 3 + n = l /\ n \in 1 .. n
    BY <1>3, <1>4
  <2>2. w[l] = s[n]
    BY <1>3, <1>10, <2>1, Zenon DEF Occurs
  <2>3. w # <<>>
    BY <1>4, <1>10
  <2> QED
    BY <1>2, <1>10, <1>12, <2>2, <2>3, Zenon DEF Trimmed
<1>14. BlankBut(t, w, 0)
  <2>1. 0 + l <= e /\ \A j \in Nat : 1 <= j /\ j <= e /\ (j <= 0 \/ 0 + l < j) => j = e
    BY <1>4
  <2> QED
    BY <1>2, <1>10, <1>11, <2>1, Zenon DEF BlankBut
<1>15. PICK B : B = {j \in DOMAIN t : t[j] \notin {c.space, c.tab}}
  OBVIOUS
<1>16. B # {} /\ Max(B) = l
  <2>1. B # {} /\ Max(B) = 0 + Len(w)
    BY <1>13, <1>14, <1>15, BlackPlaces, Zenon
  <2>2. 0 + Len(w) = l
    BY <1>10
  <2> QED
    BY <2>1, <2>2, Zenon
<1>17. SubSeq(t, 1, l) = w
  <2>1. 0 + Len(w) <= Len(t) /\ 0 + Len(w) = l /\ 0 + 1 = 1 /\ 0 \in Nat
    BY <1>4, <1>10, <1>11
  <2>2. PartIs(t, w, 0)
    BY <1>11, <2>1, PartAt
  <2> QED
    BY <2>1, <2>2, Zenon DEF PartIs
<1>18. FindFrom(w, d, 1) = 2
  <2>1. 2 \in Nat /\ 1 <= 2 /\ 2 <= l + 1 /\ \A j \in Nat : 1 <= j /\ j < 2 => j = 1
    BY <1>4
  <2>2. Found(w, d, 1, 2)
    BY <1>2, <1>10, <2>1, Zenon DEF Found
  <2>3. 1 \in Nat /\ 1 >= 1 /\ 1 <= Len(w) + 1
    BY <1>4, <1>10
  <2>4. Found(w, d, 1, FindFrom(w, d, 1))
    BY <2>3, FindSays
  <2> QED
    BY <2>2, <2>4, FoundOnce
<1>19. SubSeq(w, 2 + 1, Len(w)) = u
  <2>1. 2 \in Nat /\ 2 + Len(u) <= Len(w) /\ 2 + Len(u) = Len(w)
    BY <1>4, <1>9, <1>10
  <2>2. Occurs(w, u, 2)
    <3> SUFFICES ASSUME NEW j \in 1 .. n + 1 PROVE w[2 + j] = u[j]
      BY <1>9, Zenon DEF Occurs
    <3>1. CASE j = 1
      <4>1. 2 + 1 = 3
        OBVIOUS
      <4> QED
        BY <1>9, <1>10, <3>1, <4>1, Zenon
    <3>2. CASE j # 1
      <4>1. PICK i \in Nat : i = j - 1 /\ i \in 1 .. n /\ 1 + i = j /\ 3 + i = 2 + j
        <5>1. j - 1 \in Nat /\ j - 1 \in 1 .. n /\ 1 + (j - 1) = j /\ 3 + (j - 1) = 2 + j
          BY <3>2
        <5> QED
          BY <5>1
      <4>2. w[3 + i] = s[i] /\ u[1 + i] = s[i]
        BY <1>3, <1>9, <1>10, <4>1, Zenon DEF Occurs
      <4> QED
        BY <4>1, <4>2, Zenon
    <3> QED
      BY <3>1, <3>2
  <2>3. PartIs(w, u, 2)
    BY <2>1, <2>2, PartAt
  <2> QED
    BY <2>1, <2>3, Zenon DEF PartIs
<1>20. trim(u) = s
  <2>1. 1 + n <= n + 1 /\ \A j \in Nat : 1 <= j /\ j <= n + 1 /\ (j <= 1 \/ 1 + n < j) => j = 1
    OBVIOUS
  <2>2. BlankBut(u, s, 1)
    BY <1>2, <1>3, <1>9, <2>1, Zenon DEF BlankBut
  <2> QED
    BY <2>2, TrimsTo
<1>21. SubSeq(w, 1, 2 - 1) = <<a>>
  <2>1. <<a>> \in Seq(Nat) /\ Len(<<a>>) = 1 /\ <<a>>[1] = a
    OBVIOUS
  <2>2. PICK v \in Seq(Nat) : v = <<a>> /\ Len(v) = 1 /\ v[1] = a
    BY <2>1, Zenon
  <2>3. 0 \in Nat /\ 0 + Len(v) <= Len(w) /\ 0 + 1 = 1 /\ 0 + Len(v) = 2 - 1 /\ \A j \in 1 .. 1 : j = 1
    BY <1>4, <1>10, <2>2
  <2>4. Occurs(w, v, 0)
    BY <1>10, <2>2, <2>3, Zenon DEF Occurs
  <2>5. PartIs(w, v, 0)
    BY <2>3, <2>4, PartAt
  <2> QED
    BY <2>2, <2>3, <2>5, Zenon DEF PartIs
<1>22. (IF <<a>> = <<location_is>> THEN s ELSE decode_url(s, FALSE)) = s
  <2>1. CASE Without(s, c.percent)
    <3>1. Plain(s, FALSE)
      BY <2>1, Zenon DEF Plain, Without
    <3>2. decode_url(s, FALSE) = s
      BY <3>1, DecodesPlain
    <3> QED
      BY <3>2, Zenon
  <2>2. CASE name = location_is
    BY <1>1, <2>2, Zenon
  <2> QED
    BY <2>1, <2>2
<1>23. 2 \notin {1, Len(w) + 1}
  BY <1>4, <1>10
<1>24. parse_header(t) = <<<<a>>, s>>
  <2>1. parse_header(t) = <<SubSeq(w, 1, 2 - 1),
                            IF SubSeq(w, 1, 2 - 1) = <<location_is>> THEN s ELSE decode_url(s, FALSE)>>
    BY <1>1, <1>15, <1>16, <1>17, <1>18, <1>19, <1>20, <1>23, Zenon DEF parse_header
  <2> QED
    BY <1>21, <1>22, <2>1, Zenon
<1> QED
  BY <1>1, <1>8, <1>24, Zenon

\* Texts of any bytes but the two that a boundary and a name between quotes cannot hold
TextItem(x) == x.text \in Seq(Octets) /\ Without(x.text, c.quote) /\ Without(x.text, c.semicolon)

LEMMA TextsArriveAsSent ==
  ASSUME item.kind = "text", TextItem(item) PROVE RoundTrips
<1>1. PICK s : s = item.text
  OBVIOUS
<1>2. s \in Seq(Octets) /\ Without(s, c.quote) /\ Without(s, c.semicolon)
  BY <1>1, Zenon DEF TextItem
<1>3. DOMAIN s = 1 .. Len(s) /\ \A i \in 1 .. Len(s) : s[i] \in Octets
  BY <1>2
<1>4. s \in Seq(Nat) /\ Without(s, boundary_is)
  <2>1. \A x \in Octets : x \in Nat /\ x # boundary_is
    BY DEF Octets, boundary_is
  <2>2. s = [i \in 1 .. Len(s) |-> s[i]] /\ Len(s) \in Nat
    BY <1>2
  <2>3. \A i \in 1 .. Len(s) : s[i] \in Nat
    BY <1>3, <2>1, Zenon
  <2>4. s \in Seq(Nat)
    BY <2>2, <2>3
  <2> QED
    BY <1>3, <2>1, <2>4, Zenon DEF Without
<1>5. /\ decode_url(encode_query_param(s), TRUE) = s
      /\ c.percent \notin ToSet(s) /\ c.nul \notin ToSet(s) => decode_url(encode_url(s), FALSE) = s
  BY <1>2, TextRoundTrips, Zenon
<1>6. parse_query_text(params_to_query_str(<<<<<<97>>, s>>, <<<<49>>, s>>>>)) = <<<<<<97>>, s>>, <<<<49>>, s>>>>
  BY <1>2, QueryRoundTrips, Zenon
<1>7. ASSUME trim(s) = s, s # <<>>, NEW name \in HeaderNames,
             c.percent \notin ToSet(s) \/ name = location_is
      PROVE  parse_header(<<name, c.colon, c.space>> \o s \o <<c.tab>>) = <<<<name>>, s>>
  <2>1. Without(s, c.percent) \/ name = location_is
    BY <1>3, <1>7, Zenon DEF Without, ToSet
  <2>2. Trimmed(s)
    BY <1>4, <1>7, KeptIsTrimmed
  <2>3. parse_header(HeaderOf(name, s)) = <<<<name>>, s>>
    BY <1>4, <1>7, <2>1, <2>2, HeaderRoundTrips, Zenon
  <2> QED
    BY <2>3, Zenon DEF HeaderOf
<1>8. parse_multipart_boundary(<<97, c.semicolon, boundary_is>> \o s \o <<c.semicolon, 97>>) = s
  BY <1>2, <1>4, BoundaryRoundTrips, Zenon DEF BoundaryOf
<1>9. ASSUME c.eq \notin ToSet(s)
      PROVE  parse_disposition_params(<<97, c.eq, c.quote>> \o s \o <<c.quote, c.semicolon, 49, c.eq, 97>>)
               = <<<<<<97>>, s>>, <<<<49>>, <<97>>>>>>
  <2>1. Without(s, c.eq)
    BY <1>3, <1>9, Zenon DEF Without, ToSet
  <2> QED
    BY <1>2, <1>4, <2>1, DispositionRoundTrips, Zenon DEF DispositionOf
<1>10. TextArrives
  BY <1>1, <1>5, <1>6, <1>7, <1>8, <1>9, Zenon DEF TextArrives
<1>11. item.kind # "number"
  BY Zenon
<1>12. NumberArrives
  BY <1>11 DEF NumberArrives
<1> QED
  BY <1>10, <1>12 DEF RoundTrips

LEMMA CodePointsAreScalar ==
  ASSUME NEW n \in Nat, n \notin Surrogates, n < CodePoints PROVE Scalar(n)
BY SMT DEF CodePoints, Surrogates, Scalar

LEMMA NumbersArriveAsSent ==
  ASSUME item.kind = "number", item.number \in Nat PROVE RoundTrips
<1>1. PICK n \in Nat : n = item.number
  OBVIOUS
<1>2. chunk_len(from_i_to_hex(n) \o <<13, 10>>) = IF n < ULONG_MAX THEN n ELSE -1
  BY ChunkSizesRoundTrip, Zenon
<1>3. ASSUME n \notin Surrogates, n < CodePoints
      PROVE  /\ to_utf8(n) # <<>> /\ Utf8Value(to_utf8(n)) = n
             /\ \A i \in DOMAIN to_utf8(n) : i > 1 => to_utf8(n)[i] \in 128 .. 191
  <2>1. Scalar(n)
    BY <1>3, CodePointsAreScalar, Zenon
  <2> QED
    BY <2>1, CharactersRoundTrip, Zenon
<1>4. NumberArrives
  BY <1>1, <1>2, <1>3, Zenon DEF NumberArrives
<1>5. item.kind # "text"
  BY Zenon
<1>6. TextArrives
  BY <1>5, Zenon DEF TextArrives
<1> QED
  BY <1>4, <1>6 DEF RoundTrips

\* What a client encodes is what the server decodes, for a text of any length: whatever its
\* bytes are (but quotes and semicolons, of which TextItem has none), as a value of a query, and
\* as the boundary, and without = as a name, of a form; without percent signs as the value of a
\* header line, and without NUL, too, as a path. And for every number, as a character in UTF-8
\* if it is one, and as the size of a chunk, which is refused from ULONG_MAX on.
THEOREM ArrivesAsEncoded ==
  /\ (item.kind = "text" /\ TextItem(item)) \/ (item.kind = "number" /\ item.number \in Nat)
  /\ [][Next]_<<vars, item>>
  => []RoundTrips
<1> DEFINE Text   == item.kind = "text" /\ TextItem(item)
           Number == item.kind = "number" /\ item.number \in Nat
<1>1. Text => RoundTrips
  BY TextsArriveAsSent
<1>2. Number => RoundTrips
  BY NumbersArriveAsSent
<1>3. Text /\ [Next]_<<vars, item>> => Text'
  BY DEF Next, TextItem, Without
<1>4. Number /\ [Next]_<<vars, item>> => Number'
  BY DEF Next
<1> QED
  BY <1>1, <1>2, <1>3, <1>4, PTL

=============================================================================
