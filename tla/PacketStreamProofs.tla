-------------------------- MODULE PacketStreamProofs --------------------------
(* Why the receiver never loses its place, for any header, buffer and socket  *)
(* size, any lengths and any number of packets, however the bytes are cut.    *)
(*                                                                            *)
(* The bytes a reader has, those in the socket and those still to be written  *)
(* are one gapless line: After(x) is the byte that follows x on it.  Besides  *)
(* that each byte in the socket is followed by the next, StreamInv says where *)
(* the bytes of the same packet are at any distance (what induction over the  *)
(* distance would give), and that the line goes on with the byte written next *)
(* (NextWritten); MeetInv says that it begins with the byte the reader lacks  *)
(* (NextRead).                                                                *)
EXTENDS PacketStream, SequenceTheorems, TLAPS

\* The i-th byte of the n-th packet is <<n, i>>.
Bytes == Nat \X Nat

After(x) == IF x[2] < WireLen(sent[x[1]]) THEN <<x[1], x[2] + 1>> ELSE <<x[1] + 1, 1>>

\* The byte the sender writes next, now or when it writes again.
NextWritten == IF sent = <<>> THEN <<1, 1>> ELSE After(<<Len(sent), written>>)

\* The byte the reader lacks, and the packet it belongs to.
NextRead == <<Len(received) + 1, Len(buf) + 1>>

Reading == Len(received) + 1

\* The bytes in the buffer once read() has returned k, and those it leaves.
Taken(k) == buf \o SubSeq(stream, 1, k)
Left(k) == SubSeq(stream, k + 1, Len(stream))

\* writePacket is in the middle of a packet, or has written the whole of it.
WriterInv ==
  /\ sent = <<>> => written = 0 /\ sender # "writing"
  /\ sent # <<>> => written <= WireLen(sent[Len(sent)])
  /\ sent # <<>> /\ sender = "idle" => written = WireLen(sent[Len(sent)])
  /\ sent # <<>> /\ sender = "writing" => written < WireLen(sent[Len(sent)])

StreamInv ==
  /\ Len(stream) <= Capacity
  /\ \A i \in 1..Len(stream) :
       stream[i][1] \in 1..Len(sent) /\ stream[i][2] \in 1..WireLen(sent[stream[i][1]])
  /\ \A i \in 1..(Len(stream) - 1) : stream[i + 1] = After(stream[i])
  /\ \A i, j \in 1..Len(stream) :
       i <= j /\ stream[i][2] + (j - i) <= WireLen(sent[stream[i][1]])
         => stream[j] = <<stream[i][1], stream[i][2] + (j - i)>>
  /\ stream # <<>> => After(stream[Len(stream)]) = NextWritten
  /\ link = "reset" => stream = <<>>

\* What was returned is a prefix of what was sent; the buffer holds the first
\* bytes of the next packet, and its length is checked before its body is read.
ReaderInv ==
  /\ Len(received) <= Len(sent)
  /\ \A n \in 1..Len(received) : received[n] = sent[n]
  /\ \A i \in 1..Len(buf) : buf[i] = <<Len(received) + 1, i>>
  /\ buf # <<>> => Len(received) < Len(sent)
  /\ Len(buf) <= BufLen
  /\ phase = "header" => Len(buf) < HdrLen
  /\ phase = "body" =>
       /\ Len(received) < Len(sent) /\ sent[Len(received) + 1] <= BufLen
       /\ HdrLen <= Len(buf) /\ Len(buf) < sent[Len(received) + 1]
  /\ (phase = "stopped") <=> (verdict \in {"end", "error"})

\* Nothing is missing between the reader and the sender while both go on, and
\* nothing was when readPacket reported the end of the stream.
MeetInv ==
  /\ phase # "stopped" /\ link = "up" =>
       NextRead = IF stream = <<>> THEN NextWritten ELSE stream[1]
  /\ verdict = "end" =>
       /\ buf = <<>>
       /\ link = "up" => sender = "closed" /\ NextRead = NextWritten

IInv ==
  /\ TypeOK
  /\ stream \in Seq(Bytes) /\ buf \in Seq(Bytes)
  /\ WriterInv /\ StreamInv /\ ReaderInv /\ MeetInv

-----------------------------------------------------------------------------

\* A packet takes at least a header on the wire, and its own length if that is more.
LEMMA WireLenProperties ==
  ASSUME NEW len \in Nat
  PROVE  /\ WireLen(len) \in Nat /\ HdrLen <= WireLen(len) /\ 1 <= WireLen(len)
         /\ len <= WireLen(len) /\ (HdrLen <= len => WireLen(len) = len)
BY PacketStreamAssumption DEF WireLen

\* TypeOK, as the steps below need it.
LEMMA SentProperties ==
  ASSUME TypeOK
  PROVE  /\ Len(sent) \in Nat /\ (sent = <<>> <=> Len(sent) = 0)
         /\ \A n \in 1..Len(sent) :
              /\ sent[n] \in Nat /\ WireLen(sent[n]) \in Nat
              /\ HdrLen <= WireLen(sent[n]) /\ 1 <= WireLen(sent[n])
              /\ (HdrLen <= sent[n] => WireLen(sent[n]) = sent[n])
<1>1. sent \in Seq(Lengths)
  BY DEF TypeOK
<1>2. Len(sent) \in Nat /\ (sent = <<>> <=> Len(sent) = 0) /\ \A n \in 1..Len(sent) : sent[n] \in Lengths
  BY <1>1
<1>3. \A n \in 1..Len(sent) : sent[n] \in Nat
  BY <1>2, PacketStreamAssumption
<1> QED BY <1>2, <1>3, WireLenProperties

LEMMA BytesProperties ==
  ASSUME NEW s \in Seq(Bytes)
  PROVE  /\ Len(s) \in Nat /\ (s = <<>> <=> Len(s) = 0)
         /\ \A i \in 1..Len(s) :
              s[i] \in Bytes /\ s[i][1] \in Nat /\ s[i][2] \in Nat /\ s[i] = <<s[i][1], s[i][2]>>
BY DEF Bytes

-----------------------------------------------------------------------------
(* The invariant is inductive: one lemma per step that moves bytes.         *)

LEMMA InitIInv == Init => IInv
<1> SUFFICES ASSUME Init PROVE IInv
  OBVIOUS
<1>1. /\ Len(<<>>) = 0 /\ <<>> \in Seq(Bytes) /\ <<>> \in Seq(Lengths)
      /\ <<>> \in Seq(HdrLen..BufLen)
  OBVIOUS
<1>2. TypeOK
  BY <1>1, PacketStreamAssumption DEF Init, TypeOK
<1>3. WriterInv /\ StreamInv /\ ReaderInv
  BY <1>1, PacketStreamAssumption DEF Init, WriterInv, StreamInv, ReaderInv
<1>4. MeetInv
  BY <1>1 DEF Init, MeetInv, NextRead, NextWritten
<1> QED BY <1>1, <1>2, <1>3, <1>4 DEF Init, IInv

\* A new packet begins where the line ends.
LEMMA BeginWriteIInv ==
  ASSUME IInv, NEW len \in Lengths, BeginWrite(len)
  PROVE  IInv'
<1>1. /\ sent' = Append(sent, len) /\ written' = 0 /\ sender' = "writing" /\ sender = "idle"
      /\ stream' = stream /\ link' = link /\ phase' = phase /\ buf' = buf
      /\ received' = received /\ verdict' = verdict /\ Len(sent) < MaxPackets
  BY DEF BeginWrite
<1>2. /\ Len(sent') = Len(sent) + 1 /\ sent' \in Seq(Lengths) /\ sent' # <<>>
      /\ \A n \in 1..Len(sent) : sent'[n] = sent[n]
      /\ sent'[Len(sent) + 1] = len
      /\ Len(sent) \in Nat
  BY <1>1 DEF IInv, TypeOK
<1>3. /\ len \in Nat /\ WireLen(len) \in Nat /\ 1 <= WireLen(len)
  BY WireLenProperties, PacketStreamAssumption
<1>4. TypeOK'
  BY <1>1, <1>2, <1>3, PacketStreamAssumption, SMTT(40) DEF IInv, TypeOK
<1>5. WriterInv'
  BY <1>1, <1>2, <1>3 DEF WriterInv
<1>6. NextWritten' = <<Len(sent) + 1, 1>>
  BY <1>1, <1>2, <1>3 DEF NextWritten, After
<1>7. NextWritten = <<Len(sent) + 1, 1>>
  BY <1>1, <1>2, SentProperties DEF IInv, NextWritten, After, WriterInv
<1>8. StreamInv'
  <2>1. \A i \in 1..Len(stream) : stream[i][1] \in 1..Len(sent) /\ sent'[stream[i][1]] = sent[stream[i][1]]
    BY <1>2 DEF IInv, StreamInv
  <2>2. \A i \in 1..Len(stream) : After(stream[i])' = After(stream[i])
    BY <1>1, <2>1 DEF After
  <2>3. Len(stream) \in Nat /\ (stream # <<>> => Len(stream) \in 1..Len(stream))
    BY BytesProperties DEF IInv
  <2> QED BY <1>1, <1>2, <1>6, <1>7, <2>1, <2>2, <2>3 DEF IInv, StreamInv
<1>9. ReaderInv'
  <2> DEFINE r == Len(received)
             m == Len(sent)
  <2>1. r \in Nat /\ m \in Nat /\ r <= m
    BY <1>2 DEF IInv, ReaderInv, TypeOK
  <2>2. Len(sent') = m + 1 /\ \A n \in 1..r : sent'[n] = sent[n]
    BY <1>2, <2>1
  <2>3. r < m => sent'[r + 1] = sent[r + 1]
    BY <1>2, <2>1
  <2>4. r <= m + 1 /\ (r < m => r < m + 1)
    BY <2>1
  <2> HIDE DEF m
  <2> QED BY <1>1, <2>2, <2>3, <2>4 DEF IInv, ReaderInv, m
<1>10. MeetInv'
  BY <1>1, <1>6, <1>7 DEF IInv, MeetInv, NextRead
<1> QED BY <1>1, <1>4, <1>5, <1>8, <1>9, <1>10 DEF IInv

\* A short write extends the line by bytes of one packet.
LEMMA WriteSomeIInv ==
  ASSUME IInv, WriteSome
  PROVE  IInv'
<1> DEFINE n == Len(sent)
           W == WireLen(sent[n])
           l == Len(stream)
<1>1. /\ sender = "writing" /\ sent' = sent /\ link' = link /\ phase' = phase /\ buf' = buf
      /\ received' = received /\ verdict' = verdict /\ link = "up" /\ phase # "stopped"
  BY DEF WriteSome
<1>2. PICK k \in 1..Least(W - written, Capacity - l) :
        /\ stream' = stream \o [i \in 1..k |-> <<n, written + i>>]
        /\ written' = written + k
        /\ sender' = IF k = W - written THEN "idle" ELSE "writing"
  BY DEF WriteSome
<1>3. /\ n \in Nat /\ 1 <= n /\ sent # <<>> /\ W \in Nat /\ written \in Nat /\ written < W
      /\ l \in Nat /\ (stream = <<>> <=> l = 0)
  BY <1>1, SentProperties, BytesProperties DEF IInv, TypeOK, WriterInv
<1>4. k \in Nat /\ 1 <= k /\ written + k <= W /\ l + k <= Capacity
  BY <1>2, <1>3, PacketStreamAssumption DEF Least
<1> HIDE DEF n, W, l
<1>5. /\ stream' \in Seq(Bytes) /\ Len(stream') = l + k /\ stream' # <<>>
      /\ \A i \in 1..l : stream'[i] = stream[i]
      /\ \A i \in 1..(l + k) : i > l => stream'[i] = <<n, written + (i - l)>>
  <2> DEFINE new == [i \in 1..k |-> <<n, written + i>>]
  <2>1. new \in Seq(Bytes) /\ Len(new) = k /\ \A i \in 1..k : new[i] = <<n, written + i>>
    BY <1>3, <1>4 DEF Bytes
  <2>2. stream \in Seq(Bytes) /\ stream' = stream \o new
    BY <1>2 DEF IInv
  <2> HIDE DEF new
  <2>3. /\ stream' \in Seq(Bytes) /\ Len(stream') = l + k
        /\ \A i \in 1..(l + k) : stream'[i] = IF i <= l THEN stream[i] ELSE new[i - l]
    BY <2>1, <2>2, ConcatProperties DEF l
  <2>4. \A i \in 1..(l + k) : i > l => i - l \in 1..k
    BY <1>3, <1>4
  <2>5. stream' # <<>>
    BY <2>3, <1>3, <1>4, BytesProperties
  <2> QED BY <2>1, <2>3, <2>4, <2>5, <1>3, <1>4
<1>6. TypeOK'
  <2>1. written' \in Nat /\ written' <= W
    BY <1>2, <1>3, <1>4
  <2>2. ASSUME NEW i \in 1..(l + k) PROVE stream'[i][1] \in 1..n
    <3>1. CASE i <= l
      <4>1. i \in 1..l
        BY <3>1, <1>3, <1>4
      <4> QED BY <4>1, <1>5 DEF IInv, TypeOK, n, l
    <3>2. CASE i > l
      BY <3>2, <1>3, <1>5
    <3> QED BY <3>1, <3>2, <1>3, <1>4
  <2> QED BY <1>1, <1>2, <1>4, <1>5, <2>1, <2>2 DEF IInv, TypeOK, n, W
<1>7. WriterInv'
  <2>1. written' <= W /\ (sender' = "idle" => written' = W) /\ (sender' = "writing" => written' < W)
    BY <1>2, <1>3, <1>4
  <2> QED BY <1>1, <1>3, <2>1 DEF WriterInv, n, W
<1>8. NextWritten = <<n, written + 1>>
  BY <1>3 DEF NextWritten, After, n, W
<1>9. NextWritten' = After(<<n, written + k>>)
  BY <1>1, <1>2, <1>3 DEF NextWritten, After, n
<1>10. StreamInv'
  <2>1. \A i \in 1..l :
          /\ stream[i][1] \in 1..n /\ stream[i][2] \in 1..WireLen(sent[stream[i][1]])
          /\ stream[i] = <<stream[i][1], stream[i][2]>> /\ stream[i][2] \in Nat
          /\ WireLen(sent[stream[i][1]]) \in Nat
    BY BytesProperties, SentProperties DEF IInv, StreamInv, n, l
  <2>2. l > 0 => After(stream[l]) = <<n, written + 1>>
    BY <1>3, <1>8 DEF IInv, StreamInv, l
  <2>3. \A i \in 1..(l + k) :
           stream'[i][1] \in 1..n /\ stream'[i][2] \in 1..WireLen(sent[stream'[i][1]])
    <3> SUFFICES ASSUME NEW i \in 1..(l + k)
                 PROVE  stream'[i][1] \in 1..n /\ stream'[i][2] \in 1..WireLen(sent[stream'[i][1]])
      OBVIOUS
    <3>1. CASE i <= l
      <4>1. i \in 1..l
        BY <3>1, <1>3, <1>4
      <4> QED BY <4>1, <1>5, <2>1
    <3>2. CASE i > l
      <4>1. stream'[i] = <<n, written + (i - l)>> /\ written + (i - l) \in 1..W
        BY <3>2, <1>3, <1>4, <1>5
      <4> QED BY <4>1, <1>3 DEF W
    <3> QED BY <3>1, <3>2, <1>3, <1>4
  <2>4. \A i \in 1..(l + k - 1) : stream'[i + 1] = After(stream'[i])
    <3> SUFFICES ASSUME NEW i \in 1..(l + k - 1)
                 PROVE  stream'[i + 1] = After(stream'[i])
      OBVIOUS
    <3>1. CASE i < l
      BY <3>1, <1>3, <1>4, <1>5, SMTT(40) DEF IInv, StreamInv, l
    <3>2. CASE i = l
      BY <3>2, <1>3, <1>4, <1>5, <2>2
    <3>3. CASE i > l
      <4>1. stream'[i] = <<n, written + (i - l)>> /\ stream'[i + 1] = <<n, written + (i - l) + 1>>
        BY <3>3, <1>3, <1>4, <1>5
      <4>2. written + (i - l) < W
        BY <3>3, <1>3, <1>4
      <4> QED BY <4>1, <4>2 DEF After, W
    <3> QED BY <3>1, <3>2, <3>3, <1>3, <1>4
  <2>5. \A i, j \in 1..(l + k) :
          i <= j /\ stream'[i][2] + (j - i) <= WireLen(sent[stream'[i][1]])
            => stream'[j] = <<stream'[i][1], stream'[i][2] + (j - i)>>
    <3> SUFFICES ASSUME NEW i \in 1..(l + k), NEW j \in 1..(l + k), i <= j,
                        stream'[i][2] + (j - i) <= WireLen(sent[stream'[i][1]])
                 PROVE  stream'[j] = <<stream'[i][1], stream'[i][2] + (j - i)>>
      OBVIOUS
    <3>1. CASE j <= l
      <4>1. i \in 1..l /\ j \in 1..l
        BY <3>1, <1>3, <1>4
      <4>2. stream'[i] = stream[i] /\ stream'[j] = stream[j]
        BY <4>1, <1>5
      <4> QED BY <4>1, <4>2 DEF IInv, StreamInv, l
    <3>2. CASE i > l
      BY <3>2, <1>3, <1>4, <1>5
    <3>3. CASE i <= l /\ j > l
      <4> DEFINE a == stream[i][1]
                 c == stream[i][2]
      <4>1. /\ i \in 1..l /\ l \in 1..l /\ stream'[i] = stream[i]
            /\ stream'[j] = <<n, written + (j - l)>> /\ a \in Nat /\ c \in Nat
        BY <3>3, <1>3, <1>4, <1>5, <2>1, SMTT(40)
      <4>2. c + (j - i) <= WireLen(sent[a]) /\ WireLen(sent[a]) \in Nat
        BY <4>1, <2>1
      <4>3. i <= l /\ c + (l - i) <= WireLen(sent[a]) /\ c + (l - i) < WireLen(sent[a])
        BY <4>1, <4>2, <3>3, <1>3, SMTT(40)
      <4>4. stream[l] = <<a, c + (l - i)>>
        BY <4>1, <4>3 DEF IInv, StreamInv, l
      <4>5. After(stream[l]) = <<a, c + (l - i) + 1>>
        BY <4>3, <4>4 DEF After
      <4>6. a = n /\ c + (l - i) + 1 = written + 1
        BY <4>1, <4>5, <2>2, <1>3
      <4>7. c + (j - i) = written + (j - l)
        <5> HIDE DEF a, c
        <5> QED BY <4>1, <4>6, <1>3, <1>4
      <4> QED BY <4>1, <4>6, <4>7
    <3> QED BY <3>1, <3>2, <3>3, <1>3, <1>4
  <2>6. After(stream'[l + k]) = After(<<n, written + k>>)
    BY <1>3, <1>4, <1>5
  <2>7. \A i \in 1..(l + k - 1) : stream'[i + 1] = After(stream[i])'
    BY <1>1, <2>4 DEF After
  <2>8. After(stream[Len(stream)])' = NextWritten'
    BY <1>1, <1>5, <1>9, <2>6 DEF After
  <2> QED BY <1>1, <1>3, <1>4, <1>5, <2>3, <2>4, <2>5, <2>7, <2>8, SMTT(40) DEF StreamInv, n
<1>11. ReaderInv'
  BY <1>1 DEF IInv, ReaderInv
<1>12. MeetInv'
  <2>1. NextRead = IF stream = <<>> THEN <<n, written + 1>> ELSE stream[1]
    BY <1>1, <1>8 DEF IInv, MeetInv
  <2>2. stream = <<>> => stream'[1] = <<n, written + 1>>
    BY <1>3, <1>4, <1>5
  <2>3. stream # <<>> => stream'[1] = stream[1]
    BY <1>3, <1>4, <1>5
  <2>4. verdict' # "end"
    BY <1>1 DEF IInv, ReaderInv
  <2> QED BY <1>1, <1>5, <2>1, <2>2, <2>3, <2>4 DEF MeetInv, NextRead
<1> QED BY <1>1, <1>5, <1>6, <1>7, <1>10, <1>11, <1>12 DEF IInv

\* The steps that move no byte forward.
LEMMA QuietIInv ==
  ASSUME IInv, WriteFails \/ ReadEnds \/ SenderCloses \/ Reset \/ UNCHANGED vars
  PROVE  IInv'
<1>1. CASE WriteFails
  <2>1. NextWritten' = NextWritten /\ NextRead' = NextRead
    BY <1>1 DEF WriteFails, NextWritten, NextRead, After
  <2>2. TypeOK' /\ WriterInv' /\ ReaderInv'
    BY <1>1 DEF WriteFails, IInv, TypeOK, WriterInv, ReaderInv
  <2>3. StreamInv'
    BY <1>1, <2>1 DEF WriteFails, IInv, StreamInv, After
  <2>4. MeetInv'
    BY <1>1, <2>1 DEF WriteFails, IInv, MeetInv
  <2> QED BY <1>1, <2>2, <2>3, <2>4 DEF WriteFails, IInv
<1>2. CASE ReadEnds
  <2>1. NextWritten' = NextWritten /\ NextRead' = NextRead
    BY <1>2 DEF ReadEnds, NextWritten, NextRead, After
  <2>2. TypeOK' /\ WriterInv' /\ ReaderInv'
    BY <1>2 DEF ReadEnds, IInv, TypeOK, WriterInv, ReaderInv
  <2>3. StreamInv'
    BY <1>2, <2>1 DEF ReadEnds, IInv, StreamInv, After
  <2>4. MeetInv'
    BY <1>2, <2>1 DEF ReadEnds, IInv, MeetInv
  <2> QED BY <1>2, <2>2, <2>3, <2>4 DEF ReadEnds, IInv
<1>3. CASE SenderCloses
  <2>1. NextWritten' = NextWritten /\ NextRead' = NextRead
    BY <1>3 DEF SenderCloses, NextWritten, NextRead, After
  <2>2. TypeOK' /\ WriterInv' /\ ReaderInv'
    BY <1>3 DEF SenderCloses, IInv, TypeOK, WriterInv, ReaderInv
  <2>3. StreamInv'
    BY <1>3, <2>1 DEF SenderCloses, IInv, StreamInv, After
  <2>4. MeetInv'
    BY <1>3, <2>1 DEF SenderCloses, IInv, MeetInv
  <2> QED BY <1>3, <2>2, <2>3, <2>4 DEF SenderCloses, IInv
<1>4. CASE Reset
  <2>1. Len(<<>>) = 0 /\ <<>> \in Seq(Bytes)
    OBVIOUS
  <2>2. TypeOK' /\ WriterInv' /\ ReaderInv'
    BY <1>4, <2>1, PacketStreamAssumption DEF Reset, IInv, TypeOK, WriterInv, ReaderInv
  <2>3. StreamInv'
    BY <1>4, <2>1, PacketStreamAssumption DEF Reset, StreamInv
  <2>4. MeetInv'
    BY <1>4 DEF Reset, IInv, MeetInv, ReaderInv
  <2> QED BY <1>4, <2>1, <2>2, <2>3, <2>4 DEF Reset, IInv
<1>5. CASE UNCHANGED vars
  <2>1. NextWritten' = NextWritten /\ NextRead' = NextRead
    BY <1>5 DEF vars, NextWritten, NextRead, After
  <2>2. TypeOK' /\ WriterInv' /\ ReaderInv'
    BY <1>5 DEF vars, IInv, TypeOK, WriterInv, ReaderInv
  <2>3. StreamInv'
    BY <1>5, <2>1 DEF vars, IInv, StreamInv, After
  <2>4. MeetInv'
    BY <1>5, <2>1 DEF vars, IInv, MeetInv
  <2> QED BY <1>5, <2>2, <2>3, <2>4 DEF vars, IInv
<1> QED BY <1>1, <1>2, <1>3, <1>4, <1>5

\* What read() has put behind the bytes of the packet in progress is its next
\* bytes, and not one of the packet after it.
LEMMA ReadSomeProperties ==
  ASSUME IInv, phase # "stopped", NEW k \in 1..Least(Wanted, Len(stream))
  PROVE  /\ Reading \in 1..Len(sent) /\ k \in 1..Len(stream) /\ link = "up"
         /\ Taken(k) \in Seq(Bytes) /\ Len(Taken(k)) = Len(buf) + k
         /\ Left(k) \in Seq(Bytes) /\ Len(Left(k)) = Len(stream) - k
         /\ \A i \in 1..Len(Taken(k)) : Taken(k)[i] = <<Reading, i>>
         /\ \A i \in 1..Len(Left(k)) : Left(k)[i] = stream[k + i]
         /\ ClaimedLen(Taken(k)) = sent[Reading]
         /\ phase = "header" => Len(Taken(k)) <= HdrLen
         /\ phase = "body" => Len(Taken(k)) <= sent[Reading] /\ HdrLen < Len(Taken(k))
         /\ Len(Taken(k)) <= WireLen(sent[Reading])
         /\ stream[k] = <<Reading, Len(Taken(k))>>
<1> DEFINE b == Len(buf)
           l == Len(stream)
           r == Len(received)
           R == Reading
           W == WireLen(sent[R])
           head == SubSeq(stream, 1, k)
           bytes == Taken(k)
           rest == Left(k)
<1>1. b \in Nat /\ l \in Nat /\ r \in Nat /\ R \in Nat /\ R = r + 1 /\ (stream = <<>> <=> l = 0) /\ (buf = <<>> <=> b = 0)
  BY BytesProperties DEF IInv, TypeOK, Reading
<1>2. \A i \in 1..b : buf[i] = <<R, i>>
  BY DEF IInv, ReaderInv, Reading
<1>3. Wanted = IF b = 0 THEN HdrLen ELSE IF phase = "header" THEN HdrLen - b ELSE sent[R] - b
  <2>1. CASE phase = "header"
    BY <2>1, <1>1, PacketStreamAssumption DEF Wanted
  <2>2. CASE phase = "body"
    <3>1. b # 0 /\ 1 \in 1..b
      BY <1>1, <2>2, PacketStreamAssumption DEF IInv, ReaderInv
    <3>2. ClaimedLen(buf) = sent[R]
      BY <1>2, <3>1 DEF ClaimedLen
    <3> QED BY <2>2, <3>1, <3>2 DEF Wanted
  <2> QED BY <2>1, <2>2 DEF IInv, TypeOK
<1>4. l # 0
  <2>1. SUFFICES ASSUME l = 0 PROVE FALSE
    OBVIOUS
  <2>2. 1..Least(Wanted, l) = {}
    <3>1. Wanted \in Int
      <4>1. phase = "body" => sent[R] \in Nat
        BY <1>1, SentProperties DEF IInv, ReaderInv
      <4> QED BY <4>1, <1>1, <1>3, PacketStreamAssumption DEF IInv, TypeOK
    <3> QED BY <3>1, <2>1 DEF Least
  <2> QED BY <2>2
<1>5. link = "up" /\ stream[1] = <<R, b + 1>>
  BY <1>1, <1>4 DEF IInv, StreamInv, MeetInv, NextRead, TypeOK
<1>6. R \in 1..Len(sent)
  BY <1>1, <1>4, <1>5 DEF IInv, StreamInv
<1>7. /\ sent[R] \in Nat /\ W \in Nat /\ HdrLen <= W /\ (HdrLen <= sent[R] => W = sent[R])
  BY <1>6, SentProperties DEF IInv
<1>8. Wanted \in Int /\ k \in 1..l /\ k <= Wanted
  <2>1. Wanted \in Int
    BY <1>1, <1>3, <1>7, PacketStreamAssumption
  <2> QED BY <2>1, <1>1 DEF Least
<1>9. b + k <= W /\ (phase = "header" => b + k <= HdrLen)
      /\ (phase = "body" => b + k <= sent[R] /\ HdrLen < b + k)
  <2>1. CASE phase = "header"
    <3>1. k <= HdrLen - b
      BY <2>1, <1>1, <1>3, <1>8, PacketStreamAssumption
    <3> QED BY <2>1, <3>1, <1>1, <1>7, <1>8, PacketStreamAssumption
  <2>2. CASE phase = "body"
    <3>1. HdrLen <= b /\ b < sent[R]
      BY <2>2 DEF IInv, ReaderInv, Reading
    <3>2. k <= sent[R] - b
      BY <2>2, <3>1, <1>1, <1>3, <1>8, PacketStreamAssumption
    <3> QED BY <2>2, <3>1, <3>2, <1>1, <1>7, <1>8, PacketStreamAssumption
  <2> QED BY <2>1, <2>2 DEF IInv, TypeOK
<1>10. stream \in Seq(Bytes) /\ buf \in Seq(Bytes)
  BY DEF IInv
<1> HIDE DEF b, l, r, R, W
<1>11. \A i \in 1..k : stream[i] = <<R, b + i>>
  <2> SUFFICES ASSUME NEW i \in 1..k PROVE stream[i] = <<R, b + i>>
    OBVIOUS
  <2>1. 1 \in 1..l /\ i \in 1..l /\ 1 <= i /\ b + 1 + (i - 1) = b + i /\ b + i <= W
    BY <1>1, <1>7, <1>8, <1>9
  <2>2. stream[1][1] = R /\ stream[1][2] = b + 1
    BY <1>5
  <2>3. stream[1][2] + (i - 1) <= WireLen(sent[stream[1][1]])
    BY <2>1, <2>2 DEF W
  <2>4. stream[i] = <<stream[1][1], stream[1][2] + (i - 1)>>
    BY <2>1, <2>3 DEF IInv, StreamInv, l
  <2> QED BY <2>1, <2>2, <2>4
<1>12. head \in Seq(Bytes) /\ Len(head) = k /\ \A i \in 1..k : head[i] = stream[i]
  <2>1. \A i \in 1..k : stream[i] \in Bytes
    BY <1>1, <1>8, <1>10 DEF l
  <2> QED BY <2>1, <1>8, <1>1, SubSeqProperties
<1>13. rest \in Seq(Bytes) /\ Len(rest) = l - k /\ \A i \in 1..(l - k) : rest[i] = stream[k + i]
  <2>1. \A i \in (k + 1)..l : stream[i] \in Bytes
    BY <1>1, <1>8, <1>10 DEF l
  <2>2. k + 1 \in Int /\ l \in Int
    BY <1>1, <1>8
  <2>3. /\ rest \in Seq(Bytes) /\ Len(rest) = IF k + 1 <= l THEN l - (k + 1) + 1 ELSE 0
        /\ \A i \in 1..(l - (k + 1) + 1) : rest[i] = stream[(k + 1) + i - 1]
    BY <2>1, <2>2, SubSeqProperties DEF l, Left
  <2>4. l - (k + 1) + 1 = l - k /\ \A i \in Int : (k + 1) + i - 1 = k + i
    BY <1>1, <1>8
  <2> QED BY <2>3, <2>4, <1>1, <1>8
<1> HIDE DEF head, rest
<1>14. /\ bytes \in Seq(Bytes) /\ Len(bytes) = b + k
       /\ \A i \in 1..(b + k) : bytes[i] = IF i <= b THEN buf[i] ELSE head[i - b]
  BY <1>10, <1>12, ConcatProperties DEF b, Taken
<1> HIDE DEF bytes
<1>15. ASSUME NEW i \in 1..(b + k) PROVE bytes[i] = <<R, i>>
  <2>1. CASE i <= b
    BY <2>1, <1>1, <1>2, <1>14
  <2>2. CASE i > b
    <3>1. i - b \in 1..k /\ b + (i - b) = i
      BY <2>2, <1>1, <1>8
    <3>2. stream[i - b] = <<R, i>> /\ head[i - b] = stream[i - b]
      BY <3>1, <1>11, <1>12
    <3>3. ~(i <= b)
      BY <2>2, <1>1, <1>8
    <3> QED BY <3>2, <3>3, <1>14
  <2> QED BY <2>1, <2>2, <1>1, <1>8
<1>16. ClaimedLen(bytes) = sent[R]
  <2>1. 1 \in 1..(b + k)
    BY <1>1, <1>8
  <2> QED BY <2>1, <1>15 DEF ClaimedLen
<1>17. stream[k] = <<R, b + k>>
  BY <1>8, <1>11
<1> QED BY <1>5, <1>6, <1>8, <1>9, <1>13, <1>14, <1>15, <1>16, <1>17
        DEF b, l, r, R, W, head, bytes, rest, Taken, Left, Reading

\* readPacket returns a whole packet of acceptable length, refuses a length, or
\* reads on, still short of the end of the packet.
LEMMA ReaderTakesCases ==
  ASSUME IInv, phase # "stopped", NEW k \in 1..Least(Wanted, Len(stream)), ReaderTakes(Taken(k))
  PROVE  \/ /\ sent[Reading] = Len(Taken(k)) /\ Len(Taken(k)) \in HdrLen..BufLen
            /\ buf' = <<>> /\ received' = Append(received, Len(Taken(k)))
            /\ verdict' = "packet" /\ phase' = "header"
         \/ /\ Len(Taken(k)) = HdrLen
            /\ buf' = Taken(k) /\ received' = received
            /\ verdict' = "error" /\ phase' = "stopped"
         \/ /\ buf' = Taken(k) /\ received' = received /\ verdict' = verdict
            /\ Len(Taken(k)) < WireLen(sent[Reading])
            /\ \/ phase' = "header" /\ Len(Taken(k)) < HdrLen
               \/ /\ phase' = "body" /\ sent[Reading] <= BufLen
                  /\ HdrLen <= Len(Taken(k)) /\ Len(Taken(k)) < sent[Reading]
<1> DEFINE T == Len(Taken(k))
           S == sent[Reading]
           W == WireLen(sent[Reading])
           complete == T >= HdrLen /\ T = S
           bad == T = HdrLen /\ ~LengthOK(S)
<1>1. T \in Nat /\ S \in Nat /\ W \in Nat /\ HdrLen <= W /\ (HdrLen <= S => W = S) /\ T <= W
  BY ReadSomeProperties, SentProperties, BytesProperties DEF IInv
<1>2. (phase = "header" => T <= HdrLen) /\ (phase = "body" => T <= S /\ HdrLen < T /\ S <= BufLen)
  BY ReadSomeProperties DEF IInv, ReaderInv, Reading
<1>3. phase = "header" \/ phase = "body"
  BY DEF IInv, TypeOK
<1>4. /\ buf'      = IF complete /\ ~bad THEN <<>> ELSE Taken(k)
      /\ received' = IF complete /\ ~bad THEN Append(received, T) ELSE received
      /\ verdict'  = IF bad THEN "error" ELSE IF complete THEN "packet" ELSE verdict
      /\ phase'    = IF bad THEN "stopped"
                     ELSE IF complete \/ T < HdrLen THEN "header" ELSE "body"
  BY ReadSomeProperties DEF ReaderTakes
<1>5. LengthOK(S) <=> HdrLen <= S /\ S <= BufLen
  BY <1>1, PacketStreamAssumption DEF LengthOK
<1> HIDE DEF T, S, W
<1>6. CASE complete
  <2>1. ~bad /\ T <= BufLen
    BY <1>1, <1>2, <1>3, <1>5, <1>6, PacketStreamAssumption
  <2> QED BY <1>1, <1>4, <1>6, <2>1, PacketStreamAssumption DEF T, S
<1>7. CASE bad
  <2>1. ~complete
    BY <1>5, <1>7, PacketStreamAssumption
  <2> QED BY <1>4, <1>7, <2>1 DEF T, S
<1>8. CASE ~complete /\ ~bad
  <2>1. CASE T < HdrLen
    <3>1. phase' = "header" /\ T < W
      BY <1>1, <1>4, <1>8, <2>1, PacketStreamAssumption
    <3> QED BY <1>4, <1>8, <2>1, <3>1 DEF T, S, W
  <2>2. CASE ~(T < HdrLen)
    <3>1. HdrLen <= T /\ T # S /\ T < S /\ S <= BufLen
      BY <1>1, <1>2, <1>3, <1>5, <1>8, <2>2, PacketStreamAssumption
    <3>2. T < W /\ phase' = "body"
      BY <1>1, <1>4, <1>8, <2>2, <3>1, PacketStreamAssumption
    <3> QED BY <1>4, <1>8, <3>1, <3>2 DEF T, S, W
  <2> QED BY <2>1, <2>2
<1> QED BY <1>6, <1>7, <1>8

\* A short read moves the reader along the line.
LEMMA ReadSomeIInv ==
  ASSUME IInv, ReadSome
  PROVE  IInv'
<1>1. /\ phase # "stopped" /\ sent' = sent /\ written' = written /\ sender' = sender /\ link' = link
  BY DEF ReadSome
<1>2. PICK k \in 1..Least(Wanted, Len(stream)) : ReaderTakes(Taken(k)) /\ stream' = Left(k)
  BY DEF ReadSome, Taken, Left
<1> DEFINE T == Len(Taken(k))
           l == Len(stream)
           m == Len(Left(k))
           r == Len(received)
<1>3. /\ Reading \in 1..Len(sent) /\ k \in 1..l /\ link = "up"
      /\ Taken(k) \in Seq(Bytes) /\ T \in Nat /\ 1 <= T
      /\ Left(k) \in Seq(Bytes) /\ m = l - k /\ m \in Nat /\ l \in Nat /\ k \in Nat
      /\ (stream' = <<>> <=> m = 0) /\ stream # <<>>
      /\ \A i \in 1..T : Taken(k)[i] = <<Reading, i>>
      /\ \A i \in 1..m : stream'[i] = stream[k + i]
      /\ T <= WireLen(sent[Reading])
      /\ stream[k] = <<Reading, T>>
  <2>1. Len(buf) \in Nat
    BY BytesProperties DEF IInv
  <2>2. l \in Nat /\ k \in 1..l /\ k \in Nat /\ stream # <<>>
    BY <1>1, ReadSomeProperties, BytesProperties DEF IInv
  <2>3. Left(k) \in Seq(Bytes) /\ m = l - k /\ m \in Nat /\ (stream' = <<>> <=> m = 0)
    BY <1>1, <1>2, ReadSomeProperties, BytesProperties
  <2>4. Taken(k) \in Seq(Bytes) /\ T = Len(buf) + k /\ T \in Nat
    BY <1>1, ReadSomeProperties, BytesProperties
  <2>5. 1 <= T
    BY <2>1, <2>2, <2>4
  <2>6. \A i \in 1..m : stream'[i] = stream[k + i]
    BY <1>1, <1>2, ReadSomeProperties
  <2>7. /\ Reading \in 1..Len(sent) /\ link = "up" /\ \A i \in 1..T : Taken(k)[i] = <<Reading, i>>
        /\ T <= WireLen(sent[Reading]) /\ stream[k] = <<Reading, T>>
    BY <1>1, ReadSomeProperties
  <2> HIDE DEF T, l, m
  <2> QED BY <2>2, <2>3, <2>4, <2>5, <2>6, <2>7
<1>4. Reading = r + 1 /\ r \in Nat /\ Len(sent) \in Nat
  BY SentProperties DEF IInv, TypeOK, Reading
<1>5. \A i \in 1..m : k + i \in 1..l
  BY <1>3
<1> HIDE DEF T, l, m, r
<1>6. NextWritten' = NextWritten
  BY <1>1 DEF NextWritten, After
<1>7. StreamInv'
  <2>1. m <= Capacity
    BY <1>3, PacketStreamAssumption DEF IInv, StreamInv, l
  <2>2. \A i \in 1..m :
           stream'[i][1] \in 1..Len(sent) /\ stream'[i][2] \in 1..WireLen(sent[stream'[i][1]])
    BY <1>3, <1>5 DEF IInv, StreamInv, l
  <2>3. ASSUME NEW i \in 1..(m - 1) PROVE stream'[i + 1] = After(stream'[i])
    <3>1. k + i \in 1..(l - 1) /\ k + (i + 1) = (k + i) + 1 /\ i \in 1..m /\ i + 1 \in 1..m
      BY <1>3
    <3>2. stream'[i] = stream[k + i] /\ stream'[i + 1] = stream[(k + i) + 1]
      BY <1>3, <3>1
    <3> QED BY <3>1, <3>2 DEF IInv, StreamInv, l
  <2>4. \A i \in 1..(m - 1) : stream'[i + 1] = After(stream[i])'
    BY <1>1, <2>3 DEF After
  <2>5. ASSUME NEW i \in 1..m, NEW j \in 1..m, i <= j,
               stream'[i][2] + (j - i) <= WireLen(sent[stream'[i][1]])
        PROVE  stream'[j] = <<stream'[i][1], stream'[i][2] + (j - i)>>
    <3>1. k + i \in 1..l /\ k + j \in 1..l /\ k + i <= k + j /\ (k + j) - (k + i) = j - i
      BY <1>3, <2>5
    <3>2. stream'[i] = stream[k + i] /\ stream'[j] = stream[k + j]
      BY <1>3
    <3> QED BY <2>5, <3>1, <3>2 DEF IInv, StreamInv, l
  <2>6. m # 0 => After(stream'[m]) = NextWritten
    <3>1. m # 0 => m \in 1..m /\ k + m = l
      BY <1>3
    <3> QED BY <1>3, <3>1 DEF IInv, StreamInv, l
  <2>7. Len(stream') = m
    BY <1>2 DEF m
  <2>8. stream' # <<>> => After(stream[Len(stream)])' = NextWritten'
    BY <1>1, <1>3, <1>6, <2>6, <2>7 DEF After
  <2> QED BY <1>1, <1>3, <2>1, <2>2, <2>4, <2>5, <2>7, <2>8 DEF StreamInv
<1>8. WriterInv'
  BY <1>1 DEF IInv, WriterInv
<1>9. /\ Len(stream') <= Capacity
      /\ \A i \in 1..Len(stream') : stream'[i][1] \in 1..Len(sent')
  BY <1>7 DEF StreamInv
<1>10. Len(<<>>) = 0 /\ <<>> \in Seq(Bytes)
  OBVIOUS
<1>11. /\ r <= Len(sent) /\ \A n \in 1..r : received[n] = sent[n]
  BY DEF IInv, ReaderInv, r
<1>12. stream' # <<>> => stream'[1] = After(<<Reading, T>>)
  <2>1. m # 0 => 1 \in 1..m /\ k \in 1..(l - 1)
    BY <1>3
  <2>2. m # 0 => stream[k + 1] = After(stream[k])
    BY <2>1 DEF IInv, StreamInv, l
  <2> QED BY <1>3, <2>1, <2>2
<1>13. stream' = <<>> => NextWritten = After(<<Reading, T>>)
  <2>1. m = 0 => k = l
    BY <1>3
  <2> QED BY <1>3, <2>1 DEF IInv, StreamInv, l
<1>14. CASE /\ sent[Reading] = T /\ T \in HdrLen..BufLen
            /\ buf' = <<>> /\ received' = Append(received, T)
            /\ verdict' = "packet" /\ phase' = "header"
  <2>1. /\ received' \in Seq(HdrLen..BufLen) /\ Len(received') = r + 1
        /\ received'[r + 1] = T /\ \A n \in 1..r : received'[n] = received[n]
    BY <1>14 DEF IInv, TypeOK, r
  <2>2. TypeOK'
    BY <1>1, <1>9, <1>14, <2>1 DEF IInv, TypeOK
  <2>3. ReaderInv'
    <3>1. \A n \in 1..(r + 1) : received'[n] = sent[n]
      BY <1>4, <1>11, <1>14, <2>1
    <3>2. r + 1 <= Len(sent) /\ 0 <= BufLen /\ 0 < HdrLen
      BY <1>3, <1>4, PacketStreamAssumption
    <3> QED BY <1>1, <1>10, <1>14, <2>1, <3>1, <3>2 DEF ReaderInv
  <2>4. After(<<Reading, T>>) = <<Reading + 1, 1>>
    <3>1. ~(T < WireLen(sent[Reading]))
      BY <1>3, <1>14, SentProperties DEF IInv
    <3> QED BY <3>1 DEF After
  <2>5. NextRead' = <<Reading + 1, 1>>
    BY <1>4, <1>10, <1>14, <2>1 DEF NextRead
  <2>6. MeetInv'
    BY <1>6, <1>12, <1>13, <1>14, <2>4, <2>5 DEF MeetInv
  <2> QED BY <1>2, <1>3, <1>7, <1>8, <1>10, <1>14, <2>2, <2>3, <2>6 DEF IInv
<1>15. CASE /\ T = HdrLen
            /\ buf' = Taken(k) /\ received' = received
            /\ verdict' = "error" /\ phase' = "stopped"
  <2>1. TypeOK'
    BY <1>1, <1>9, <1>15 DEF IInv, TypeOK
  <2>2. ReaderInv'
    <3>1. r < Len(sent) /\ T <= BufLen /\ Len(buf') = T /\ Len(received') = r
      BY <1>3, <1>4, <1>15, PacketStreamAssumption DEF T, r
    <3>2. \A i \in 1..T : buf'[i] = <<r + 1, i>>
      BY <1>3, <1>4, <1>15
    <3> QED BY <1>1, <1>11, <1>15, <3>1, <3>2 DEF ReaderInv
  <2>3. MeetInv'
    BY <1>15 DEF MeetInv
  <2> QED BY <1>2, <1>3, <1>7, <1>8, <1>15, <2>1, <2>2, <2>3 DEF IInv
<1>16. CASE /\ buf' = Taken(k) /\ received' = received /\ verdict' = verdict
            /\ T < WireLen(sent[Reading])
            /\ \/ phase' = "header" /\ T < HdrLen
               \/ /\ phase' = "body" /\ sent[Reading] <= BufLen
                  /\ HdrLen <= T /\ T < sent[Reading]
  <2>1. TypeOK'
    BY <1>1, <1>9, <1>16 DEF IInv, TypeOK
  <2>2. ReaderInv'
    <3>1. r < Len(sent) /\ Len(buf') = T /\ Len(received') = r
      BY <1>3, <1>4, <1>16 DEF T, r
    <3>2. \A i \in 1..T : buf'[i] = <<r + 1, i>>
      BY <1>3, <1>4, <1>16
    <3>3. T <= BufLen /\ sent[Reading] \in Nat
      BY <1>3, <1>16, SentProperties, PacketStreamAssumption DEF IInv
    <3>4. verdict \notin {"end", "error"} /\ phase' # "stopped"
      BY <1>1, <1>16 DEF IInv, ReaderInv
    <3> QED BY <1>1, <1>4, <1>11, <1>16, <3>1, <3>2, <3>3, <3>4 DEF ReaderInv
  <2>3. After(<<Reading, T>>) = <<Reading, T + 1>>
    BY <1>16 DEF After
  <2>4. NextRead' = <<Reading, T + 1>>
    BY <1>4, <1>16 DEF NextRead, T, r
  <2>5. verdict # "end"
    BY <1>1 DEF IInv, ReaderInv
  <2>6. MeetInv'
    BY <1>6, <1>12, <1>13, <1>16, <2>3, <2>4, <2>5 DEF MeetInv
  <2> QED BY <1>2, <1>3, <1>7, <1>8, <1>16, <2>1, <2>2, <2>6 DEF IInv
<1> QED BY <1>1, <1>2, <1>14, <1>15, <1>16, ReaderTakesCases DEF T

LEMMA Inductive == Spec => []IInv
<1>1. IInv /\ [Next]_vars => IInv'
  BY BeginWriteIInv, WriteSomeIInv, ReadSomeIInv, QuietIInv DEF Next
<1> QED BY InitIInv, <1>1, PTL DEF Spec

-----------------------------------------------------------------------------

\* Every variable of the stream keeps its type; bytes in the socket are of
\* packets that were sent, and no more than it holds.
THEOREM TypeCorrect == Spec => []TypeOK
<1>1. IInv => TypeOK
  BY DEF IInv
<1> QED BY Inductive, <1>1, PTL

\* pktBuf always holds the first bytes of exactly the next packet, within lenPktBuf.
THEOREM FramingHolds == Spec => []FramingNeverSlips
<1>1. IInv => FramingNeverSlips
  BY DEF IInv, ReaderInv, FramingNeverSlips
<1> QED BY Inductive, <1>1, PTL

\* What readPacket has returned is, in order and without a gap, what was sent.
DeliveredInOrder ==
  /\ Len(received) <= Len(sent)
  /\ \A n \in 1..Len(received) : received[n] = sent[n]

\* The packets readPacket returns are a prefix of those handed to writePacket.
THEOREM OrderHolds == Spec => []DeliveredInOrder
<1>1. IInv => DeliveredInOrder
  BY DEF IInv, ReaderInv, DeliveredInOrder
<1> QED BY Inductive, <1>1, PTL

\* readPacket returns 0 only between two packets, and of a connection that was not
\* reset only when every byte that was sent has been received.
THEOREM EndHolds == Spec => []EndIsBetweenPackets
<1>1. IInv => EndIsBetweenPackets
  <2> SUFFICES ASSUME IInv, verdict = "end"
               PROVE  /\ buf = <<>>
                      /\ link = "up" => \/ Len(received) = Len(sent)
                                        \/ Len(received) = Len(sent) - 1 /\ written = 0
    BY DEF EndIsBetweenPackets
  <2>1. buf = <<>> /\ Len(<<>>) = 0
    BY DEF IInv, MeetInv
  <2>2. ASSUME link = "up"
        PROVE  Len(received) = Len(sent) \/ (Len(received) = Len(sent) - 1 /\ written = 0)
    <3> DEFINE n == Len(sent)
               r == Len(received)
    <3>1. n \in Nat /\ r \in Nat /\ written \in Nat /\ (sent = <<>> <=> n = 0)
      BY SentProperties DEF IInv, TypeOK
    <3>2. NextWritten = <<r + 1, 1>>
      BY <2>1, <2>2 DEF IInv, MeetInv, NextRead
    <3> HIDE DEF r
    <3>3. CASE n = 0
      <4>1. r + 1 = 1
        BY <3>1, <3>2, <3>3 DEF NextWritten
      <4> QED BY <3>1, <3>3, <4>1 DEF r
    <3>4. CASE n # 0 /\ written < WireLen(sent[n])
      <4>1. n = r + 1 /\ written + 1 = 1
        BY <3>1, <3>2, <3>4 DEF NextWritten, After
      <4>2. n - 1 = r /\ written = 0
        BY <3>1, <4>1
      <4> QED BY <4>2 DEF r
    <3>5. CASE n # 0 /\ ~(written < WireLen(sent[n]))
      <4>1. n + 1 = r + 1
        BY <3>1, <3>2, <3>5 DEF NextWritten, After
      <4>2. n = r
        BY <3>1, <4>1
      <4> QED BY <4>2 DEF r
    <3> QED BY <3>3, <3>4, <3>5
  <2> QED BY <2>1, <2>2
<1> QED BY Inductive, <1>1, PTL

\* However its bytes are cut, a connection delivers whole packets, in order, of
\* acceptable length, and nothing after the first 0 or -1: PacketChannel.
THEOREM Implements == Spec => ImplementsChannel
<1>1. Init => Channel!Init
  BY DEF Init, Channel!Init
<1>2. IInv /\ [Next]_vars => [Channel!Next]_<<sent, received, verdict>>
  <2> SUFFICES ASSUME IInv, [Next]_vars
               PROVE  Channel!Next \/ UNCHANGED <<sent, received, verdict>>
    OBVIOUS
  <2>1. ASSUME NEW len \in Lengths, BeginWrite(len) PROVE Channel!Send(len)
    BY <2>1 DEF BeginWrite, Channel!Send
  <2>2. CASE ReadSome
    <3>1. phase # "stopped" /\ sent' = sent /\ verdict \in {"none", "packet"}
      BY <2>2 DEF ReadSome, IInv, ReaderInv, TypeOK
    <3>2. PICK k \in 1..Least(Wanted, Len(stream)) : ReaderTakes(Taken(k))
      BY <2>2 DEF ReadSome, Taken, Left
    <3>3. Reading \in 1..Len(sent) /\ Len(sent) \in Nat /\ Len(received) \in Nat
      BY <3>1, ReadSomeProperties, SentProperties DEF IInv, TypeOK
    <3>4. Len(received) < Len(sent)
      BY <3>3 DEF Reading
    <3>5. Channel!Deliver \/ Channel!Stop \/ UNCHANGED <<sent, received, verdict>>
      BY <3>1, <3>2, <3>4, ReaderTakesCases DEF Channel!Deliver, Channel!Stop, Reading
    <3> QED BY <3>5 DEF Channel!Next
  <2>3. CASE ReadEnds
    <3>1. verdict \in {"none", "packet"}
      BY <2>3 DEF ReadEnds, IInv, ReaderInv, TypeOK
    <3>2. Channel!Stop
      BY <2>3, <3>1 DEF ReadEnds, Channel!Stop
    <3> QED BY <3>2 DEF Channel!Next
  <2>4. CASE WriteSome \/ WriteFails \/ SenderCloses \/ Reset \/ UNCHANGED vars
    BY <2>4 DEF WriteSome, WriteFails, SenderCloses, Reset, vars
  <2> QED BY <2>1, <2>2, <2>3, <2>4 DEF Next, Channel!Next
<1> QED BY Inductive, <1>1, <1>2, PTL DEF Spec, ImplementsChannel, Channel!Spec, Channel!vars

===============================================================================
