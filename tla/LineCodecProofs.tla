-------------------------- MODULE LineCodecProofs --------------------------
(***************************************************************************)
(* Proofs about LineCodec, for all messages, peers, chunks and sizes.      *)
(***************************************************************************)
EXTENDS LineCodec, SequenceTheorems, WellFoundedInduction, TLAPS

\* A line is a sequence of bytes that ends in the only newline it has.
LEMMA LineType ==
  ASSUME NEW m \in Messages
  PROVE  /\ Encoding[m] \in Seq(Bytes) /\ Line(m) \in Seq(Bytes)
         /\ Len(Line(m)) \in Nat
<1>1. Encoding[m] \in Seq(Bytes \ {Newline})
  BY CodecAssumption DEF CodecAssumption
<1>2. Encoding[m] \in Seq(Bytes)
  BY <1>1
<1> QED
  BY <1>2, CodecAssumption DEF CodecAssumption, Line

\* What a part of a sequence is.
LEMMA Part ==
  ASSUME NEW S, NEW s \in Seq(S), NEW from \in 1 .. Len(s) + 1, NEW to \in from - 1 .. Len(s)
  PROVE  /\ SubSeq(s, from, to) \in Seq(S)
         /\ Len(SubSeq(s, from, to)) = to - from + 1
         /\ \A k \in 1 .. to - from + 1 : SubSeq(s, from, to)[k] = s[from + k - 1]
  OBVIOUS

\* What is read at once.
LEMMA Chunk ==
  ASSUME NEW S, NEW s \in Seq(S), NEW from \in 0 .. Len(s), NEW n \in 1 .. Len(s) - from
  PROVE  /\ SubSeq(s, from + 1, from + n) \in Seq(S)
         /\ Len(SubSeq(s, from + 1, from + n)) = n
         /\ \A k \in 1 .. n : SubSeq(s, from + 1, from + n)[k] = s[from + k]
<1>1. Len(s) \in Nat
  OBVIOUS
<1>2. PICK a, b, l : a = from + 1 /\ b = from + n /\ l = Len(s)
  OBVIOUS
<1>3. l \in Nat /\ from \in 0 .. l /\ n \in 1 .. l - from
  BY <1>1, <1>2
<1>4. /\ a \in 1 .. l + 1 /\ b \in a - 1 .. l /\ b - a + 1 = n
      /\ \A k \in 1 .. n : a + k - 1 = from + k
  BY <1>2, <1>3
<1>5. /\ SubSeq(s, a, b) \in Seq(S) /\ Len(SubSeq(s, a, b)) = b - a + 1
      /\ \A k \in 1 .. b - a + 1 : SubSeq(s, a, b)[k] = s[a + k - 1]
  BY <1>2, <1>4, Part
<1> QED
  BY <1>2, <1>4, <1>5

\* Two sequences joined: the first, then the second.
LEMMA Joined ==
  ASSUME NEW S, NEW s \in Seq(S), NEW t \in Seq(S)
  PROVE  /\ s \o t \in Seq(S) /\ Len(s \o t) = Len(s) + Len(t)
         /\ \A k \in 1 .. Len(s) : (s \o t)[k] = s[k]
         /\ \A k \in 1 .. Len(t) : (s \o t)[Len(s) + k] = t[k]
  OBVIOUS

\* The types hold, and the cache never points past the buffer.
THEOREM LineTypes == Spec => []TypeOK
<1> USE CodecAssumption DEF CodecAssumption
<1>1. Init => TypeOK
  <2> SUFFICES ASSUME Init PROVE TypeOK
    OBVIOUS
  <2>1. wire \in Seq(Bytes) /\ Len(wire) \in Nat
    BY DEF Init
  <2>2. /\ accepted \in Seq(Messages) /\ lines \in Seq(Seq(Bytes))
        /\ wbuf \in Seq(Bytes) /\ rbuf \in Seq(Bytes) /\ Len(rbuf) = 0
    BY DEF Init
  <2>3. taken \in 0 .. Len(wire)
    BY <2>1 DEF Init
  <2>4. position \in 0 .. Len(rbuf)
    BY <2>2 DEF Init
  <2>5. readable \in BOOLEAN /\ eof \in BOOLEAN
    BY DEF Init
  <2>6. writer \in {"open", "closed", "failed"} /\ reader \in {"open", "end", "failed"}
    BY DEF Init
  <2> QED
    BY <2>1, <2>2, <2>3, <2>4, <2>5, <2>6 DEF TypeOK
<1>2. TypeOK /\ [Next]_vars => TypeOK'
  <2> SUFFICES ASSUME TypeOK, [Next]_vars PROVE TypeOK'
    OBVIOUS
  <2>1. ASSUME NEW m \in Messages, Send(m) PROVE TypeOK'
    BY <2>1, LineType DEF TypeOK, Send, Encode, readVars
  <2>2. ASSUME NEW n \in 1 .. Len(wbuf), Write(n) PROVE TypeOK'
    <3>1. SubSeq(wbuf, 1, n) \in Seq(Bytes) /\ SubSeq(wbuf, n + 1, Len(wbuf)) \in Seq(Bytes)
      BY <2>2 DEF TypeOK
    <3>2. wire' \in Seq(Bytes) /\ Len(wire') >= Len(wire)
      BY <2>2, <3>1 DEF TypeOK, Write
    <3> QED
      BY <2>2, <3>1, <3>2 DEF TypeOK, Write, readVars
  <2>3. CASE Close
    BY <2>3 DEF TypeOK, Close, readVars
  <2>4. CASE Break
    BY <2>4 DEF TypeOK, Break, readVars
  <2>5. ASSUME NEW n \in 1 .. Len(wire) - taken, Read(n) PROVE TypeOK'
    <3>1. SubSeq(wire, taken + 1, taken + n) \in Seq(Bytes)
      BY <2>5 DEF TypeOK
    <3>2. rbuf' \in Seq(Bytes) /\ Len(rbuf') >= Len(rbuf)
      BY <2>5, <3>1 DEF TypeOK, Read
    <3> QED
      BY <2>5, <3>2 DEF TypeOK, Read, writeVars
  <2>6. CASE ReadEof
    BY <2>6 DEF TypeOK, ReadEof, writeVars
  <2>7. CASE DecodeLine
    <3>1. PICK i \in Unscanned :
            /\ lines' = Append(lines, SubSeq(rbuf, 1, i - 1))
            /\ rbuf' = SubSeq(rbuf, i + 1, Len(rbuf))
      BY <2>7 DEF DecodeLine
    <3>2. i \in 1 .. Len(rbuf)
      BY <3>1 DEF TypeOK, Unscanned
    <3>3. SubSeq(rbuf, 1, i - 1) \in Seq(Bytes) /\ rbuf' \in Seq(Bytes)
      BY <3>1, <3>2, Part DEF TypeOK
    <3>4. lines' \in Seq(Seq(Bytes)) /\ Len(rbuf') \in Nat
      BY <3>1, <3>3 DEF TypeOK
    <3>5. position' = 0
      BY <2>7 DEF DecodeLine, AfterLine
    <3>6. UNCHANGED <<taken, readable, eof, reader, accepted, wbuf, writer, wire>>
      BY <2>7 DEF DecodeLine, writeVars
    <3> QED
      BY <3>3, <3>4, <3>5, <3>6 DEF TypeOK
  <2>8. CASE DecodeNothing
    <3>1. position' = Len(rbuf) /\ readable' = FALSE
      BY <2>8 DEF DecodeNothing, AfterScan
    <3>2. UNCHANGED <<taken, rbuf, eof, lines, reader, accepted, wbuf, writer, wire>>
      BY <2>8 DEF DecodeNothing, writeVars
    <3>3. Len(rbuf) \in 0 .. Len(rbuf) /\ FALSE \in BOOLEAN
      BY DEF TypeOK
    <3> QED
      BY <3>1, <3>2, <3>3 DEF TypeOK
  <2>9. CASE DecodeEof
    BY <2>9 DEF TypeOK, DecodeEof, AfterScan, HowItEnds, writeVars
  <2>10. CASE UNCHANGED vars
    BY <2>10 DEF TypeOK, vars, readVars, writeVars
  <2> QED
    BY <2>1, <2>2, <2>3, <2>4, <2>5, <2>6, <2>7, <2>8, <2>9, <2>10 DEF Next
<1> QED
  BY <1>1, <1>2, PTL DEF Spec

-----------------------------------------------------------------------------
(* The buffer and the cache.                                               *)

\* The read buffer is the part of the stream that was read last, nothing of it has
\* to be scanned twice, and at the end of the input there is no more to come.
BufferInv ==
  /\ Len(rbuf) <= taken
  /\ \A k \in 1 .. Len(rbuf) : rbuf[k] = wire[taken - Len(rbuf) + k]
  /\ CacheIsSound
  /\ writer # "open" => wbuf = <<>>
  /\ eof => writer # "open" /\ taken = Len(wire)

\* Taking a line leaves the rest of the buffer.
LEMMA LineTaken ==
  ASSUME TypeOK, BufferInv, DecodeLine
  PROVE  \E i \in 1 .. Len(rbuf) :
           /\ rbuf[i] = Newline
           /\ \A k \in 1 .. i - 1 : rbuf[k] # Newline
           /\ lines' = Append(lines, SubSeq(rbuf, 1, i - 1))
           /\ rbuf' = SubSeq(rbuf, i + 1, Len(rbuf))
           /\ Len(rbuf') = Len(rbuf) - i
           /\ \A k \in 1 .. Len(rbuf') : rbuf'[k] = rbuf[i + k]
<1>1. PICK i \in Unscanned :
        /\ rbuf[i] = Newline
        /\ \A j \in position + 1 .. i - 1 : rbuf[j] # Newline
        /\ lines' = Append(lines, SubSeq(rbuf, 1, i - 1))
        /\ rbuf' = SubSeq(rbuf, i + 1, Len(rbuf))
  BY DEF DecodeLine
<1>2. i \in 1 .. Len(rbuf) /\ Len(rbuf) \in Nat /\ position \in 0 .. Len(rbuf)
  BY <1>1 DEF TypeOK, Unscanned
<1>3. \A k \in 1 .. i - 1 : rbuf[k] # Newline
  BY <1>1, <1>2 DEF BufferInv, CacheIsSound
<1>4. Len(rbuf') = Len(rbuf) - i /\ \A k \in 1 .. Len(rbuf') : rbuf'[k] = rbuf[i + k]
  BY <1>1, <1>2 DEF TypeOK
<1> QED
  BY <1>1, <1>2, <1>3, <1>4

\* What the codec has scanned holds no end of a line.
THEOREM CacheSound == Spec => [](BufferInv /\ CacheIsSound)
<1>1. Init => BufferInv
  BY DEF Init, BufferInv, CacheIsSound
<1>2. TypeOK /\ BufferInv /\ [Next]_vars => BufferInv'
  <2> SUFFICES ASSUME TypeOK, BufferInv, [Next]_vars PROVE BufferInv'
    OBVIOUS
  <2> USE DEF BufferInv, CacheIsSound
  <2>1. ASSUME NEW m \in Messages, Send(m) PROVE BufferInv'
    BY <2>1 DEF Send, readVars
  <2>2. ASSUME NEW n \in 1 .. Len(wbuf), Write(n) PROVE BufferInv'
    <3>1. writer = "open" /\ eof = FALSE
      BY <2>2 DEF TypeOK
    <3>2. Len(wire') >= Len(wire) /\ \A k \in 1 .. Len(wire) : wire'[k] = wire[k]
      BY <2>2 DEF TypeOK, Write
    <3>3. UNCHANGED <<taken, rbuf, position, eof, writer>>
      BY <2>2 DEF Write, readVars
    <3>4. \A k \in 1 .. Len(rbuf) : taken - Len(rbuf) + k \in 1 .. Len(wire)
      BY DEF TypeOK
    <3> QED
      BY <3>1, <3>2, <3>3, <3>4
  <2>3. CASE Close
    BY <2>3 DEF Close, readVars
  <2>4. CASE Break
    BY <2>4 DEF Break, readVars
  <2>5. ASSUME NEW n \in 1 .. Len(wire) - taken, Read(n) PROVE BufferInv'
    <3>1. /\ SubSeq(wire, taken + 1, taken + n) \in Seq(Bytes)
          /\ Len(SubSeq(wire, taken + 1, taken + n)) = n
          /\ \A k \in 1 .. n : SubSeq(wire, taken + 1, taken + n)[k] = wire[taken + k]
      BY Chunk DEF TypeOK
    <3>2. /\ Len(rbuf') = Len(rbuf) + n
          /\ \A k \in 1 .. Len(rbuf) : rbuf'[k] = rbuf[k]
          /\ \A k \in 1 .. n : rbuf'[Len(rbuf) + k] = wire[taken + k]
      BY <2>5, <3>1, Joined DEF TypeOK, Read
    <3>3. taken' = taken + n /\ UNCHANGED <<position, eof, wire, writer, wbuf>> /\ ~eof
      BY <2>5 DEF Read, writeVars, TypeOK
    <3>4. ASSUME NEW k \in 1 .. Len(rbuf') PROVE rbuf'[k] = wire[taken' - Len(rbuf') + k]
      <4>1. CASE k <= Len(rbuf)
        BY <3>2, <3>3, <4>1 DEF TypeOK
      <4>2. CASE k > Len(rbuf)
        <5>1. k - Len(rbuf) \in 1 .. n /\ Len(rbuf) + (k - Len(rbuf)) = k
          BY <3>2, <4>2 DEF TypeOK
        <5>2. rbuf'[k] = wire[taken + (k - Len(rbuf))]
          BY <3>2, <5>1
        <5>3. taken' - Len(rbuf') + k = taken + (k - Len(rbuf))
          BY <3>2, <3>3 DEF TypeOK
        <5> QED
          BY <5>2, <5>3
      <4> QED
        BY <4>1, <4>2 DEF TypeOK
    <3>5. position \in 0 .. Len(rbuf) /\ Len(rbuf) \in Nat /\ taken \in Nat
      BY DEF TypeOK
    <3>6. Len(rbuf') <= taken' /\ position' <= Len(rbuf')
      BY <3>2, <3>3, <3>5
    <3>7. \A k \in 1 .. position' : rbuf'[k] # Newline
      <4>1. position' = position /\ \A k \in 1 .. position : rbuf[k] # Newline
        BY <3>3
      <4>2. \A k \in 1 .. position : k \in 1 .. Len(rbuf)
        BY <3>5
      <4>3. \A k \in 1 .. Len(rbuf) : rbuf'[k] = rbuf[k]
        BY <3>2
      <4> QED
        BY <4>1, <4>2, <4>3
    <3> QED
      BY <3>3, <3>4, <3>6, <3>7
  <2>6. CASE ReadEof
    BY <2>6 DEF ReadEof, writeVars
  <2>7. CASE DecodeLine
    <3>1. PICK i \in 1 .. Len(rbuf) :
            /\ Len(rbuf') = Len(rbuf) - i
            /\ \A k \in 1 .. Len(rbuf') : rbuf'[k] = rbuf[i + k]
      BY <2>7, LineTaken
    <3>2. position' = 0 /\ UNCHANGED <<taken, eof, wire, writer, wbuf>>
      BY <2>7 DEF DecodeLine, AfterLine, writeVars
    <3> QED
      BY <3>1, <3>2 DEF TypeOK
  <2>8. CASE DecodeNothing \/ DecodeEof
    <3>1. position' = Len(rbuf) /\ UNCHANGED <<taken, rbuf, eof, wire, writer, wbuf>>
      BY <2>8 DEF DecodeNothing, DecodeEof, AfterScan, writeVars
    <3>2. \A i \in Unscanned : rbuf[i] # Newline
      BY <2>8 DEF DecodeNothing, DecodeEof, NothingFound
    <3> QED
      BY <3>1, <3>2 DEF Unscanned, TypeOK
  <2>9. CASE UNCHANGED vars
    BY <2>9 DEF vars, readVars, writeVars
  <2> QED
    BY <2>1, <2>2, <2>3, <2>4, <2>5, <2>6, <2>7, <2>8, <2>9 DEF Next
<1>3. BufferInv => CacheIsSound
  BY DEF BufferInv
<1> QED
  BY <1>1, <1>2, <1>3, LineTypes, PTL DEF Spec

-----------------------------------------------------------------------------
(* Refinement.                                                             *)

\* The stream of LineStream, as the refinement maps it.
Sent == wire \o wbuf
Done == taken - Len(rbuf)

\* Appending a line to the buffer appends it to the stream.
LEMMA SendingAppends ==
  ASSUME NEW S, NEW s \in Seq(S), NEW t \in Seq(S), NEW u \in Seq(S)
  PROVE  s \o (t \o u) = (s \o t) \o u
  BY ConcatAssociative

\* Moving bytes from the write buffer to the wire leaves the stream as it is.
LEMMA WritingKeeps ==
  ASSUME NEW S, NEW s \in Seq(S), NEW t \in Seq(S), NEW n \in 1 .. Len(t)
  PROVE  (s \o SubSeq(t, 1, n)) \o SubSeq(t, n + 1, Len(t)) = s \o t
<1> DEFINE front == SubSeq(t, 1, n)
           back == SubSeq(t, n + 1, Len(t))
<1>1. front \in Seq(S) /\ back \in Seq(S)
  BY Part
<1>2. front \o back = t
  <2>1. /\ 1 \in 1 .. Len(t) + 1 /\ n \in 1 - 1 .. Len(t) /\ Len(t) \in n .. Len(t)
        /\ Len(t) \in Nat
    OBVIOUS
  <2> QED
    BY <2>1, ConcatAdjacentSubSeq, SubSeqFull
<1> HIDE DEF front, back
<1>3. (s \o front) \o back = s \o (front \o back)
  BY <1>1
<1> QED
  BY <1>2, <1>3 DEF front, back

\* The read buffer is what follows the lines in the stream.
LEMMA BufferIsNext ==
  ASSUME TypeOK, BufferInv
  PROVE  /\ Done \in Nat /\ Sent \in Seq(Bytes)
         /\ Len(wire) <= Len(Sent) /\ Done + Len(rbuf) = taken
         /\ \A k \in 1 .. Len(rbuf) : Sent[Done + k] = rbuf[k]
<1>1. Len(wire) \in Nat /\ taken \in 0 .. Len(wire) /\ Len(rbuf) \in Nat /\ Len(wbuf) \in Nat
  BY DEF TypeOK
<1>2. Sent \in Seq(Bytes) /\ Len(Sent) = Len(wire) + Len(wbuf)
      /\ \A k \in 1 .. Len(wire) : Sent[k] = wire[k]
  BY Joined DEF TypeOK, Sent
<1>3. Done \in Nat /\ Done + Len(rbuf) = taken
  BY <1>1 DEF BufferInv, Done
<1>4. ASSUME NEW k \in 1 .. Len(rbuf) PROVE Sent[Done + k] = rbuf[k]
  <2>1. Done + k \in 1 .. Len(wire)
    BY <1>1, <1>3
  <2> QED
    BY <1>2, <2>1 DEF BufferInv, Done
<1> QED
  BY <1>1, <1>2, <1>3, <1>4

\* Taking a line from the buffer takes the next line of the stream.
LEMMA LineStep ==
  ASSUME TypeOK, BufferInv, DecodeLine
  PROVE  \E k \in Done .. Len(Sent) : Stream!Get(k)
<1>1. PICK i \in 1 .. Len(rbuf) :
        /\ rbuf[i] = Newline
        /\ \A k \in 1 .. i - 1 : rbuf[k] # Newline
        /\ lines' = Append(lines, SubSeq(rbuf, 1, i - 1))
        /\ Len(rbuf') = Len(rbuf) - i
  BY LineTaken
<1> DEFINE last == Done + i
<1>2. /\ Done \in Nat /\ Len(Sent) \in Nat /\ Len(rbuf) \in Nat
      /\ last \in Done + 1 .. Len(Sent) /\ last - Done = i
  BY BufferIsNext DEF TypeOK
<1>3. Sent[last] = Newline
  BY <1>1, BufferIsNext
<1>4. ASSUME NEW k \in Done + 1 .. last - 1 PROVE Sent[k] # Newline
  <2>1. k - Done \in 1 .. i - 1 /\ k - Done \in 1 .. Len(rbuf) /\ Done + (k - Done) = k
    BY <1>2
  <2> QED
    BY <1>1, <2>1, BufferIsNext
<1>5. SubSeq(Sent, Done + 1, last - 1) = SubSeq(rbuf, 1, i - 1)
  <2>1. /\ Len(SubSeq(Sent, Done + 1, last - 1)) = i - 1
        /\ SubSeq(Sent, Done + 1, last - 1) \in Seq(Bytes)
        /\ \A k \in 1 .. i - 1 : SubSeq(Sent, Done + 1, last - 1)[k] = Sent[Done + k]
    <3>1. /\ Done + 1 \in 1 .. Len(Sent) + 1 /\ last - 1 \in (Done + 1) - 1 .. Len(Sent)
          /\ (last - 1) - (Done + 1) + 1 = i - 1
          /\ \A k \in 1 .. i - 1 : (Done + 1) + k - 1 = Done + k
      BY <1>2
    <3> DEFINE from == Done + 1
               to == last - 1
    <3>2. /\ from \in 1 .. Len(Sent) + 1 /\ to \in from - 1 .. Len(Sent)
          /\ to - from + 1 = i - 1 /\ \A k \in 1 .. i - 1 : from + k - 1 = Done + k
      BY <3>1
    <3>3. Sent \in Seq(Bytes)
      BY BufferIsNext
    <3> HIDE DEF from, to
    <3>4. /\ Len(SubSeq(Sent, from, to)) = i - 1 /\ SubSeq(Sent, from, to) \in Seq(Bytes)
          /\ \A k \in 1 .. i - 1 : SubSeq(Sent, from, to)[k] = Sent[from + k - 1]
      BY <3>2, <3>3, Part
    <3>5. \A k \in 1 .. i - 1 : SubSeq(Sent, from, to)[k] = Sent[Done + k]
      BY <3>2, <3>4
    <3> QED
      BY <3>4, <3>5 DEF from, to
  <2>2. /\ Len(SubSeq(rbuf, 1, i - 1)) = i - 1
        /\ SubSeq(rbuf, 1, i - 1) \in Seq(Bytes)
        /\ \A k \in 1 .. i - 1 : SubSeq(rbuf, 1, i - 1)[k] = rbuf[k]
    BY DEF TypeOK
  <2>3. \A k \in 1 .. i - 1 : Sent[Done + k] = rbuf[k]
    <3>1. \A k \in 1 .. i - 1 : k \in 1 .. Len(rbuf)
      BY <1>2
    <3>2. \A k \in 1 .. Len(rbuf) : Sent[Done + k] = rbuf[k]
      BY BufferIsNext
    <3> QED
      BY <3>1, <3>2, Zenon
  <2> PICK u, v : u = SubSeq(Sent, Done + 1, last - 1) /\ v = SubSeq(rbuf, 1, i - 1)
    OBVIOUS
  <2>4. /\ u \in Seq(Bytes) /\ v \in Seq(Bytes) /\ Len(u) = i - 1 /\ Len(v) = i - 1
        /\ \A k \in 1 .. i - 1 : u[k] = v[k]
    BY <2>1, <2>2, <2>3
  <2> QED
    BY <2>4
<1>6. taken' - Len(rbuf') = last /\ UNCHANGED <<wire, wbuf, writer, reader>>
  <2>1. UNCHANGED <<taken, wire, wbuf, writer, reader>>
    BY DEF DecodeLine, writeVars
  <2>2. taken \in Nat /\ Len(rbuf) \in Nat
    BY DEF TypeOK
  <2>3. taken - (Len(rbuf) - i) = last
    BY <2>2 DEF Done
  <2> QED
    BY <1>1, <2>1, <2>3
<1>7. reader = "open" /\ last \in Done .. Len(Sent)
  BY <1>2 DEF DecodeLine
<1> HIDE DEF last
<1> QED
  BY <1>1, <1>2, <1>3, <1>4, <1>5, <1>6, <1>7
  DEF Stream!Get, Stream!NoNewline, Sent, Done

\* The end of the input is the end of the stream, cut in a line or not.
LEMMA EndStep ==
  ASSUME TypeOK, BufferInv, DecodeEof
  PROVE  Stream!End
<1>1. /\ reader = "open" /\ writer # "open" /\ wbuf = <<>> /\ taken = Len(wire)
      /\ \A i \in Unscanned : rbuf[i] # Newline
      /\ UNCHANGED <<taken, rbuf, lines, accepted, wbuf, writer, wire>>
      /\ reader' = HowItEnds
  BY DEF DecodeEof, NothingFound, BufferInv, writeVars
<1>2. Sent = wire /\ Len(Sent) = Done + Len(rbuf)
  BY <1>1, BufferIsNext DEF TypeOK, Sent
<1>3. \A i \in 1 .. Len(rbuf) : rbuf[i] # Newline
  BY <1>1 DEF BufferInv, CacheIsSound, TypeOK, Unscanned
<1>4. ASSUME NEW k \in Done + 1 .. Len(Sent) PROVE Sent[k] # Newline
  <2>1. k - Done \in 1 .. Len(rbuf) /\ Done + (k - Done) = k
    BY <1>2, BufferIsNext DEF TypeOK
  <2> QED
    BY <1>3, <2>1, BufferIsNext
<1>5. Done = Len(Sent) <=> rbuf = <<>>
  BY <1>2, BufferIsNext DEF TypeOK
<1> QED
  BY <1>1, <1>4, <1>5 DEF Stream!End, Stream!NoNewline, HowItEnds, Sent, Done

\* The codec does what LineStream promises: the lines read are the lines sent.
THEOREM LineRefinement == Spec => ImplementsLineStream
<1>1. Init => Stream!Init
  <2> SUFFICES ASSUME Init PROVE Stream!Init
    OBVIOUS
  <2>1. wire \in Seq(Bytes)
    BY CodecAssumption DEF Init, CodecAssumption
  <2>2. wbuf = <<>> /\ rbuf = <<>> /\ taken = 0
    BY DEF Init
  <2>3. wire \o wbuf = wire
    BY <2>1, <2>2, ConcatEmptySeq
  <2>4. taken - Len(rbuf) = 0
    <3>1. taken = 0 /\ Len(rbuf) = 0
      BY DEF Init
    <3> QED
      BY <3>1
  <2> QED
    BY <2>3, <2>4 DEF Init, Stream!Init
<1>2. TypeOK /\ BufferInv /\ [Next]_vars => [Stream!Next]_(Stream!vars)
  <2> SUFFICES ASSUME TypeOK, BufferInv, [Next]_vars
               PROVE  Stream!Next \/ UNCHANGED <<Sent, writer, Done, lines, reader>>
    BY DEF Stream!vars, Sent, Done
  <2>1. ASSUME NEW m \in Messages, Send(m) PROVE Stream!Next
    <3>1. Sent' = Sent \o Append(Encoding[m], Newline)
      <4>1. wire' = wire /\ wbuf' = wbuf \o Line(m)
        BY <2>1 DEF Send, Encode
      <4>2. wire \in Seq(Bytes) /\ wbuf \in Seq(Bytes) /\ Line(m) \in Seq(Bytes)
        BY LineType DEF TypeOK
      <4>3. wire \o (wbuf \o Line(m)) = (wire \o wbuf) \o Line(m)
        BY <4>2, SendingAppends
      <4> QED
        BY <4>1, <4>3 DEF Line, Sent
    <3>2. Stream!Put(Encoding[m])
      BY <2>1, <3>1 DEF Send, readVars, Stream!Put, Sent
    <3> QED
      BY <3>2 DEF Stream!Next
  <2>2. ASSUME NEW n \in 1 .. Len(wbuf), Write(n)
        PROVE  UNCHANGED <<Sent, writer, Done, lines, reader>>
    BY <2>2, WritingKeeps DEF Write, readVars, TypeOK, Sent, Done
  <2>3. CASE Close
    <3>1. Sent' = SubSeq(Sent, 1, Len(Sent)) /\ Len(Sent) \in Done .. Len(Sent)
      <4>1. Sent \in Seq(Bytes) /\ Sent' = Sent /\ Done <= Len(Sent)
        BY <2>3, BufferIsNext DEF Close, Sent, TypeOK
      <4> QED
        BY <4>1, BufferIsNext
    <3>2. Stream!Stop(Len(Sent))
      BY <2>3, <3>1 DEF Close, readVars, Stream!Stop, Sent, Done
    <3> QED
      BY <3>1, <3>2 DEF Stream!Next, Sent, Done
  <2>4. CASE Break
    <3>1. Sent' = SubSeq(Sent, 1, Len(wire)) /\ Len(wire) \in Done .. Len(Sent)
      <4>1. Sent' = wire /\ wire = SubSeq(wire \o wbuf, 1, Len(wire))
        BY <2>4 DEF Break, Sent, TypeOK
      <4> QED
        BY <4>1, BufferIsNext DEF Sent, TypeOK
    <3>2. Stream!Stop(Len(wire))
      BY <2>4, <3>1 DEF Break, readVars, Stream!Stop, Sent, Done
    <3> QED
      BY <3>1, <3>2 DEF Stream!Next, Sent, Done
  <2>5. ASSUME NEW n \in 1 .. Len(wire) - taken, Read(n)
        PROVE  UNCHANGED <<Sent, writer, Done, lines, reader>>
    <3>1. Len(rbuf') = Len(rbuf) + n
      BY <2>5 DEF Read, TypeOK
    <3> QED
      BY <2>5, <3>1 DEF Read, writeVars, TypeOK, Sent, Done
  <2>6. CASE ReadEof \/ DecodeNothing
    BY <2>6 DEF ReadEof, DecodeNothing, writeVars, Sent, Done
  <2>7. CASE DecodeLine
    BY <2>7, LineStep DEF Stream!Next, Sent, Done
  <2>8. CASE DecodeEof
    BY <2>8, EndStep DEF Stream!Next
  <2>9. CASE UNCHANGED vars
    BY <2>9 DEF vars, readVars, writeVars, Sent, Done
  <2> QED
    BY <2>1, <2>2, <2>3, <2>4, <2>5, <2>6, <2>7, <2>8, <2>9 DEF Next
<1> QED
  BY <1>1, <1>2, LineTypes, CacheSound, PTL DEF Spec, ImplementsLineStream, Stream!Spec
-----------------------------------------------------------------------------
(* The messages in the stream.                                             *)

\* What a step does to the stream and its reader, by what it is.
LEMMA StreamSteps ==
  ASSUME TypeOK, BufferInv, [Next]_vars
  PROVE  \/ UNCHANGED <<Sent, Done, accepted, lines>>
         \/ \E m \in Messages : Send(m)
         \/ Break \/ DecodeLine
<1>1. ASSUME NEW n \in 1 .. Len(wbuf), Write(n)
      PROVE  UNCHANGED <<Sent, Done, accepted, lines>>
  BY <1>1, WritingKeeps DEF Write, readVars, TypeOK, Sent, Done
<1>2. ASSUME NEW n \in 1 .. Len(wire) - taken, Read(n)
      PROVE  UNCHANGED <<Sent, Done, accepted, lines>>
  <2>1. Len(rbuf') = Len(rbuf) + n
    BY <1>2 DEF Read, TypeOK
  <2> QED
    BY <1>2, <2>1 DEF Read, writeVars, TypeOK, Sent, Done
<1>3. CASE Close \/ ReadEof \/ DecodeNothing \/ DecodeEof \/ UNCHANGED vars
  BY <1>3
  DEF Close, ReadEof, DecodeNothing, DecodeEof, readVars, writeVars, vars, Sent, Done
<1> QED
  BY <1>1, <1>2, <1>3 DEF Next

\* Sending a message appends its line to the stream.
LEMMA SendAdds ==
  ASSUME TypeOK, NEW m \in Messages, Send(m)
  PROVE  Sent' = Sent \o Line(m)
<1>1. wire' = wire /\ wbuf' = wbuf \o Line(m)
  BY DEF Send, Encode
<1>2. wire \in Seq(Bytes) /\ wbuf \in Seq(Bytes) /\ Line(m) \in Seq(Bytes)
  BY LineType DEF TypeOK
<1>3. wire \o (wbuf \o Line(m)) = (wire \o wbuf) \o Line(m)
  BY <1>2, SendingAppends
<1> QED
  BY <1>1, <1>3 DEF Sent

\* at[i] is where the line of the i-th message ends, at[0] where the first begins.
Cut(at) ==
  LET n == Len(accepted)
  IN  /\ at \in [0 .. n -> 0 .. Len(Sent)] /\ at[n] = Len(Sent)
      /\ \A i, j \in 0 .. n : i < j => at[i] < at[j]
      /\ \A i \in 1 .. n :
           /\ at[i] = at[i - 1] + Len(Encoding[accepted[i]]) + 1
           /\ Sent[at[i]] = Newline
           /\ \A k \in 1 .. Len(Encoding[accepted[i]]) :
                Sent[at[i - 1] + k] = Encoding[accepted[i]][k]

EndsWith(s, e) == \E k \in 0 .. Len(s) : SubSeq(s, k + 1, Len(s)) = e

\* The last r lines that were read are those of the first r messages.
ReadUpTo(at, r) ==
  /\ r \in 0 .. Len(accepted) /\ r <= Len(lines)
  /\ Done <= at[r] /\ (r > 0 => Done = at[r])
  /\ r > 0 => EndsWith(lines[Len(lines) - r + 1], Encoding[accepted[1]])
  /\ \A i \in 2 .. r : lines[Len(lines) - r + i] = Encoding[accepted[i]]

\* As long as the writer has lost nothing, its messages cut the stream into lines,
\* and the reader has come to the end of one of them or not yet to the first.  A
\* reader that ends has read the whole stream.
ArrivalInv ==
  /\ writer # "failed" => \E at : Cut(at) /\ \E r \in Nat : ReadUpTo(at, r)
  /\ reader = "end" => writer # "open" /\ Done = Len(Sent)

\* Where the line of a message is, and what it is.
LEMMA CutAt ==
  ASSUME TypeOK, NEW at, Cut(at), NEW i \in 1 .. Len(accepted)
  PROVE  LET e == Encoding[accepted[i]]
         IN  /\ e \in Seq(Bytes \ {Newline}) /\ e \in Seq(Bytes) /\ Len(e) \in Nat
             /\ Sent \in Seq(Bytes) /\ Len(Sent) \in Nat
             /\ at[i - 1] \in Nat /\ at[i] \in Nat /\ at[i] <= Len(Sent)
             /\ at[i] = at[i - 1] + Len(e) + 1 /\ Sent[at[i]] = Newline
             /\ \A k \in 1 .. Len(e) : Sent[at[i - 1] + k] = e[k]
<1>1. Sent \in Seq(Bytes) /\ Len(Sent) \in Nat
  BY Joined DEF TypeOK, Sent
<1>2. accepted[i] \in Messages /\ Len(accepted) \in Nat
  BY DEF TypeOK
<1>3. Encoding[accepted[i]] \in Seq(Bytes \ {Newline})
  BY <1>2, CodecAssumption DEF CodecAssumption
<1>4. Encoding[accepted[i]] \in Seq(Bytes)
  BY <1>2, LineType
<1>5. i - 1 \in 0 .. Len(accepted) /\ i \in 0 .. Len(accepted)
  BY <1>2
<1>6. at[i - 1] \in 0 .. Len(Sent) /\ at[i] \in 0 .. Len(Sent)
  BY <1>5 DEF Cut
<1>7. /\ at[i] = at[i - 1] + Len(Encoding[accepted[i]]) + 1 /\ Sent[at[i]] = Newline
      /\ \A k \in 1 .. Len(Encoding[accepted[i]]) :
           Sent[at[i - 1] + k] = Encoding[accepted[i]][k]
  BY DEF Cut
<1> DEFINE e == Encoding[accepted[i]]
<1> HIDE DEF e
<1>8. Len(e) \in Nat /\ e \in Seq(Bytes) /\ e \in Seq(Bytes \ {Newline})
  BY <1>3, <1>4 DEF e
<1>9. at[i - 1] \in Nat /\ at[i] \in Nat /\ at[i] <= Len(Sent)
  BY <1>1, <1>6
<1> QED
  BY <1>1, <1>7, <1>8, <1>9 DEF e

\* The line of a message ends at the first newline after it begins.
LEMMA NextEnd ==
  ASSUME TypeOK, NEW at, Cut(at), NEW i \in 1 .. Len(accepted),
         NEW from \in Nat, NEW last \in Nat,
         from <= at[i - 1], at[i - 1] < last, last <= Len(Sent), Sent[last] = Newline,
         \A k \in from + 1 .. last - 1 : Sent[k] # Newline
  PROVE  last = at[i]
<1> DEFINE e == Encoding[accepted[i]]
<1>1. e \in Seq(Bytes \ {Newline}) /\ Len(e) \in Nat
  BY CutAt
<1>2. /\ at[i - 1] \in Nat /\ at[i] \in Nat
      /\ at[i] = at[i - 1] + Len(e) + 1 /\ Sent[at[i]] = Newline
      /\ \A k \in 1 .. Len(e) : Sent[at[i - 1] + k] = e[k]
  BY CutAt
<1> HIDE DEF e
<1>3. ~(last < at[i])
  <2> SUFFICES ASSUME last < at[i] PROVE FALSE
    OBVIOUS
  <2>3. PICK b, n \in Nat : b = at[i - 1] /\ n = Len(e)
    BY <1>1, <1>2
  <2>4. last < b + n + 1 /\ b < last
    BY <1>2, <2>3
  <2>5. last - b \in 1 .. n /\ b + (last - b) = last
    BY <2>4
  <2>1. last - at[i - 1] \in 1 .. Len(e) /\ at[i - 1] + (last - at[i - 1]) = last
    BY <2>3, <2>5
  <2>2. e[last - at[i - 1]] = Newline
    BY <1>2, <2>1
  <2> QED
    BY <1>1, <2>1, <2>2
<1>4. ~(at[i] < last)
  BY <1>2
<1> QED
  BY <1>2, <1>3, <1>4

\* A part of the stream that reaches back to the beginning of a message or further
\* ends with that message.
LEMMA MessageInStream ==
  ASSUME TypeOK, NEW at, Cut(at), NEW i \in 1 .. Len(accepted),
         NEW from \in Nat, from <= at[i - 1]
  PROVE  /\ EndsWith(SubSeq(Sent, from + 1, at[i] - 1), Encoding[accepted[i]])
         /\ from = at[i - 1] => SubSeq(Sent, from + 1, at[i] - 1) = Encoding[accepted[i]]
<1> DEFINE e == Encoding[accepted[i]]
           b == at[i - 1]
           t == at[i] - 1
           p == SubSeq(Sent, from + 1, t)
<1>1. e \in Seq(Bytes) /\ Len(e) \in Nat
  BY CutAt
<1>2. Sent \in Seq(Bytes) /\ Len(Sent) \in Nat
  BY CutAt
<1>3. /\ b \in Nat /\ t = b + Len(e) /\ t <= Len(Sent) /\ from <= b
      /\ \A k \in 1 .. Len(e) : Sent[b + k] = e[k]
  <2>1. /\ at[i - 1] \in Nat /\ at[i] \in Nat /\ at[i] <= Len(Sent)
        /\ at[i] = at[i - 1] + Len(e) + 1
        /\ \A k \in 1 .. Len(e) : Sent[at[i - 1] + k] = e[k]
    BY CutAt
  <2> HIDE DEF e
  <2> QED
    BY <1>1, <1>2, <2>1
<1> HIDE DEF e, b, t
<1>4. ASSUME NEW f \in Nat, f <= b
      PROVE  /\ SubSeq(Sent, f + 1, t) \in Seq(Bytes)
             /\ Len(SubSeq(Sent, f + 1, t)) = t - f
             /\ \A k \in 1 .. t - f : SubSeq(Sent, f + 1, t)[k] = Sent[f + k]
  BY <1>1, <1>2, <1>3, <1>4
<1>5. SubSeq(Sent, b + 1, t) = e
  <2>1. t - b = Len(e)
    BY <1>1, <1>3
  <2> QED
    BY <1>1, <1>3, <1>4, <2>1
<1>6. SubSeq(p, (b - from) + 1, Len(p)) = e
  <2> DEFINE q == SubSeq(p, (b - from) + 1, Len(p))
  <2>1. p \in Seq(Bytes) /\ Len(p) = t - from /\ \A k \in 1 .. t - from : p[k] = Sent[from + k]
    BY <1>3, <1>4
  <2> HIDE DEF p
  <2>2. b - from \in Nat /\ (t - from) - (b - from) = Len(e)
    BY <1>1, <1>3
  <2>3. q \in Seq(Bytes) /\ Len(q) = Len(e) /\ \A k \in 1 .. Len(e) : q[k] = p[(b - from) + k]
    BY <1>1, <1>3, <2>1, <2>2
  <2>4. ASSUME NEW k \in 1 .. Len(e) PROVE q[k] = e[k]
    <3>1. (b - from) + k \in 1 .. t - from /\ from + ((b - from) + k) = b + k
      BY <1>1, <1>3
    <3> QED
      BY <1>3, <2>1, <2>3, <3>1
  <2> HIDE DEF q
  <2>5. q = e
    BY <1>1, <2>3, <2>4
  <2> QED
    BY <2>5 DEF q
<1>7. Len(p) \in Nat /\ b - from \in 0 .. Len(p)
  <2>1. Len(p) = t - from
    BY <1>3, <1>4
  <2> HIDE DEF p
  <2> QED
    BY <1>1, <1>3, <2>1
<1> QED
  BY <1>5, <1>6, <1>7 DEF EndsWith, e, b, t

\* Sending keeps the invariant: a new line ends the stream.
LEMMA ArrivalSend ==
  ASSUME TypeOK, BufferInv, ArrivalInv, NEW m \in Messages, Send(m)
  PROVE  ArrivalInv'
<1> DEFINE n == Len(accepted)
           e == Encoding[m]
<1>1. PICK at : Cut(at) /\ \E r \in Nat : ReadUpTo(at, r)
  BY DEF Send, ArrivalInv
<1>2. PICK r \in Nat : ReadUpTo(at, r)
  BY <1>1
<1>3. /\ n \in Nat /\ accepted' = Append(accepted, m) /\ Len(accepted') = n + 1
      /\ accepted'[n + 1] = m /\ \A i \in 1 .. n : accepted'[i] = accepted[i]
  BY DEF Send, TypeOK
<1>4. /\ Sent \in Seq(Bytes) /\ Len(Sent) \in Nat
      /\ e \in Seq(Bytes) /\ Len(e) \in Nat
      /\ Len(Sent') = Len(Sent) + Len(e) + 1 /\ Sent'[Len(Sent) + Len(e) + 1] = Newline
      /\ \A k \in 1 .. Len(Sent) : Sent'[k] = Sent[k]
      /\ \A k \in 1 .. Len(e) : Sent'[Len(Sent) + k] = e[k]
  <2>1. Sent' = Sent \o Line(m) /\ Sent \in Seq(Bytes)
    <3>1. wire \in Seq(Bytes) /\ wbuf \in Seq(Bytes)
      BY DEF TypeOK
    <3> QED
      BY <3>1, SendAdds, Joined DEF Sent
  <2>2. /\ e \in Seq(Bytes) /\ Line(m) \in Seq(Bytes) /\ Len(Line(m)) = Len(e) + 1
        /\ Line(m)[Len(e) + 1] = Newline /\ \A k \in 1 .. Len(e) : Line(m)[k] = e[k]
    BY LineType, CodecAssumption DEF CodecAssumption, Line
  <2>3. Len(Sent') = Len(Sent) + (Len(e) + 1)
        /\ (\A k \in 1 .. Len(Sent) : Sent'[k] = Sent[k])
        /\ \A k \in 1 .. Len(e) + 1 : Sent'[Len(Sent) + k] = Line(m)[k]
    <3> DEFINE l == Line(m)
    <3>1. l \in Seq(Bytes) /\ Sent \in Seq(Bytes)
      BY <2>1, <2>2
    <3>3. Len(l) = Len(e) + 1 /\ Sent' = Sent \o l
      BY <2>1, <2>2
    <3> HIDE DEF l, e
    <3>2. /\ Len(Sent \o l) = Len(Sent) + Len(l)
          /\ \A k \in 1 .. Len(Sent) : (Sent \o l)[k] = Sent[k]
          /\ \A k \in 1 .. Len(l) : (Sent \o l)[Len(Sent) + k] = l[k]
      BY <3>1, Joined
    <3> QED
      BY <3>2, <3>3 DEF l
  <2>4. Len(Sent) \in Nat /\ Len(e) \in Nat
    BY <2>1, <2>2
  <2> HIDE DEF e
  <2>5. Len(e) + 1 \in 1 .. Len(e) + 1 /\ Len(Sent) + (Len(e) + 1) = Len(Sent) + Len(e) + 1
        /\ \A k \in 1 .. Len(e) : k \in 1 .. Len(e) + 1
    BY <2>4
  <2> QED
    BY <2>1, <2>2, <2>3, <2>4, <2>5
<1> HIDE DEF n, e
<1>9. PICK new : new = [i \in 0 .. n + 1 |-> IF i = n + 1 THEN Len(Sent') ELSE at[i]]
  OBVIOUS
<1>5. /\ at \in [0 .. n -> 0 .. Len(Sent)] /\ at[n] = Len(Sent)
      /\ \A i, j \in 0 .. n : i < j => at[i] < at[j]
      /\ \A i \in 1 .. n :
           /\ at[i] = at[i - 1] + Len(Encoding[accepted[i]]) + 1
           /\ Sent[at[i]] = Newline
           /\ \A k \in 1 .. Len(Encoding[accepted[i]]) :
                Sent[at[i - 1] + k] = Encoding[accepted[i]][k]
  BY <1>1 DEF Cut, n
<1>6. Cut(new)'
  <2>1. new \in [0 .. n + 1 -> 0 .. Len(Sent')] /\ new[n + 1] = Len(Sent')
    BY <1>3, <1>4, <1>5, <1>9
  <2>2. ASSUME NEW i \in 0 .. n PROVE new[i] = at[i] /\ new[i] \in 0 .. Len(Sent)
    <3>1. n \in Nat
      BY <1>3
    <3>2. i \in 0 .. n + 1 /\ i # n + 1
      BY <3>1
    <3>3. new[i] = at[i]
      BY <1>9, <3>2
    <3>4. at[i] \in 0 .. Len(Sent)
      BY <1>5
    <3> QED
      BY <3>3, <3>4
  <2>3. ASSUME NEW i \in 0 .. n + 1, NEW j \in 0 .. n + 1, i < j PROVE new[i] < new[j]
    <3>1. n \in Nat
      BY <1>3
    <3>2. i \in 0 .. n
      BY <2>3, <3>1
    <3>3. CASE j = n + 1
      BY <1>4, <2>1, <2>2, <3>2, <3>3
    <3>4. CASE j # n + 1
      <4>1. j \in 0 .. n
        BY <3>1, <3>4
      <4>2. at[i] < at[j]
        BY <1>5, <2>3, <3>2, <4>1
      <4> QED
        BY <2>2, <3>2, <4>1, <4>2
    <3> QED
      BY <3>3, <3>4
  <2>4. ASSUME NEW i \in 1 .. n + 1
        PROVE  /\ new[i] = new[i - 1] + Len(Encoding[accepted'[i]]) + 1
               /\ Sent'[new[i]] = Newline
               /\ \A k \in 1 .. Len(Encoding[accepted'[i]]) :
                    Sent'[new[i - 1] + k] = Encoding[accepted'[i]][k]
    <3>1. CASE i = n + 1
      <4>1. new[i] = Len(Sent') /\ new[i - 1] = Len(Sent) /\ accepted'[i] = m
        BY <1>3, <1>5, <2>1, <2>2, <3>1
      <4> QED
        BY <1>4, <4>1 DEF e
    <3>2. CASE i \in 1 .. n
      <4> DEFINE ei == Encoding[accepted[i]]
      <4>1. /\ i - 1 \in 0 .. n /\ i \in 0 .. n /\ accepted'[i] = accepted[i]
            /\ new[i] = at[i] /\ new[i - 1] = at[i - 1]
            /\ at[i] \in 0 .. Len(Sent) /\ at[i - 1] \in 0 .. Len(Sent)
        BY <1>3, <1>5, <2>2, <3>2
      <4>2. ei \in Seq(Bytes) /\ Len(ei) \in Nat
        BY <3>2, LineType DEF TypeOK, n
      <4>3. at[i] = at[i - 1] + Len(ei) + 1 /\ Sent[at[i]] = Newline
            /\ \A k \in 1 .. Len(ei) : Sent[at[i - 1] + k] = ei[k]
        BY <1>5, <3>2
      <4> HIDE DEF ei
      <4>4. at[i] \in 1 .. Len(Sent) /\ \A k \in 1 .. Len(ei) : at[i - 1] + k \in 1 .. Len(Sent)
        BY <1>4, <4>1, <4>2, <4>3
      <4>5. Sent'[at[i]] = Newline /\ \A k \in 1 .. Len(ei) : Sent'[at[i - 1] + k] = ei[k]
        BY <1>4, <4>3, <4>4
      <4> QED
        BY <4>1, <4>3, <4>5 DEF ei
    <3>3. i = n + 1 \/ i \in 1 .. n
      BY <1>3
    <3> QED
      BY <3>1, <3>2, <3>3
  <2>5. Len(accepted') = n + 1
    BY <1>3
  <2> QED
    BY <2>1, <2>3, <2>4, <2>5 DEF Cut
<1>7. ReadUpTo(new, r)'
  <2>1. Done' = Done /\ lines' = lines
    BY DEF Send, readVars, Done
  <2>2. r \in 0 .. n /\ new[r] = at[r]
    BY <1>2, <1>3, <1>9 DEF ReadUpTo, n
  <2>3. \A i \in 1 .. r : accepted'[i] = accepted[i]
    BY <1>3, <2>2
  <2>4. Len(accepted') = n + 1 /\ n \in Nat
    BY <1>3
  <2>5. r \in 0 .. n + 1
    BY <2>2, <2>4
  <2>6. r > 0 => 1 \in 1 .. r
    OBVIOUS
  <2>7. \A i \in 2 .. r : i \in 1 .. r
    OBVIOUS
  <2>8. /\ r <= Len(lines)
        /\ Done <= at[r] /\ (r > 0 => Done = at[r])
        /\ r > 0 => EndsWith(lines[Len(lines) - r + 1], Encoding[accepted[1]])
        /\ \A i \in 2 .. r : lines[Len(lines) - r + i] = Encoding[accepted[i]]
    BY <1>2 DEF ReadUpTo
  <2> QED
    BY <2>1, <2>2, <2>3, <2>4, <2>5, <2>6, <2>7, <2>8 DEF ReadUpTo, EndsWith
<1>8. writer' = "open" /\ writer = "open" /\ reader' = reader
  BY DEF Send, readVars
<1> QED
  BY <1>2, <1>6, <1>7, <1>8 DEF ArrivalInv

\* Reading a line keeps it: the reader comes to the end of the next message, or is
\* still in what was there before the first.
LEMMA ArrivalRead ==
  ASSUME TypeOK, TypeOK', BufferInv, ArrivalInv, DecodeLine
  PROVE  ArrivalInv'
<1>1. PICK last \in Done .. Len(Sent) : Stream!Get(last)
  BY LineStep
<1>2. /\ Done \in Nat /\ Len(Sent) \in Nat
      /\ last \in Done + 1 .. Len(Sent) /\ Sent[last] = Newline
      /\ \A k \in Done + 1 .. last - 1 : Sent[k] # Newline
      /\ lines' = Append(lines, SubSeq(Sent, Done + 1, last - 1))
      /\ Done' = last
  <2>1. /\ last \in Done + 1 .. Len(Sent) /\ Sent[last] = Newline
        /\ \A k \in Done + 1 .. last - 1 : Sent[k] # Newline
        /\ lines' = Append(lines, SubSeq(Sent, Done + 1, last - 1))
        /\ Done' = last
    BY <1>1 DEF Stream!Get, Stream!NoNewline, Sent, Done
  <2>2. Done \in Nat /\ Sent \in Seq(Bytes)
    BY BufferIsNext
  <2> QED
    BY <2>1, <2>2
<1>3. UNCHANGED <<accepted, Sent, writer, reader>> /\ reader = "open"
  BY DEF DecodeLine, writeVars, Sent
<1>4. ASSUME writer # "failed"
      PROVE  \E at : Cut(at)' /\ \E r \in Nat : ReadUpTo(at, r)'
  <2>1. PICK at : Cut(at) /\ \E r \in Nat : ReadUpTo(at, r)
    BY <1>4 DEF ArrivalInv
  <2>2. PICK r \in Nat : ReadUpTo(at, r)
    BY <2>1
  <2>3. Cut(at)'
    BY <1>3, <2>1 DEF Cut
  <2> DEFINE n == Len(accepted)
             L == Len(lines)
             new == SubSeq(Sent, Done + 1, last - 1)
  <2>4. /\ n \in Nat /\ L \in Nat /\ r \in 0 .. n /\ r <= L
        /\ at \in [0 .. n -> 0 .. Len(Sent)] /\ at[n] = Len(Sent) /\ at[r] \in Nat
    <3>1. Len(accepted) \in Nat /\ Len(lines) \in Nat
      BY DEF TypeOK
    <3>2. r \in 0 .. n /\ r <= L
      BY <2>2 DEF ReadUpTo
    <3>3. at \in [0 .. n -> 0 .. Len(Sent)] /\ at[n] = Len(Sent)
      BY <2>1 DEF Cut
    <3>4. at[r] \in 0 .. Len(Sent)
      BY <3>2, <3>3
    <3> QED
      BY <3>1, <3>2, <3>3, <3>4
  <2>5. Len(lines') = L + 1 /\ lines'[L + 1] = new /\ \A k \in 1 .. L : lines'[k] = lines[k]
    <3>1. lines \in Seq(Seq(Bytes)) /\ Sent \in Seq(Bytes)
      BY BufferIsNext DEF TypeOK
    <3>2. new \in Seq(Bytes)
      <4>1. /\ Done + 1 \in 1 .. Len(Sent) + 1 /\ last - 1 \in (Done + 1) - 1 .. Len(Sent)
        BY <1>2
      <4> QED
        BY <3>1, <4>1, Part
    <3>3. lines' = Append(lines, new)
      BY <1>2
    <3> HIDE DEF new
    <3> QED
      BY <3>1, <3>2, <3>3
  <2> HIDE DEF n, L, new
  <2>6. CASE last <= at[r]
    <3>1. r = 0
      BY <1>2, <2>2, <2>4, <2>6 DEF ReadUpTo
    <3>2. ReadUpTo(at, 0)'
      BY <1>2, <1>3, <2>4, <2>5, <2>6, <3>1 DEF ReadUpTo, n
    <3> QED
      BY <2>3, <3>2
  <2>7. CASE at[r] < last
    <3>1. r # n
      BY <1>2, <2>4, <2>7
    <3>2. r + 1 \in 1 .. n /\ (r + 1) - 1 = r /\ Done <= at[r]
      BY <2>2, <2>4, <3>1 DEF ReadUpTo
    <3>3. last = at[r + 1]
      BY <1>2, <2>1, <2>7, <3>2, NextEnd DEF n
    <3>4. /\ EndsWith(new, Encoding[accepted[r + 1]])
          /\ r > 0 => new = Encoding[accepted[r + 1]]
      <4>1. r > 0 => Done = at[r]
        BY <2>2 DEF ReadUpTo
      <4> QED
        BY <1>2, <2>1, <3>2, <3>3, <4>1, MessageInStream DEF n, new
    <3>5. Len(lines') - (r + 1) = L - r
      BY <2>4, <2>5
    <3>6. EndsWith(lines'[(L - r) + 1], Encoding[accepted[1]])
      <4>1. CASE r = 0
        BY <2>4, <2>5, <3>4, <4>1
      <4>2. CASE r > 0
        <5>1. (L - r) + 1 \in 1 .. L
          BY <2>4, <4>2
        <5> QED
          BY <2>2, <2>5, <4>2, <5>1 DEF ReadUpTo, L
      <4> QED
        BY <2>4, <4>1, <4>2
    <3>7. ASSUME NEW i \in 2 .. r + 1 PROVE lines'[(L - r) + i] = Encoding[accepted[i]]
      <4>1. CASE i = r + 1
        <5>1. (L - r) + i = L + 1 /\ r > 0
          BY <2>4, <4>1
        <5> QED
          BY <2>5, <3>4, <4>1, <5>1
      <4>2. CASE i \in 2 .. r
        <5>1. (L - r) + i \in 1 .. L
          BY <2>4, <4>2
        <5> QED
          BY <2>2, <2>5, <4>2, <5>1 DEF ReadUpTo, L
      <4> QED
        BY <2>4, <4>1, <4>2
    <3>8. ReadUpTo(at, r + 1)'
      <4>1. /\ Len(accepted') = n /\ accepted' = accepted
            /\ r + 1 \in 0 .. n /\ r + 1 <= Len(lines') /\ r + 1 > 0
        BY <1>3, <2>4, <2>5, <3>2 DEF n
      <4>2. Done' = at[r + 1] /\ Done' <= at[r + 1]
        BY <1>2, <3>3
      <4> QED
        BY <3>5, <3>6, <3>7, <4>1, <4>2 DEF ReadUpTo, EndsWith
    <3> QED
      BY <2>3, <3>2, <3>8, <2>4
  <2> QED
    BY <1>2, <2>4, <2>6, <2>7
<1> QED
  BY <1>3, <1>4 DEF ArrivalInv

\* However the bytes were cut into chunks, and whatever was sent before, the
\* messages of a writer that closed have all been read when the reader ends.
THEOREM Arrival == Spec => []MessagesArrive
<1>1. Init => ArrivalInv
  <2> SUFFICES ASSUME Init PROVE ArrivalInv
    OBVIOUS
  <2>1. accepted = <<>> /\ lines = <<>> /\ reader = "open" /\ Done = 0
    <3>1. taken = 0 /\ Len(rbuf) = 0
      BY DEF Init
    <3>2. taken - Len(rbuf) = 0
      BY <3>1
    <3> QED
      BY <3>2 DEF Init, Done
  <2>2. wire \in Seq(Bytes) /\ Sent = wire /\ Len(Sent) \in Nat
    BY CodecAssumption, ConcatEmptySeq DEF CodecAssumption, Init, Sent
  <2> DEFINE at == [i \in 0 .. 0 |-> Len(Sent)]
  <2>3. Cut(at) /\ ReadUpTo(at, 0)
    <3>1. Len(accepted) = 0 /\ Len(lines) = 0
      BY <2>1
    <3>2. at \in [0 .. 0 -> 0 .. Len(Sent)] /\ at[0] = Len(Sent)
      BY <2>2
    <3> HIDE DEF at
    <3> QED
      BY <2>1, <2>2, <3>1, <3>2 DEF Cut, ReadUpTo
  <2> HIDE DEF at
  <2> QED
    BY <2>1, <2>3 DEF ArrivalInv
<1>2. TypeOK /\ TypeOK' /\ BufferInv /\ ArrivalInv /\ [Next]_vars => ArrivalInv'
  <2> SUFFICES ASSUME TypeOK, TypeOK', BufferInv, ArrivalInv, [Next]_vars
               PROVE  ArrivalInv'
    OBVIOUS
  <2>1. ASSUME NEW m \in Messages, Send(m) PROVE ArrivalInv'
    BY <2>1, ArrivalSend
  <2>2. CASE DecodeLine
    BY <2>2, ArrivalRead
  <2>3. CASE Break
    BY <2>3 DEF Break, readVars, ArrivalInv
  <2>4. CASE UNCHANGED <<Sent, Done, accepted, lines>>
    <3>1. writer' # "failed" => writer # "failed"
      BY <2>4 DEF Next, Send, Write, Close, Break, Read, ReadEof, DecodeLine,
                  DecodeNothing, DecodeEof, vars, writeVars, readVars
    <3>2. writer # "open" => writer' # "open"
      BY <2>4 DEF Next, Send, Write, Close, Break, Read, ReadEof, DecodeLine,
                  DecodeNothing, DecodeEof, vars, writeVars, readVars
    <3>3. reader' = "end" => reader = "end" \/ (writer # "open" /\ Done = Len(Sent))
      <4>1. DecodeEof => (reader' = "end" => writer # "open" /\ Done = Len(Sent))
        BY EndStep DEF Stream!End, BufferInv, DecodeEof, Sent, Done
      <4>2. ~DecodeEof => reader' = reader
        BY DEF Next, Send, Write, Close, Break, Read, ReadEof, DecodeLine,
               DecodeNothing, vars, writeVars, readVars
      <4> QED
        BY <4>1, <4>2
    <3>4. \A at : Cut(at) => Cut(at)'
      BY <2>4 DEF Cut
    <3>5. \A at, r : ReadUpTo(at, r) => ReadUpTo(at, r)'
      BY <2>4 DEF ReadUpTo
    <3> QED
      BY <2>4, <3>1, <3>2, <3>3, <3>4, <3>5 DEF ArrivalInv
  <2> QED
    BY <2>1, <2>2, <2>3, <2>4, StreamSteps
<1>3. TypeOK /\ ArrivalInv => MessagesArrive
  <2> SUFFICES ASSUME TypeOK, ArrivalInv, writer = "closed", reader = "end"
               PROVE  MessagesArrive
    BY DEF MessagesArrive
  <2>1. PICK at : Cut(at) /\ \E r \in Nat : ReadUpTo(at, r)
    BY DEF ArrivalInv
  <2>2. PICK r \in Nat : ReadUpTo(at, r)
    BY <2>1
  <2>3. Len(accepted) \in Nat /\ Len(lines) \in Nat /\ DOMAIN accepted = 1 .. Len(accepted)
    BY DEF TypeOK
  <2>4. r = Len(accepted)
    <3>1. at[r] >= at[Len(accepted)] /\ r \in 0 .. Len(accepted)
      BY <2>1, <2>2 DEF ArrivalInv, ReadUpTo, Cut
    <3>2. r < Len(accepted) => at[r] < at[Len(accepted)]
      <4>1. r \in 0 .. Len(accepted) /\ Len(accepted) \in 0 .. Len(accepted)
        BY <2>3, <3>1
      <4>2. \A i, j \in 0 .. Len(accepted) : i < j => at[i] < at[j]
        BY <2>1 DEF Cut
      <4> QED
        BY <4>1, <4>2
    <3>3. at[r] \in Int /\ at[Len(accepted)] \in Int
      <4>1. at \in [0 .. Len(accepted) -> 0 .. Len(Sent)]
        BY <2>1 DEF Cut
      <4>2. r \in 0 .. Len(accepted) /\ Len(accepted) \in 0 .. Len(accepted)
        BY <2>3, <3>1
      <4>3. at[r] \in 0 .. Len(Sent) /\ at[Len(accepted)] \in 0 .. Len(Sent)
        BY <4>1, <4>2
      <4> QED
        BY <4>3
    <3>4. ~(r < Len(accepted))
      BY <3>1, <3>2, <3>3
    <3>5. Len(accepted) \in Nat /\ r \in 0 .. Len(accepted)
      BY <2>3, <3>1
    <3> QED
      BY <3>4, <3>5
  <2> DEFINE before == Len(lines) - Len(accepted)
  <2>5. before >= 0
    BY <2>2, <2>3, <2>4 DEF ReadUpTo
  <2>6. ASSUME NEW i \in 1 .. Len(accepted)
        PROVE  IF i = 1
               THEN \E k \in 0 .. Len(lines[before + 1]) :
                      SubSeq(lines[before + 1], k + 1, Len(lines[before + 1]))
                        = Encoding[accepted[1]]
               ELSE lines[before + i] = Encoding[accepted[i]]
    <3>1. CASE i = 1
      BY <2>2, <2>3, <2>4, <3>1 DEF ReadUpTo, EndsWith
    <3>2. CASE i # 1
      BY <2>2, <2>3, <2>4, <3>2 DEF ReadUpTo
    <3> QED
      BY <3>1, <3>2
  <2> QED
    BY <2>3, <2>5, <2>6 DEF MessagesArrive
<1> QED
  BY <1>1, <1>2, <1>3, LineTypes, CacheSound, PTL DEF Spec

-----------------------------------------------------------------------------
(* The reader comes to an end.  As the provers have no ENABLED, each Can...*)
(* is the guard of the action after its name.                              *)

CanRead == reader = "open" /\ ~readable /\ taken < Len(wire)
CanReadEof == reader = "open" /\ ~readable /\ writer # "open" /\ taken = Len(wire)
CanDecodeLine ==
  /\ reader = "open" /\ readable
  /\ \E i \in Unscanned :
       rbuf[i] = Newline /\ \A j \in position + 1 .. i - 1 : rbuf[j] # Newline
CanDecodeNothing == NothingFound /\ ~eof
CanDecodeEof == NothingFound /\ eof

\* Where a newline has not been scanned, one comes first.
LEMMA FirstNewline ==
  ASSUME TypeOK, NEW n \in Unscanned, rbuf[n] = Newline
  PROVE  \E i \in Unscanned :
           rbuf[i] = Newline /\ \A j \in position + 1 .. i - 1 : rbuf[j] # Newline
<1> DEFINE S == {i \in Unscanned : rbuf[i] = Newline}
<1>1. position \in Nat /\ Len(rbuf) \in Nat /\ S \in SUBSET Nat /\ n \in S
  BY DEF TypeOK, Unscanned
<1>2. \E i \in S : \A j \in S : ~(<<j, i>> \in OpToRel(<, Nat))
  <2> HIDE DEF S
  <2> QED
    BY <1>1, NatLessThanWellFounded, WFMin, Zenon
<1>3. PICK i \in S : \A j \in S : ~(<<j, i>> \in OpToRel(<, Nat))
  BY <1>2
<1>4. ASSUME NEW j \in position + 1 .. i - 1, rbuf[j] = Newline PROVE FALSE
  <2>1. i \in position + 1 .. Len(rbuf) /\ i \in Nat
    BY <1>1 DEF Unscanned
  <2>2. j \in S /\ j \in Nat /\ j < i
    BY <1>1, <1>4, <2>1 DEF Unscanned
  <2> HIDE DEF S
  <2>3. <<j, i>> \in OpToRel(<, Nat)
    BY <2>1, <2>2, Zenon DEF OpToRel
  <2> QED
    BY <1>3, <2>2, <2>3, Zenon
<1> QED
  BY <1>3, <1>4

\* Once nothing more is sent, a reader that is open always has a step.
THEOREM ReaderHasAStep ==
  Spec => [](writer # "open" /\ reader = "open"
             => CanRead \/ CanReadEof \/ CanDecodeLine \/ CanDecodeNothing \/ CanDecodeEof)
<1>1. TypeOK /\ writer # "open" /\ reader = "open"
        => CanRead \/ CanReadEof \/ CanDecodeLine \/ CanDecodeNothing \/ CanDecodeEof
  <2> SUFFICES ASSUME TypeOK, writer # "open", reader = "open"
               PROVE  CanRead \/ CanReadEof \/ CanDecodeLine \/ CanDecodeNothing \/ CanDecodeEof
    OBVIOUS
  <2>1. CASE ~readable
    BY <2>1 DEF TypeOK, CanRead, CanReadEof
  <2>2. CASE readable /\ \E n \in Unscanned : rbuf[n] = Newline
    BY <2>2, FirstNewline DEF CanDecodeLine
  <2>3. CASE readable /\ \A n \in Unscanned : rbuf[n] # Newline
    BY <2>3 DEF TypeOK, NothingFound, CanDecodeNothing, CanDecodeEof
  <2> QED
    BY <2>1, <2>2, <2>3 DEF TypeOK
<1> QED
  BY <1>1, LineTypes, PTL

\* An upper bound of the steps left to the reader: a byte is read, is looked for and is
\* taken with its line, the end is read and looked for, and then the reader ends.
ToDo ==
  3 * (Len(wire) - taken) + Len(rbuf) + (IF eof THEN 0 ELSE 2)
    + (IF readable THEN 1 ELSE 0) + (IF reader = "open" THEN 1 ELSE 0)

\* The end of the input is looked at once it is read, and stays to be.
EofIsSeen == eof => readable

\* So the reader is done after that many steps at most, whatever was sent and
\* however it was cut into chunks, and nobody else has a step.
THEOREM ReaderComesCloser ==
  Spec => [](ToDo \in Nat) /\ [][writer # "open" => ToDo' < ToDo]_vars
<1>1. Init => EofIsSeen
  BY DEF Init, EofIsSeen
<1>2. EofIsSeen /\ [Next]_vars => EofIsSeen'
  BY DEF EofIsSeen, Next, Send, Write, Close, Break, Read, ReadEof, DecodeLine,
         DecodeNothing, DecodeEof, vars, writeVars, readVars
<1>3. TypeOK => ToDo \in Nat
  <2> SUFFICES ASSUME TypeOK PROVE ToDo \in Nat
    OBVIOUS
  <2>1. Len(wire) - taken \in Nat /\ Len(rbuf) \in Nat
    BY DEF TypeOK
  <2> QED
    BY <2>1 DEF ToDo
<1>4. TypeOK /\ TypeOK' /\ BufferInv /\ EofIsSeen /\ [Next]_vars
        => [writer # "open" => ToDo' < ToDo]_vars
  <2> SUFFICES ASSUME TypeOK, TypeOK', BufferInv, EofIsSeen, Next, writer # "open"
               PROVE  ToDo' < ToDo
    OBVIOUS
  <2>1. /\ Len(wire) \in Nat /\ taken \in 0 .. Len(wire) /\ Len(rbuf) \in Nat
        /\ Len(rbuf') \in Nat /\ readable \in BOOLEAN /\ eof \in BOOLEAN
    BY DEF TypeOK
  <2>2. ASSUME NEW m \in Messages, Send(m) PROVE FALSE
    BY <2>2 DEF Send
  <2>3. ASSUME NEW n \in 1 .. Len(wbuf), Write(n) PROVE FALSE
    BY <2>3 DEF Write, BufferInv
  <2>4. CASE Close \/ Break
    BY <2>4 DEF Close, Break
  <2>5. ASSUME NEW n \in 1 .. Len(wire) - taken, Read(n) PROVE ToDo' < ToDo
    <3>1. Len(rbuf') = Len(rbuf) + n /\ n \in Nat
      <4>1. PICK r, t : r = rbuf /\ t = SubSeq(wire, taken + 1, taken + n)
        OBVIOUS
      <4>2. wire \in Seq(Bytes) /\ taken \in 0 .. Len(wire)
        BY DEF TypeOK
      <4>3. /\ SubSeq(wire, taken + 1, taken + n) \in Seq(Bytes)
            /\ Len(SubSeq(wire, taken + 1, taken + n)) = n
        BY <4>2, Chunk
      <4>4. t \in Seq(Bytes) /\ Len(t) = n
        BY <4>1, <4>3
      <4>5. r \in Seq(Bytes) /\ rbuf' = r \o t
        <5>1. rbuf \in Seq(Bytes)
          BY DEF TypeOK
        <5>2. rbuf' = rbuf \o SubSeq(wire, taken + 1, taken + n)
          BY <2>5, Zenon DEF Read
        <5> QED
          BY <4>1, <5>1, <5>2, Zenon
      <4>6. Len(r \o t) = Len(r) + Len(t)
        BY <4>4, <4>5, Joined
      <4> QED
        BY <4>1, <4>4, <4>5, <4>6
    <3>2. /\ UNCHANGED <<wire, eof, reader>> /\ taken' = taken + n
          /\ readable' /\ ~readable
      BY <2>5 DEF Read, writeVars
    <3> QED
      BY <2>1, <3>1, <3>2 DEF ToDo
  <2>6. CASE ReadEof
    <3>1. UNCHANGED <<wire, taken, rbuf, reader>> /\ eof' /\ ~eof /\ readable' /\ ~readable
      BY <2>6 DEF ReadEof, writeVars, EofIsSeen
    <3> QED
      BY <2>1, <3>1 DEF ToDo
  <2>7. CASE DecodeLine
    <3>1. PICK i \in 1 .. Len(rbuf) : Len(rbuf') = Len(rbuf) - i
      BY <2>7, LineTaken
    <3>2. UNCHANGED <<wire, taken, eof, readable, reader>>
      BY <2>7 DEF DecodeLine, writeVars
    <3> QED
      BY <2>1, <3>1, <3>2 DEF ToDo
  <2>8. CASE DecodeNothing
    <3>1. UNCHANGED <<wire, taken, rbuf, eof, reader>> /\ ~readable' /\ readable
      BY <2>8 DEF DecodeNothing, NothingFound, writeVars
    <3> QED
      BY <2>1, <3>1 DEF ToDo
  <2>9. CASE DecodeEof
    <3>1. /\ UNCHANGED <<wire, taken, rbuf, eof, readable>>
          /\ reader = "open" /\ reader' # "open"
      BY <2>9 DEF DecodeEof, NothingFound, HowItEnds, writeVars
    <3> QED
      BY <2>1, <3>1 DEF ToDo
  <2> QED
    BY <2>2, <2>3, <2>4, <2>5, <2>6, <2>7, <2>8, <2>9 DEF Next
<1> QED
  BY <1>1, <1>2, <1>3, <1>4, LineTypes, CacheSound, PTL DEF Spec
=============================================================================
