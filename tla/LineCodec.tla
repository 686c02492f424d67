----------------------------- MODULE LineCodec -----------------------------
(***************************************************************************)
(* The codecs Line and DirtyLine (src/src/codec.rs) at both ends of a      *)
(* connection: one side encodes messages into the write buffer of its      *)
(* Framed, the other decodes lines from the read buffer of its own.  The   *)
(* two codecs differ only in how they convert a line, which is left out.   *)
(*                                                                         *)
(* FramedWrite and FramedRead, whose buffers the codecs share, belong to   *)
(* tokio-io.                                                               *)
(***************************************************************************)
EXTENDS Naturals, Sequences

CONSTANTS
  Bytes, Newline,  \* the bytes, and the one that separates messages
  Messages,        \* messages
  Encoding,        \* what each is serialised as
  Foreign,         \* what a peer with other ideas may have sent before
  HighWater,       \* the write buffer takes messages until it is longer
  MaxStream        \* bound: bytes sent

ASSUME CodecAssumption ==
  /\ Newline \in Bytes
  /\ Encoding \in [Messages -> Seq(Bytes \ {Newline})]
  /\ Foreign \subseteq Seq(Bytes)
  /\ HighWater \in Nat /\ MaxStream \in Nat

VARIABLES
  accepted,  \* history: the messages encoded
  wbuf,      \* the buffer of FramedWrite
  writer,    \* "open", or how the sending side ended: "closed", "failed"
  wire,      \* all that was written to the socket
  taken,     \* how many bytes of it FramedRead has read
  rbuf,      \* the buffer of FramedRead
  position,  \* the cache of the codec: how far rbuf has been scanned
  readable,  \* flags of FramedRead: whether to try decoding before reading,
  eof,       \*   and whether the input has ended
  lines,     \* the lines decoded
  reader     \* "open", or how the stream of messages ended: "end", "failed"

writeVars == <<accepted, wbuf, writer, wire>>
readVars == <<taken, rbuf, position, readable, eof, lines, reader>>
vars == <<writeVars, readVars>>

-----------------------------------------------------------------------------
(* Sending.                                                                *)

Line(m) == Append(Encoding[m], Newline)

\* The codec appends to what has not been written yet.
Encode_Overwrites(buf, m) == Line(m)
Encode(buf, m) == buf \o Line(m)

Send(m) ==
  /\ writer = "open" /\ Len(wbuf) <= HighWater
  /\ Len(wire) + Len(wbuf) + Len(Line(m)) <= MaxStream
  /\ wbuf' = Encode(wbuf, m)
  /\ accepted' = Append(accepted, m)
  /\ UNCHANGED <<writer, wire, readVars>>

\* The socket takes as much as it likes.
Write(n) ==
  /\ n \in 1 .. Len(wbuf)
  /\ wire' = wire \o SubSeq(wbuf, 1, n)
  /\ wbuf' = SubSeq(wbuf, n + 1, Len(wbuf))
  /\ UNCHANGED <<accepted, writer, readVars>>

Close ==
  /\ writer = "open" /\ wbuf = <<>>
  /\ writer' = "closed"
  /\ UNCHANGED <<accepted, wbuf, wire, readVars>>

\* A message that does not serialise fails before it gets into the buffer.  That
\* and an error of the socket end the sink; what it has not written is lost.
Break ==
  /\ writer = "open"
  /\ writer' = "failed" /\ wbuf' = <<>>
  /\ UNCHANGED <<accepted, wire, readVars>>

-----------------------------------------------------------------------------
(* Receiving.                                                              *)

\* FramedRead reads when the codec has found nothing, as much as there is.
Read(n) ==
  /\ reader = "open" /\ ~readable
  /\ n \in 1 .. Len(wire) - taken
  /\ rbuf' = rbuf \o SubSeq(wire, taken + 1, taken + n)
  /\ taken' = taken + n
  /\ readable' = TRUE
  /\ UNCHANGED <<position, eof, lines, reader, writeVars>>

ReadEof ==
  /\ reader = "open" /\ ~readable
  /\ writer # "open" /\ taken = Len(wire)
  /\ eof' = TRUE /\ readable' = TRUE
  /\ UNCHANGED <<taken, rbuf, position, lines, reader, writeVars>>

\* decode_codec looks at the part of the buffer that is new to it.
Unscanned == position + 1 .. Len(rbuf)

AfterLine_Stale == position
AfterLine == 0

AfterScan_TooFar == Len(rbuf) + 1
AfterScan == Len(rbuf)

DecodeLine ==
  /\ reader = "open" /\ readable
  /\ \E i \in Unscanned :
       /\ rbuf[i] = Newline
       /\ \A j \in position + 1 .. i - 1 : rbuf[j] # Newline
       /\ lines' = Append(lines, SubSeq(rbuf, 1, i - 1))
       /\ rbuf' = SubSeq(rbuf, i + 1, Len(rbuf))
  /\ position' = AfterLine
  /\ UNCHANGED <<taken, readable, eof, reader, writeVars>>

NothingFound == reader = "open" /\ readable /\ \A i \in Unscanned : rbuf[i] # Newline

DecodeNothing ==
  /\ NothingFound /\ ~eof
  /\ position' = AfterScan
  /\ readable' = FALSE
  /\ UNCHANGED <<taken, rbuf, eof, lines, reader, writeVars>>

\* decode_eof is left at its default: what remains of an unfinished line is an
\* error.
HowItEnds_Waits == IF rbuf = <<>> THEN "end" ELSE "open"
HowItEnds == IF rbuf = <<>> THEN "end" ELSE "failed"

DecodeEof ==
  /\ NothingFound /\ eof
  /\ position' = AfterScan
  /\ reader' = HowItEnds
  /\ UNCHANGED <<taken, rbuf, readable, eof, lines, writeVars>>

-----------------------------------------------------------------------------
Init ==
  /\ accepted = <<>> /\ wbuf = <<>> /\ writer = "open"
  /\ wire \in Foreign
  /\ taken = 0 /\ rbuf = <<>> /\ position = 0
  /\ readable = FALSE /\ eof = FALSE
  /\ lines = <<>> /\ reader = "open"

Next ==
  \/ \E m \in Messages : Send(m)
  \/ \E n \in 1 .. Len(wbuf) : Write(n)
  \/ Close \/ Break
  \/ \E n \in 1 .. Len(wire) - taken : Read(n)
  \/ ReadEof \/ DecodeLine \/ DecodeNothing \/ DecodeEof

Spec == Init /\ [][Next]_vars

\* The endpoint that reads polls its stream until it ends.
Fairness ==
  /\ WF_vars(\E n \in 1 .. Len(wire) - taken : Read(n)) /\ WF_vars(ReadEof)
  /\ WF_vars(DecodeLine) /\ WF_vars(DecodeNothing) /\ WF_vars(DecodeEof)

FairSpec == Spec /\ Fairness

-----------------------------------------------------------------------------
(* Properties.                                                             *)

\* The cache never points past the buffer, which would be a panic.
TypeOK ==
  /\ accepted \in Seq(Messages)
  /\ wbuf \in Seq(Bytes) /\ wire \in Seq(Bytes) /\ rbuf \in Seq(Bytes)
  /\ writer \in {"open", "closed", "failed"}
  /\ reader \in {"open", "end", "failed"}
  /\ taken \in 0 .. Len(wire)
  /\ position \in 0 .. Len(rbuf)
  /\ readable \in BOOLEAN /\ eof \in BOOLEAN
  /\ lines \in Seq(Seq(Bytes))

\* What the codec will not look at again holds no end of a line, however the
\* buffer was cut and filled in between.
CacheIsSound ==
  position <= Len(rbuf) /\ \A k \in 1 .. position : rbuf[k] # Newline

Stream == INSTANCE LineStream WITH
  Encoded <- {Encoding[m] : m \in Messages},
  stream <- wire \o wbuf,
  source <- IF writer = "open" THEN "open" ELSE "over",
  done <- taken - Len(rbuf)

\* Chunks, buffers and the cache do not show: the lines that are read are those of
\* the stream, and an unfinished one at its end is an error.
ImplementsLineStream == Stream!Spec

\* The codec recovers (its doc): whatever the peer sent before, every message
\* arrives, and all but the first, which may have to share its line with what was
\* there, arrive as they were sent.
MessagesArrive ==
  writer = "closed" /\ reader = "end" =>
    LET before == Len(lines) - Len(accepted)
        encoding(i) == Encoding[accepted[i]]
        Ends(s, e) == \E k \in 0 .. Len(s) : SubSeq(s, k + 1, Len(s)) = e
    IN  /\ before >= 0
        /\ \A i \in DOMAIN accepted :
             IF i = 1 THEN Ends(lines[before + 1], encoding(1))
             ELSE lines[before + i] = encoding(i)

\* Once nothing more is sent the reader comes to the end of it.
ReaderEnds == writer # "open" ~> reader # "open"
=============================================================================
