----------------------------- MODULE LineStream -----------------------------
(***************************************************************************)
(* What the Line codec promises (src/src/codec.rs): one side puts messages *)
(* into a stream as lines, the other gets the lines of that stream, in     *)
(* order and whole, and learns how it ended.  Buffers, chunks and what has *)
(* been scanned already do not show.  LineCodec implements this.           *)
(***************************************************************************)
EXTENDS Naturals, Sequences

CONSTANTS
  Newline,  \* the byte that ends a line
  Encoded,  \* what messages are encoded as
  Foreign   \* what may be in the stream to begin with

VARIABLES
  stream,  \* the bytes that were sent and not lost
  source,  \* "open" until no more will be sent, then "over"
  done,    \* how many bytes of the stream are in lines that were read
  lines,   \* the lines that were read
  reader   \* "open", "end" or "failed"

vars == <<stream, source, done, lines, reader>>

NoNewline(from, to) == \A k \in from .. to : stream[k] # Newline

Init ==
  /\ stream \in Foreign /\ source = "open"
  /\ done = 0 /\ lines = <<>>
  /\ reader = "open"

Put(e) ==
  /\ source = "open"
  /\ stream' = stream \o Append(e, Newline)
  /\ UNCHANGED <<source, done, lines, reader>>

\* The source closes the stream, or breaks off and loses what has not left it.
Stop(length) ==
  /\ source = "open" /\ length \in done .. Len(stream)
  /\ source' = "over"
  /\ stream' = SubSeq(stream, 1, length)
  /\ UNCHANGED <<done, lines, reader>>

Get(last) ==
  /\ reader = "open"
  /\ last \in done + 1 .. Len(stream)
  /\ stream[last] = Newline /\ NoNewline(done + 1, last - 1)
  /\ lines' = Append(lines, SubSeq(stream, done + 1, last - 1))
  /\ done' = last
  /\ UNCHANGED <<stream, source, reader>>

\* An end in the middle of a line is an error.
End ==
  /\ reader = "open" /\ source = "over"
  /\ NoNewline(done + 1, Len(stream))
  /\ reader' = IF done = Len(stream) THEN "end" ELSE "failed"
  /\ UNCHANGED <<stream, source, done, lines>>

Next ==
  \/ \E e \in Encoded : Put(e)
  \/ \E k \in done .. Len(stream) : Stop(k) \/ Get(k)
  \/ End

Spec == Init /\ [][Next]_vars
=============================================================================
