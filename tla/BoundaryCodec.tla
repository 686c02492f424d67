--------------------------- MODULE BoundaryCodec ---------------------------
(***************************************************************************)
(* The Boundary codec (src/src/codec.rs), which takes one JSON value after *)
(* another off the read buffer of tokio-io's FramedRead, without anything  *)
(* that separates them.                                                    *)
(*                                                                         *)
(* JSON is reduced to what decides where a value ends: brackets that nest, *)
(* without anything between them but space, and garbage that is never      *)
(* right.                                                                  *)
(***************************************************************************)
EXTENDS Integers, SequencesExt

CONSTANTS
  Inputs,    \* what the peer may send in all
  MaxFrames  \* bound: results of the codec

Bytes == {"open", "close", "space", "garbage"}

ASSUME BoundaryAssumption == Inputs \subseteq Seq(Bytes) /\ MaxFrames \in Nat

VARIABLES
  input,     \* what the peer sends before it closes the connection
  taken,     \* how many bytes of it FramedRead has read
  rbuf,      \* the buffer of FramedRead
  readable,  \* flags of FramedRead: whether to try decoding before reading,
  eof,       \*   and whether the input has ended
  frames,    \* the results of the codec: values, or Broken, and how much of the
             \*   input had been taken off then
  reader     \* "open", or how the stream of results ended: "end", "failed"

vars == <<input, taken, rbuf, readable, eof, frames, reader>>

\* The result for a syntax error; no value is empty.
Broken == <<>>

-----------------------------------------------------------------------------
(* The StreamDeserializer of serde_json, on one buffer.                    *)

Count(s, byte) == Cardinality({k \in DOMAIN s : s[k] = byte})

\* What may still become a value: brackets that open, then brackets that close.
Viable(s) ==
  /\ s # <<>> /\ s[1] = "open"
  /\ \A k \in DOMAIN s : s[k] # "garbage"
  /\ \A j, k \in DOMAIN s : s[j] = "close" /\ s[k] = "open" => k < j
  /\ Count(s, "close") <= Count(s, "open")

IsValue(s) ==
  /\ Viable(s)
  /\ Count(s, "close") = Count(s, "open") /\ s[Len(s)] = "close"

\* Space before a value is skipped whatever follows.
Skipped(s) ==
  CHOOSE n \in 0 .. Len(s) :
    /\ \A k \in 1 .. n : s[k] = "space"
    /\ n < Len(s) => s[n + 1] # "space"

From(s, k) == SubSeq(s, k, Len(s))

Values(s) == {n \in DOMAIN s : IsValue(SubSeq(s, 1, n))}

Least(S) == CHOOSE n \in S : \A k \in S : n <= k

\* An end in the middle of a value is no result yet.
Incomplete_Never(rest) == rest = <<>>
Incomplete(rest) == rest = <<>> \/ Viable(rest)

\* byte_offset(): past the value, or past nothing but space if there is none.
Offset_OfValue(skipped, size) == size
Offset_TooFar(skipped, size) == skipped + size + 1
Offset(skipped, size) == skipped + size

\* decode(): whether there is a result, which, and how much of the buffer is cut
\* off.
Decode(s) ==
  LET skipped == Skipped(s)
      rest == From(s, skipped + 1)
      size == IF Values(rest) = {} THEN 0 ELSE Least(Values(rest))
  IN  [found |-> size # 0 \/ ~Incomplete(rest),
       frame |-> IF size # 0 THEN SubSeq(rest, 1, size) ELSE Broken,
       cut   |-> Offset(skipped, size)]

-----------------------------------------------------------------------------
(* FramedRead.                                                             *)

Read(n) ==
  /\ reader = "open" /\ ~readable
  /\ n \in 1 .. Len(input) - taken
  /\ rbuf' = rbuf \o SubSeq(input, taken + 1, taken + n)
  /\ taken' = taken + n
  /\ readable' = TRUE
  /\ UNCHANGED <<input, eof, frames, reader>>

ReadEof ==
  /\ reader = "open" /\ ~readable
  /\ taken = Len(input)
  /\ eof' = TRUE /\ readable' = TRUE
  /\ UNCHANGED <<input, taken, rbuf, frames, reader>>

\* decode_eof is left at its default: bytes that remain are an error.
DecodeNext ==
  /\ reader = "open" /\ readable /\ Len(frames) < MaxFrames
  /\ LET result == Decode(rbuf)
     IN  /\ rbuf' = From(rbuf, result.cut + 1)
         /\ IF result.found
            THEN /\ frames' = Append(frames, [value |-> result.frame,
                                              end   |-> taken - Len(rbuf')])
                 /\ UNCHANGED <<readable, reader>>
            ELSE /\ readable' = eof
                 /\ reader' = IF ~eof THEN "open"
                              ELSE IF rbuf' = <<>> THEN "end" ELSE "failed"
                 /\ UNCHANGED frames
  /\ UNCHANGED <<input, taken, eof>>

Init ==
  /\ input \in Inputs
  /\ taken = 0 /\ rbuf = <<>>
  /\ readable = FALSE /\ eof = FALSE
  /\ frames = <<>> /\ reader = "open"

Next ==
  \/ \E n \in 1 .. Len(input) - taken : Read(n)
  \/ ReadEof \/ DecodeNext

Spec == Init /\ [][Next]_vars

\* The endpoint polls its stream until it ends, and the peer does close it.
Fairness ==
  /\ WF_vars(\E n \in 1 .. Len(input) - taken : Read(n))
  /\ WF_vars(ReadEof) /\ WF_vars(DecodeNext)

FairSpec == Spec /\ Fairness

-----------------------------------------------------------------------------
(* Properties.                                                             *)

Consumed == SubSeq(input, 1, taken - Len(rbuf))

\* The buffer is never cut beyond its end, which would be a panic.
TypeOK ==
  /\ Decode(rbuf).cut <= Len(rbuf)
  /\ input \in Seq(Bytes)
  /\ taken \in 0 .. Len(input)
  /\ rbuf \in Seq(Bytes) /\ Len(rbuf) <= taken
  /\ readable \in BOOLEAN /\ eof \in BOOLEAN
  /\ frames \in Seq([value : Seq(Bytes), end : Nat]) /\ Len(frames) <= MaxFrames
  /\ reader \in {"open", "end", "failed"}

\* All is well with a text, but that it may end in the middle of a value.
Depth(s, k) == Count(SubSeq(s, 1, k), "open") - Count(SubSeq(s, 1, k), "close")

Sound(s) ==
  /\ \A k \in DOMAIN s : s[k] # "garbage" /\ Depth(s, k) >= 0
  /\ \A j, k \in DOMAIN s :
       /\ s[j] = "close" /\ s[k] = "open"
       /\ j < k /\ \A l \in j + 1 .. k - 1 : s[l] = "space"
       => Depth(s, j) = 0

EndOf(k) == IF k = 0 THEN 0 ELSE frames[k].end
OnlySpace(s, from, to) == \A k \in from + 1 .. to : s[k] = "space"

\* The value ends there, and only space is before it.
ValueAt(s, from, value, to) ==
  LET start == to - Len(value)
  IN  /\ IsValue(value) /\ from <= start
      /\ OnlySpace(s, from, start) /\ SubSeq(s, start + 1, to) = value

\* Wherever the chunks of a sound text are cut, the results are its values, whole
\* and in order, with nothing left out but space.
FramesAreInput ==
  Sound(input) =>
    /\ \A k \in DOMAIN frames : ValueAt(input, EndOf(k - 1), frames[k].value, EndOf(k))
    /\ OnlySpace(input, EndOf(Len(frames)), Len(Consumed))

\* The stream ends with an error if and only if the text ends in the middle of a
\* value; space at its end does no harm.
TruncationFails ==
  Sound(input) /\ reader # "open" =>
    (reader = "failed" <=> Depth(input, Len(input)) > 0)

\* A sound text is read to its end.
ReaderEnds == Sound(input) ~> reader # "open"

\* Every result takes its bytes off the input (the comment in decode: "It did read
\* some data from the input. Find out how many and cut them off").
EveryResultEatsInput == Len(frames) <= Len(Consumed)
=============================================================================
