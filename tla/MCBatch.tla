------------------------------ MODULE MCBatch ------------------------------
(***************************************************************************)
(* Batch for TLC: every way to put a few messages into batches.            *)
(***************************************************************************)
EXTENDS Batch

CONSTANT MaxMessages

\* All short inputs, and some with all kinds of message in two batches.
Short == SeqOf(Kinds, MaxMessages)

Long == {
  <<"batch", "request", "batch", "broken", "notification", "request", "response">>,
  <<"batch", "batch", "request", "request", "broken", "batch", "request">>}

TestStreams == Short \cup Long
=============================================================================
