-------------------------- MODULE MCBoundaryCodec --------------------------
(***************************************************************************)
(* BoundaryCodec for TLC: all short texts, the unsound ones too.           *)
(***************************************************************************)
EXTENDS BoundaryCodec

CONSTANT MaxInput

Texts == BoundedSeq(Bytes, MaxInput)
=============================================================================
