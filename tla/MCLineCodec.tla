---------------------------- MODULE MCLineCodec ----------------------------
(***************************************************************************)
(* LineCodec for TLC: a long and a short message, after any three bytes.   *)
(***************************************************************************)
EXTENDS LineCodec, TLC

CONSTANTS a, b, nl, m1, m2

AllBytes == {a, b, nl}
Encodings == m1 :> <<a>> @@ m2 :> <<a, b>>
ForeignBytes == UNION {[1 .. n -> {b, nl}] : n \in 0 .. 3}
=============================================================================
