---------------------------- MODULE MCConnection ----------------------------
(***************************************************************************)
(* Connection for TLC, and the part of its behaviours in which nothing is  *)
(* cut off.                                                                *)
(***************************************************************************)
EXTENDS Connection

\* Nobody kills an endpoint, the connection does not fail, no future is dropped,
\* and only the left side is terminated.
Orderly ==
  /\ ctlL.killer /\ ctlR = Right!Fresh
  /\ phaseL # "failed" /\ phaseR # "failed"
  /\ \A o \in LeftCalls \cup LeftNotes : opL[o] # "dropped"
  /\ \A o \in RightCalls \cup RightNotes : opR[o] # "dropped"

\* The fair behaviours that stay orderly.
OrderlySpec ==
  /\ Init /\ Orderly
  /\ [][Next /\ Orderly']_vars
  /\ Left!SideFairness /\ Right!SideFairness /\ SocketFairness
=============================================================================
