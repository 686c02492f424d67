----------------------------- MODULE Connection -----------------------------
(***************************************************************************)
(* Two endpoints of this crate at the ends of one socket                   *)
(* (src/src/endpoint.rs), as the tests in src/tests/endpoint.rs set them   *)
(* up.                                                                     *)
(***************************************************************************)
EXTENDS Naturals, Sequences, FiniteSets

CONSTANTS
  LeftCalls, LeftTimed, LeftNotes, RightCalls, RightTimed, RightNotes,
  Parallel, ChannelCap, SinkCap, MaxClients, StreamCap

ASSUME ConnectionAssumption ==
  /\ LeftTimed \subseteq LeftCalls /\ RightTimed \subseteq RightCalls
  /\ LeftCalls \cap LeftNotes = {} /\ RightCalls \cap RightNotes = {}
  /\ (LeftCalls \cup LeftNotes) \cap (RightCalls \cup RightNotes) = {}
  /\ IsFiniteSet(LeftCalls \cup LeftNotes) /\ IsFiniteSet(RightCalls \cup RightNotes)
  /\ Parallel \in Nat
  /\ ChannelCap \in Nat \ {0} /\ SinkCap \in Nat \ {0} /\ StreamCap \in Nat \ {0}
  /\ MaxClients \in Nat \ {0}

VARIABLES
  phaseL, inputL, ctlL, idleL, opL, idmapL, replyL, channelL, stagedL, wireL,
  inboundL, awaitsL,
  phaseR, inputR, ctlR, idleR, opR, idmapR, replyR, channelR, stagedR, wireR,
  inboundR, awaitsR,
  toLeft, toRight

varsL == <<phaseL, inputL, ctlL, idleL, opL, idmapL, replyL, channelL, stagedL,
           wireL, inboundL, awaitsL>>
varsR == <<phaseR, inputR, ctlR, idleR, opR, idmapR, replyR, channelR, stagedR,
           wireR, inboundR, awaitsR>>
vars == <<varsL, varsR, toLeft, toRight>>

Left == INSTANCE ConnectedEndpoint WITH
  Calls <- LeftCalls, Timed <- LeftTimed, Notes <- LeftNotes,
  Requests <- RightCalls, Notifications <- RightNotes, Broken <- {},
  phase <- phaseL, input <- inputL, ctl <- ctlL, idle <- idleL, op <- opL,
  idmap <- idmapL, reply <- replyL, channel <- channelL, staged <- stagedL,
  wire <- wireL, inbound <- inboundL, awaits <- awaitsL,
  incoming <- toLeft, outgoing <- toRight,
  peer <- [phase |-> phaseR, op |-> opR, inbound |-> inboundR]

Right == INSTANCE ConnectedEndpoint WITH
  Calls <- RightCalls, Timed <- RightTimed, Notes <- RightNotes,
  Requests <- LeftCalls, Notifications <- LeftNotes, Broken <- {},
  phase <- phaseR, input <- inputR, ctl <- ctlR, idle <- idleR, op <- opR,
  idmap <- idmapR, reply <- replyR, channel <- channelR, staged <- stagedR,
  wire <- wireR, inbound <- inboundR, awaits <- awaitsR,
  incoming <- toRight, outgoing <- toLeft,
  peer <- [phase |-> phaseL, op |-> opL, inbound |-> inboundL]

Init == Left!Init /\ Right!Init /\ toLeft = <<>> /\ toRight = <<>>

Next ==
  \/ Left!Step /\ UNCHANGED varsR
  \/ Right!Step /\ UNCHANGED varsL

Spec == Init /\ [][Next]_vars

\* The socket carries what it is given, if the side that has to take it polls it.
SocketFairness ==
  /\ WF_vars(Left!Write /\ UNCHANGED varsR) /\ WF_vars(Right!Write /\ UNCHANGED varsL)
  /\ WF_vars(Left!Receive /\ UNCHANGED varsR)
  /\ WF_vars(Right!Receive /\ UNCHANGED varsL)
  /\ WF_vars(Left!ReceiveEof /\ UNCHANGED varsR)
  /\ WF_vars(Right!ReceiveEof /\ UNCHANGED varsL)

FairSpec == Spec /\ Left!SideFairness /\ Right!SideFairness /\ SocketFairness

-----------------------------------------------------------------------------
(* Properties.                                                             *)

\* Both sides agree on what became of a call.
AnswersAgree == Left!AnswersAgree /\ Right!AnswersAgree

\* An orderly end loses nothing on the way.
NothingUnread == Left!NothingUnread /\ Right!NothingUnread

\* An endpoint notices that its peer has ended, unless it is starved for good.
\* (The sides are alike: this and the next one are about the left one.)
EndIsNoticed ==
  <>[](phaseR # "running") =>
    \/ <>[](phaseL # "running" \/ inputL # "reading")
    \/ <>[]Left!Starved

\* A call that waits for ever does so on an endpoint that runs, and for a reason that
\* stays: the peer was stopped and ignores it, or serves it with a handler that itself
\* waits for a call; it was made after the end of the input; the slots of one side are
\* starved; or both sides write and none reads.
CallsHangOnlyIf ==
  \A c \in LeftCalls :
    <>[](opL[c] = "waiting") =>
      /\ <>[](phaseL = "running")
      /\ \/ <>[](inboundR[c] = "ignored")
         \/ <>[](inboundR[c] = "running" /\ Right!StillWaits(c))
         \/ <>[](inputL = "eof" /\ c \in idmapL)
         \/ <>[]Left!Starved \/ <>[]Right!Starved
         \/ <>[](Left!WriteBlocked /\ Right!WriteBlocked)

\* The doc of ServerCtl::terminate: it ends the connection once the clients are
\* dropped and the responses have come.
TerminationCompletes == Left!TerminationCompletes
=============================================================================
