------------------------- MODULE ConnectedEndpoint -------------------------
(***************************************************************************)
(* An endpoint (src/src/endpoint.rs) that talks to another one over a      *)
(* socket.  Endpoint leaves the peer to the environment: here what is read *)
(* was written by the peer, in its order, and the end of input is the end  *)
(* of the peer.  Connection puts two of them together.                     *)
(*                                                                         *)
(* Messages keep their names on the way: a call of one side is a request   *)
(* to the other, and then the answer to it.                                *)
(***************************************************************************)
EXTENDS Endpoint

CONSTANT StreamCap  \* messages the socket holds in one direction

VARIABLES
  incoming,  \* written by the peer and not read yet
  outgoing,  \* written and not read by the peer yet
  peer       \* the phase, op and inbound of the peer

svars == <<vars, incoming, outgoing>>

\* Nothing passes the socket.
Silent == UNCHANGED <<incoming, outgoing>>

-----------------------------------------------------------------------------
(* The socket.                                                             *)

\* The next message comes: a response to this side, or what the peer asks of it.
Receive ==
  /\ incoming # <<>>
  /\ LET m == Head(incoming)
     IN  \/ m \in Calls /\ ReceiveResponse(m)
         \/ m \in Inbound /\ (IgnoreMessage(m) \/ ServeMessage(m))
  /\ incoming' = Tail(incoming)
  /\ UNCHANGED outgoing

\* The peer has ended and all it wrote has been read.
ReceiveEof ==
  /\ incoming = <<>> /\ peer.phase # "running"
  /\ ReadEof
  /\ UNCHANGED <<incoming, outgoing>>

\* The socket takes a message when it has room; to a peer that has ended it goes
\* nowhere.
Write ==
  /\ Flush
  /\ IF peer.phase = "running"
     THEN /\ Len(outgoing) < StreamCap
          /\ outgoing' = Append(outgoing, Head(staged))
     ELSE UNCHANGED outgoing
  /\ UNCHANGED incoming

\* The end of the task closes the socket with what was not read.
End ==
  /\ Close \/ KillFires
  /\ incoming' = <<>> /\ UNCHANGED outgoing

\* The connection fails, or the peer has reset it.
Fail ==
  /\ ReadError \/ WriteError
  /\ incoming' = <<>> /\ UNCHANGED outgoing

\* Everything else.
Local ==
  /\ Silent
  /\ \/ UserStep \/ FutureStep
     \/ \E i \in Inbound : Complete(i)
     \/ \E i \in Inbound : \/ \E c \in Calls : HandlerCalls(i, c)
                           \/ \E n \in Notes : HandlerNotifies(i, n)
     \/ ReadTerminator \/ SendQueued

Step == Local \/ Receive \/ ReceiveEof \/ Write \/ End \/ Fail

\* The reactor polls what can advance, and handlers finish.  What the socket does,
\* and whether the peer answers, is not for this side to say.
SideFairness ==
  /\ \A o \in Ops : /\ WF_svars(Silent /\ SendAccepted(o))
                    /\ WF_svars(Silent /\ SendFailed(o))
  /\ \A c \in Calls : /\ WF_svars(Silent /\ GetAnswer(c))
                      /\ WF_svars(Silent /\ GetLost(c))
                      /\ WF_svars(Silent /\ TimesOut(c))
  /\ \A i \in Inbound : WF_svars(Silent /\ Complete(i))
  /\ WF_svars(Silent /\ ReadTerminator) /\ WF_svars(Silent /\ SendQueued)
  /\ WF_svars(End)

-----------------------------------------------------------------------------
(* What one side may expect of the two.                                    *)

\* A call that was answered has been served, and one that was lost has not, unless
\* this side was cut off or the peer was before it could tell.
AnswersAgree ==
  \A c \in Calls :
    /\ op[c] = "answered" => peer.inbound[c] = "done"
    /\ /\ op[c] = "lost" /\ phase \notin {"killed", "failed"}
       /\ peer.phase \in {"running", "closed"}
       => peer.inbound[c] # "done"

\* When both sides part orderly, the one that sees the end of the other has had
\* every message that the other one's clients were told was sent.
NothingUnread ==
  input = "eof" /\ peer.phase = "closed" =>
    \A i \in Inbound :
      peer.op[i] \in {"waiting", "sent", "answered", "timeout", "lost"}
        => inbound[i] # "unread"

\* All slots are with handlers that wait for calls of their own, whose responses
\* can only come through a slot.
Starved ==
  /\ phase = "running" /\ input = "reading"
  /\ Cardinality(Serving) = Parallel
  /\ \A i \in Serving : StillWaits(i)

\* The socket is full, and this side does not read before it has written more: the
\* sink holds all it can, or is to be flushed before the end.
WriteBlocked ==
  /\ phase = "running" /\ Len(outgoing) = StreamCap
  /\ Len(staged) = SinkCap \/ (input # "reading" /\ staged # <<>>)

=============================================================================
