---------------------- MODULE ConnectedEndpointProofs ----------------------
(***************************************************************************)
(* Proofs about one of two connected endpoints: what it knows of what its  *)
(* peer has written.  The steps of the peer are seen from this side.       *)
(***************************************************************************)
EXTENDS ConnectedEndpoint, EndpointProofs

VARIABLE theirs  \* the wire of the peer

\* A step of an endpoint in a connection is a step of Endpoint.
LEMMA StepIsNext == ASSUME Step PROVE Next
<1>1. CASE Local
  BY <1>1 DEF Local, Next, ServerStep, TaskStep
<1>2. CASE Receive
  BY <1>2 DEF Receive, Next, ServerStep
<1>3. CASE ReceiveEof
  BY <1>3 DEF ReceiveEof, Next, ServerStep
<1>4. CASE Write \/ End \/ Fail
  BY <1>4 DEF Write, End, Fail, Next, TaskStep
<1> QED
  BY <1>1, <1>2, <1>3, <1>4 DEF Step

\* What the peer sees of a step.
LEMMA StepSeen ==
  ASSUME TypeOK, OutOnce, Step
  PROVE  /\ phase # "running" => phase' # "running"
         /\ \/ UNCHANGED <<outgoing, wire>>
            \/ /\ phase = "running"
               /\ peer.phase = "running" => Len(outgoing) < StreamCap
               /\ \E m \in Messages :
                    /\ m \notin wire /\ wire' = wire \cup {m}
                    /\ outgoing' = IF peer.phase = "running" THEN Append(outgoing, m)
                                   ELSE outgoing
<1>1. CASE Local
  BY <1>1
  DEF Local, Silent, UserStep, Terminate, Kill, NewClient, CloneClient, DropClient,
      UserCalls, UserNotifies, HandlerCalls, HandlerNotifies, Makes, Call, Notify,
      DropOp, FutureStep, SendAccepted, SendFailed, GetAnswer, GetLost, TimesOut,
      Resolve, Complete, ReadTerminator, SendQueued
<1>2. CASE Receive \/ ReceiveEof
  BY <1>2 DEF Receive, ReceiveResponse, IgnoreMessage, ServeMessage, ReceiveEof, ReadEof
<1>3. CASE Write
  <2>1. staged \in Seq(Messages) /\ staged # <<>>
    BY <1>3 DEF Write, Flush, TypeOK
  <2>2. Head(staged) \in Messages /\ Head(staged) \notin wire
    BY <2>1, ContentsTail DEF OutOnce
  <2> QED
    BY <1>3, <2>2 DEF Write, Flush
<1>4. CASE End \/ Fail
  BY <1>4 DEF End, Fail, Close, KillFires, ReadError, WriteError, Finish
<1> QED
  BY <1>1, <1>2, <1>3, <1>4 DEF Step

\* The peer writes to this side while it is there.  Once it has ended, it is done.
PeerWrites ==
  /\ peer.phase = "running"
  /\ phase = "running" => Len(incoming) < StreamCap
  /\ \E m \in Inbound \cup Calls :
       /\ m \notin theirs /\ theirs' = theirs \cup {m}
       /\ incoming' = IF phase = "running" THEN Append(incoming, m) ELSE incoming

PeerStep ==
  /\ UNCHANGED vars
  /\ PeerWrites \/ UNCHANGED <<incoming, theirs>>
  /\ peer.phase # "running" => peer'.phase # "running"

OwnStep == Step /\ UNCHANGED <<peer, theirs>>

\* A call that has its response, or needs none any more.
Settled(c) == c \in reply \/ op[c] \notin {"idle", "sending", "waiting", "lost"}

\* What has been written to this side and has left the socket, while it listened.
Arrived(m) ==
  /\ m \in theirs
  /\ input = "eof" \/ (phase = "running" /\ m \notin Contents(incoming))

\* What has arrived has been taken, and what is taken was written.
KnowsPeer ==
  /\ incoming \in Seq(Inbound \cup Calls) /\ Contents(incoming) \subseteq theirs
  /\ input = "eof" => peer.phase # "running"
  /\ \A i \in Inbound : Arrived(i) => inbound[i] # "unread"
  /\ \A c \in Calls : Arrived(c) => Settled(c)
  /\ \A c \in Calls : c \in reply \/ op[c] = "answered" => c \in theirs

\* What the theorems about Endpoint say of this side.
Known ==
  /\ TypeOK /\ OutIsSent /\ ReplyIsTaken /\ LostOnlyByEof

\* A step of the peer adds to what is on its way, but not to what has arrived.
LEMMA PeerKeeps == KnowsPeer /\ PeerStep => KnowsPeer'
<1> SUFFICES ASSUME KnowsPeer, PeerStep PROVE KnowsPeer'
  OBVIOUS
<1>1. UNCHANGED <<input, phase, inbound, op, reply>>
  BY DEF PeerStep, vars
<1>2. CASE UNCHANGED <<incoming, theirs>>
  BY <1>1, <1>2 DEF PeerStep, KnowsPeer, Arrived, Settled, Contents
<1>3. CASE PeerWrites
  <2>1. PICK m \in Inbound \cup Calls :
          /\ theirs' = theirs \cup {m}
          /\ incoming' = IF phase = "running" THEN Append(incoming, m) ELSE incoming
    BY <1>3 DEF PeerWrites
  <2>2. input # "eof"
    BY <1>3 DEF PeerWrites, KnowsPeer
  <2>3. /\ incoming' \in Seq(Inbound \cup Calls)
        /\ Contents(incoming)' \subseteq Contents(incoming) \cup {m}
        /\ phase = "running" => Contents(incoming)' = Contents(incoming) \cup {m}
    <3>1. CASE phase = "running"
      BY <2>1, <3>1, ContentsAppend DEF KnowsPeer
    <3>2. CASE phase # "running"
      BY <2>1, <3>2 DEF KnowsPeer, Contents
    <3> QED
      BY <3>1, <3>2
  <2>4. \A x : Arrived(x)' => Arrived(x)
    BY <1>1, <2>1, <2>2, <2>3 DEF Arrived
  <2> QED
    BY <1>1, <2>1, <2>2, <2>3, <2>4 DEF KnowsPeer, Settled
<1> QED
  BY <1>2, <1>3 DEF PeerStep

\* No step of this side takes a message or a response back.
LEMMA NothingUndone ==
  ASSUME Known, Next
  PROVE  /\ \A c \in Calls : Settled(c) => Settled(c)'
         /\ \A i \in Inbound : inbound[i] # "unread" => inbound'[i] # "unread"
<1> USE MessageSorts DEF Known, TypeOK, Settled
<1>1. ASSUME NEW c \in Calls, Settled(c) PROVE Settled(c)'
  <2>1. CASE UNCHANGED <<phase, op, idmap, reply, Link>>
    BY <1>1, <2>1
  <2>2. ASSUME NEW d \in Calls, Call(d) \/ ReceiveResponse(d) PROVE Settled(c)'
    BY <1>1, <2>2 DEF Call, ReceiveResponse, Delivered, ReplyIsTaken
  <2>3. ASSUME NEW d \in Calls, GetAnswer(d) \/ GetLost(d) \/ TimesOut(d)
        PROVE  Settled(c)'
    BY <1>1, <2>3 DEF GetAnswer, GetLost, TimesOut, Resolve
  <2>4. ASSUME NEW n \in Notes, Notify(n) PROVE Settled(c)'
    BY <1>1, <2>4, EndpointAssumption DEF Notify, EndpointAssumption
  <2>5. ASSUME NEW o \in Ops, DropOp(o) \/ SendAccepted(o) \/ SendFailed(o)
        PROVE  Settled(c)'
    BY <1>1, <2>5 DEF DropOp, SendAccepted, SendFailed, ReplyIsTaken
  <2>6. CASE ReadEof
    BY <1>1, <2>6 DEF ReadEof
  <2>7. ASSUME NEW why, Finish(why) PROVE Settled(c)'
    BY <1>1, <2>7 DEF Finish, ReplyIsTaken, Pending
  <2> QED
    BY <2>1, <2>2, <2>3, <2>4, <2>5, <2>6, <2>7, CallSteps
<1>2. ASSUME NEW i \in Inbound, inbound[i] # "unread" PROVE inbound'[i] # "unread"
  BY <1>2
  DEF Next, UserStep, Terminate, Kill, NewClient, CloneClient, DropClient, UserCalls,
      UserNotifies, HandlerCalls, HandlerNotifies, Makes, Call, Notify, DropOp,
      FutureStep, SendAccepted, SendFailed, GetAnswer, GetLost, TimesOut, Resolve,
      ServerStep, IgnoreMessage, ServeMessage, Complete, ReceiveResponse, ReadEof,
      ReadTerminator, TaskStep, SendQueued, Flush, ReadError, WriteError, KillFires,
      Close, Finish, Serving
<1> QED
  BY <1>1, <1>2

\* What a message that comes leads to.
LEMMA ReceiveKeeps == Known /\ KnowsPeer /\ Receive /\ UNCHANGED <<peer, theirs>> => KnowsPeer'
<1> SUFFICES ASSUME Known, KnowsPeer, Receive, UNCHANGED <<peer, theirs>> PROVE KnowsPeer'
  OBVIOUS
<1> PICK m : m = Head(incoming)
  OBVIOUS
<1> USE MessageSorts DEF Known, TypeOK
<1>1. /\ incoming' = Tail(incoming) /\ incoming' \in Seq(Inbound \cup Calls)
      /\ Contents(incoming) = {m} \cup Contents(incoming)'
  BY ContentsTail DEF Receive, KnowsPeer
<1>2. /\ UNCHANGED <<phase, input, op>> /\ input = "reading" /\ phase = "running"
      /\ reply' \subseteq reply \cup {m}
  BY DEF Receive, ReceiveResponse, IgnoreMessage, ServeMessage, CanRead, CanPoll, Delivered
<1>3. m \in Inbound => inbound'[m] # "unread"
  BY EndpointAssumption
  DEF Receive, ReceiveResponse, IgnoreMessage, ServeMessage, EndpointAssumption, Ops
<1>4. m \in Calls => Settled(m)'
  <2> SUFFICES ASSUME m \in Calls PROVE Settled(m)'
    OBVIOUS
  <2>1. ReceiveResponse(m)
    BY EndpointAssumption DEF Receive, EndpointAssumption, Ops
  <2>2. op[m] \notin {"idle", "sending", "lost"}
    BY <1>2, <2>1 DEF ReceiveResponse, OutIsSent, InFlight, Sent, LostOnlyByEof
  <2>3. op[m] = "waiting" => m \in idmap \/ m \in reply
    BY <1>2 DEF LostOnlyByEof, Pending
  <2> QED
    BY <1>2, <2>1, <2>2, <2>3 DEF ReceiveResponse, Delivered, Pending, Settled
<1>5. Next
  BY StepIsNext DEF Step
<1>6. \A x : Arrived(x)' => Arrived(x) \/ x = m
  BY <1>1, <1>2 DEF Arrived
<1>7. \A i \in Inbound : Arrived(i)' => inbound'[i] # "unread"
  BY <1>3, <1>5, <1>6, NothingUndone DEF KnowsPeer
<1>8. \A c \in Calls : Arrived(c)' => Settled(c)'
  BY <1>4, <1>5, <1>6, NothingUndone DEF KnowsPeer
<1>9. \A c \in Calls : (c \in reply \/ op[c] = "answered")' => c \in theirs
  BY <1>1, <1>2 DEF KnowsPeer
<1> QED
  BY <1>1, <1>2, <1>7, <1>8, <1>9 DEF KnowsPeer

\* The other steps of this side take nothing off the socket, but at the end.
LEMMA OwnSteps ==
  ASSUME Known, Step
  PROVE  \/ Receive
         \/ ReceiveEof
         \/ UNCHANGED <<incoming, input, phase>>
         \/ UNCHANGED <<incoming, phase>> /\ input # "eof" /\ input' # "eof"
         \/ incoming' = <<>> /\ input' = input /\ phase' # "running"
<1>1. CASE Local
  BY <1>1
  DEF Local, Silent, UserStep, Terminate, Kill, NewClient, CloneClient, DropClient,
      UserCalls, UserNotifies, HandlerCalls, HandlerNotifies, Call, Notify, DropOp,
      FutureStep, SendAccepted, SendFailed, GetAnswer, GetLost, TimesOut, Resolve,
      Complete, ReadTerminator, CanRead, SendQueued
<1>2. CASE Write
  BY <1>2 DEF Write, Flush
<1>3. CASE End \/ Fail
  BY <1>3 DEF End, Fail, Close, KillFires, ReadError, WriteError, Finish
<1> QED
  BY <1>1, <1>2, <1>3 DEF Step

\* A call is answered only by a response it was given.
LEMMA AnsweredFromReply ==
  ASSUME Known, Step, ~Receive, NEW c \in Calls, c \in reply' \/ op'[c] = "answered"
  PROVE  c \in reply \/ op[c] = "answered"
<1> USE MessageSorts DEF Known, TypeOK
<1>1. CASE Local
  <2>1. CASE UserStep
    BY <1>1, <2>1
    DEF UserStep, Terminate, Kill, NewClient, CloneClient, DropClient, UserCalls,
        UserNotifies, Call, Notify, DropOp
  <2>2. CASE FutureStep
    BY <1>1, <2>2 DEF FutureStep, SendAccepted, SendFailed, GetAnswer, GetLost, TimesOut,
                      Resolve
  <2>3. CASE ~UserStep /\ ~FutureStep
    BY <1>1, <2>3 DEF Local, Complete, HandlerCalls, HandlerNotifies, Call, Notify,
                      ReadTerminator, SendQueued
  <2> QED
    BY <2>1, <2>2, <2>3
<1>2. CASE Write \/ ReceiveEof
  BY <1>2 DEF Write, Flush, ReceiveEof, ReadEof
<1>3. CASE End \/ Fail
  BY <1>3 DEF End, Fail, Close, KillFires, ReadError, WriteError, Finish
<1> QED
  BY <1>1, <1>2, <1>3 DEF Step

\* A step of this side leaves it with what it knows.
LEMMA OwnKeeps == Known /\ KnowsPeer /\ OwnStep => KnowsPeer'
<1> SUFFICES ASSUME Known, KnowsPeer, OwnStep, ~Receive PROVE KnowsPeer'
  BY ReceiveKeeps DEF OwnStep
<1>1. Next /\ UNCHANGED <<peer, theirs>>
  BY StepIsNext DEF OwnStep
<1>2. \A c \in Calls : (c \in reply \/ op[c] = "answered")' => c \in theirs
  BY AnsweredFromReply DEF OwnStep, KnowsPeer
<1>3. \/ ReceiveEof
      \/ UNCHANGED <<incoming, input, phase>>
      \/ UNCHANGED <<incoming, phase>> /\ input # "eof" /\ input' # "eof"
      \/ incoming' = <<>> /\ input' = input /\ phase' # "running"
  BY OwnSteps DEF OwnStep
<1>4. incoming' = incoming \/ incoming' = <<>>
  BY <1>3 DEF ReceiveEof
<1>5. incoming' \in Seq(Inbound \cup Calls) /\ Contents(incoming)' \subseteq theirs
  <2>1. CASE incoming' = incoming
    BY <2>1 DEF KnowsPeer, Contents
  <2>2. CASE incoming' = <<>>
    BY <2>2 DEF Contents
  <2> QED
    BY <1>4, <2>1, <2>2
<1>6. input' = "eof" => peer.phase # "running"
  BY <1>3 DEF ReceiveEof, KnowsPeer
<1>7. \A x : Arrived(x)' => Arrived(x)
  <2>1. CASE ReceiveEof
    BY <1>1, <2>1 DEF ReceiveEof, ReadEof, CanRead, CanPoll, Arrived, Contents
  <2>2. CASE UNCHANGED <<incoming, input, phase>>
    BY <1>1, <2>2 DEF Arrived, Contents
  <2>3. CASE UNCHANGED <<incoming, phase>> /\ input # "eof" /\ input' # "eof"
    BY <1>1, <2>3 DEF Arrived, Contents
  <2>4. CASE incoming' = <<>> /\ input' = input /\ phase' # "running"
    BY <1>1, <2>4 DEF Arrived
  <2> QED
    BY <1>3, <2>1, <2>2, <2>3, <2>4
<1> QED
  BY <1>1, <1>2, <1>5, <1>6, <1>7, NothingUndone DEF KnowsPeer

-----------------------------------------------------------------------------
(* What is in the socket has still to be taken.                            *)

\* A message comes once, is unread until then, and is served only if it was written.
ComesOnce ==
  /\ IsInjective(incoming) /\ Len(incoming) <= StreamCap
  /\ \A i \in Inbound : i \in Contents(incoming) => inbound[i] = "unread"
  /\ \A i \in Inbound : inbound[i] # "unread" => i \in theirs

\* The peer writes only what it has not written before.
LEMMA PeerKeepsOnce ==
  ASSUME StreamCap \in Nat, KnowsPeer, ComesOnce, PeerStep PROVE ComesOnce'
<1>1. UNCHANGED <<inbound, phase>>
  BY DEF PeerStep, vars
<1>2. CASE UNCHANGED <<incoming, theirs>>
  BY <1>1, <1>2 DEF ComesOnce, Contents
<1>3. CASE PeerWrites
  <2>1. PICK m \in Inbound \cup Calls :
          /\ m \notin theirs /\ theirs' = theirs \cup {m}
          /\ incoming' = IF phase = "running" THEN Append(incoming, m) ELSE incoming
    BY <1>3 DEF PeerWrites
  <2>2. CASE phase = "running"
    <3>1. /\ incoming \in Seq(Inbound \cup Calls) /\ m \notin Contents(incoming)
          /\ incoming' = Append(incoming, m) /\ Len(incoming) < StreamCap
      BY <1>3, <2>1, <2>2 DEF KnowsPeer, PeerWrites
    <3>2. /\ IsInjective(incoming') /\ Contents(incoming)' = Contents(incoming) \cup {m}
      BY <3>1, AppendOnce, ContentsAppend DEF ComesOnce
    <3>3. Len(incoming') <= StreamCap
      BY <3>1
    <3> QED
      BY <1>1, <2>1, <3>2, <3>3 DEF ComesOnce
  <2>3. CASE phase # "running"
    BY <1>1, <2>1, <2>3 DEF ComesOnce, Contents
  <2> QED
    BY <2>2, <2>3
<1> QED
  BY <1>2, <1>3 DEF PeerStep

\* Only what comes is served.
LEMMA ServedFromSocket ==
  ASSUME Known, Step, ~Receive, NEW i \in Inbound
  PROVE  inbound'[i] = "unread" <=> inbound[i] = "unread"
<1> USE DEF Known, TypeOK
<1>1. CASE Local
  BY <1>1
  DEF Local, Silent, UserStep, Terminate, Kill, NewClient, CloneClient, DropClient,
      UserCalls, UserNotifies, HandlerCalls, HandlerNotifies, Makes, Call, Notify,
      DropOp, FutureStep, SendAccepted, SendFailed, GetAnswer, GetLost, TimesOut,
      Resolve, Complete, ReadTerminator, SendQueued
<1>2. CASE Write \/ ReceiveEof
  BY <1>2 DEF Write, Flush, ReceiveEof, ReadEof
<1>3. CASE End \/ Fail
  BY <1>3 DEF End, Fail, Close, KillFires, ReadError, WriteError, Finish, Serving
<1> QED
  BY <1>1, <1>2, <1>3 DEF Step

\* This side takes each message off the socket when it serves it.
LEMMA OwnKeepsOnce ==
  ASSUME StreamCap \in Nat, Known, KnowsPeer, ComesOnce, OwnStep PROVE ComesOnce'
<1>1. Step /\ UNCHANGED theirs
  BY DEF OwnStep
<1>2. CASE Receive
  <2> PICK m : m = Head(incoming)
    OBVIOUS
  <2>1. incoming \in Seq(Inbound \cup Calls) /\ incoming # <<>> /\ incoming' = Tail(incoming)
    BY <1>2 DEF Receive, KnowsPeer
  <2>2. /\ IsInjective(incoming') /\ m \notin Contents(incoming)'
        /\ Contents(incoming) = {m} \cup Contents(incoming)'
    BY <2>1, TailOnce, ContentsTail DEF ComesOnce
  <2>3. Len(incoming') <= StreamCap
    <3>1. Len(incoming') <= Len(incoming) /\ Len(incoming') \in Nat /\ Len(incoming) \in Nat
      BY <2>1
    <3> QED
      BY <3>1 DEF ComesOnce
  <2>4. m \in theirs
    BY <2>2 DEF KnowsPeer
  <2>5. \A i \in Inbound : i # m => inbound'[i] = inbound[i]
    BY <1>2 DEF Receive, ReceiveResponse, IgnoreMessage, ServeMessage, Known, TypeOK
  <2> QED
    BY <1>1, <2>2, <2>3, <2>4, <2>5 DEF ComesOnce
<1>3. CASE ~Receive
  <2>1. incoming' = incoming \/ incoming' = <<>>
    BY <1>1, <1>3, OwnSteps DEF ReceiveEof
  <2>2. \A i \in Inbound : inbound'[i] = "unread" <=> inbound[i] = "unread"
    BY <1>1, <1>3, ServedFromSocket
  <2>3. IsInjective(incoming') /\ Len(incoming') <= StreamCap
    BY <2>1 DEF ComesOnce, IsInjective
  <2>4. Contents(incoming)' \subseteq Contents(incoming)
    BY <2>1 DEF Contents
  <2> QED
    BY <1>1, <2>2, <2>3, <2>4 DEF ComesOnce
<1> QED
  BY <1>2, <1>3

\* What this side knows, and what the peer's own laws are, decides that they agree.
LEMMA WhatIsKnown ==
  ASSUME Known, KnowsPeer,
         peer.phase = "closed" =>
           \A c \in Calls : peer.inbound[c] = "done" => c \in theirs,
         \A c \in Calls : c \in theirs => peer.inbound[c] = "done",
         peer.phase = "closed" =>
           \A i \in Inbound :
             peer.op[i] \in {"waiting", "sent", "answered", "timeout", "lost"}
               => i \in theirs
  PROVE  AnswersAgree /\ NothingUnread
<1>1. ASSUME NEW c \in Calls, op[c] = "answered" PROVE peer.inbound[c] = "done"
  BY <1>1 DEF KnowsPeer
<1>2. ASSUME NEW c \in Calls, op[c] = "lost", phase \notin {"killed", "failed"},
             peer.phase \in {"running", "closed"}, peer.inbound[c] = "done"
      PROVE  FALSE
  <2>1. input = "eof"
    BY <1>2 DEF Known, LostOnlyByEof
  <2>2. Arrived(c)
    BY <1>2, <2>1 DEF KnowsPeer, Arrived
  <2> QED
    BY <1>2, <2>2 DEF KnowsPeer, Settled, Known, ReplyIsTaken
<1>3. AnswersAgree
  BY <1>1, <1>2 DEF AnswersAgree
<1>4. NothingUnread
  BY DEF NothingUnread, KnowsPeer, Arrived
<1> QED
  BY <1>3, <1>4
-----------------------------------------------------------------------------
(* When nothing can go on.  As in EndpointProofs, each Can... is the guard *)
(* of the step of SideFairness or SocketFairness named beside it.          *)

CanWrite ==                                              \* Write
  CanFlush /\ (peer.phase = "running" => Len(outgoing) < StreamCap)
CanReceive ==                                            \* Receive
  /\ CanRead /\ incoming # <<>>
  /\ LET m == Head(incoming)
     IN  m \in Calls \cap wire \/ (m \in Inbound /\ inbound[m] = "unread")
CanSeeEof ==                                             \* ReceiveEof
  CanRead /\ incoming = <<>> /\ peer.phase # "running"
CanEnd == CanClose \/ (phase = "running" /\ KillSeen)    \* End
CanFail(o) == op[o] = "sending" /\ phase # "running"     \* SendFailed

\* Only users, handlers that use their clients, and failures can still move this side.
AtRest ==
  /\ ~CanWrite /\ ~CanReceive /\ ~CanSeeEof /\ ~CanEnd /\ ~CanTake /\ ~CanStopReading
  /\ \A o \in Ops : ~CanSend(o) /\ ~CanFail(o)
  /\ \A c \in Calls : ~CanResolve(c) /\ ~CanExpire(c)
  /\ \A i \in Inbound : ~CanComplete(i)

\* What the theorems about Endpoint say of a side at rest.
Laws ==
  /\ TypeOK /\ Conserved /\ WaitsAreSound /\ TerminatedMeansUnwanted
  /\ NoneOutlives /\ ParallelBound /\ NoWaiterLeftBehind

\* What the side knows of what comes.
Comes ==
  /\ KnowsPeer /\ ComesOnce
  /\ \A c \in Calls : c \in Contents(incoming) => c \in wire

\* Every handler waits for a call.
HandlersWait == \A i \in Serving : \E c \in awaits[i] : c \in Calls /\ op[c] = "waiting"

\* The handlers are there for good: each waits for a call made after the end of input.
HandlersHang == input = "eof" /\ Serving # {} /\ \A i \in Serving : WaitsInVain(i)

\* A side that can poll has emptied the channel, and its handlers wait.
LEMMA RestPolled ==
  ASSUME Laws, AtRest, CanPoll
  PROVE  channel = <<>> /\ (\A o \in Ops : op[o] # "sending") /\ HandlersWait
<1> USE MessageSorts DEF Laws, TypeOK, AtRest
<1>1. channel = <<>>
  BY DEF CanTake, QueueIsPolled
<1>2. ChannelHasRoom
  BY <1>1, EndpointAssumption DEF ChannelHasRoom, EndpointAssumption
<1>3. ASSUME NEW o \in Ops PROVE op[o] # "sending"
  BY <1>2 DEF CanSend, Polled, CanPoll
<1>4. ASSUME NEW i \in Serving
      PROVE  \E c \in awaits[i] : c \in Calls /\ op[c] = "waiting"
  <2>1. i \in Inbound /\ inbound[i] = "running"
    BY DEF Serving
  <2>2. PICK o \in awaits[i] : Pending(o)
    BY <2>1 DEF CanComplete, StillWaits
  <2>3. o \in Ops
    BY <2>1
  <2> QED
    BY <1>3, <2>2, <2>3 DEF WaitsAreSound, Pending, Ops
<1> QED
  BY <1>1, <1>3, <1>4 DEF HandlersWait

\* A side that can poll and still reads has a slot, or is starved.
LEMMA RestSlots ==
  ASSUME Laws, AtRest, CanPoll, input = "reading", ~Starved PROVE CanRead
<1>1. \A i \in Serving : StillWaits(i)
  BY RestPolled DEF HandlersWait, StillWaits, Pending
<1>2. Cardinality(Serving) # Parallel
  BY <1>1 DEF Starved, CanPoll
<1>3. Cardinality(Serving) \in Nat
  BY FS_Subset, FS_CardinalityType, EndpointAssumption DEF EndpointAssumption, Serving
<1>4. HasSlot
  BY <1>2, <1>3, EndpointAssumption DEF HasSlot, ParallelBound, Laws, EndpointAssumption
<1> QED
  BY <1>4 DEF CanRead

\* A side that has stopped reading, and is not wanted any more, has something to write or
\* handlers that hang.
LEMMA RestFlushes ==
  ASSUME Laws, AtRest, CanPoll, input # "reading", NoClientLeft, ~ctl.sender,
         input # "eof" => \A c \in Calls : op[c] # "waiting"
  PROVE  staged # <<>> \/ HandlersHang
<1> SUFFICES ASSUME staged = <<>> PROVE HandlersHang
  OBVIOUS
<1>1. Serving # {}
  <2> SUFFICES ASSUME Serving = {} PROVE FALSE
    OBVIOUS
  <2>1. OutboundEnded
    BY RestPolled DEF OutboundEnded, SendersGone
  <2> QED
    BY <2>1 DEF AtRest, CanEnd, CanClose, CanPoll
<1>2. ASSUME NEW i \in Serving PROVE input = "eof" /\ WaitsInVain(i)
  <2>1. PICK c \in awaits[i] : c \in Calls /\ op[c] = "waiting"
    BY RestPolled DEF HandlersWait
  <2>2. Polled(c) /\ input = "eof"
    BY <2>1 DEF Polled
  <2>3. c \in idmap /\ c \notin Timed
    BY <2>1, <2>2 DEF AtRest, CanResolve, CanExpire
  <2> QED
    BY <2>1, <2>2, <2>3 DEF WaitsInVain, Unanswerable
<1> QED
  BY <1>1, <1>2 DEF HandlersHang

\* What the marker says of a side holds once it has been read.
LEMMA RestTerminated ==
  ASSUME Laws, input = "terminated"
  PROVE  NoClientLeft /\ ~ctl.sender /\ \A c \in Calls : op[c] # "waiting"
  BY DEF Laws, TerminatedMeansUnwanted, ClientAvailable, WaitsAreSound

\* What is in the sink waits for the socket.
LEMMA RestWrites ==
  ASSUME Laws, AtRest, phase = "running", staged # <<>>, StreamCap \in Nat,
         Len(outgoing) \in 0 .. StreamCap
  PROVE  peer.phase = "running" /\ Len(outgoing) = StreamCap
  BY DEF AtRest, CanWrite, CanFlush

\* A side that can read has read all there is.
LEMMA RestTakes ==
  ASSUME Laws, Comes, AtRest, CanRead PROVE incoming = <<>> /\ peer.phase = "running"
<1>1. ASSUME incoming # <<>> PROVE FALSE
  <2>1. Head(incoming) \in Inbound \cup Calls /\ Head(incoming) \in Contents(incoming)
    BY <1>1, ContentsTail DEF Comes, KnowsPeer
  <2>2. CanReceive
    BY <1>1, <2>1 DEF CanReceive, Comes, ComesOnce
  <2> QED
    BY <2>2 DEF AtRest
<1> QED
  BY <1>1 DEF AtRest, CanSeeEof

\* What is in the socket waits for a slot, or for this side to write first.
LEMMA RestReads ==
  ASSUME Laws, Comes, AtRest, phase = "running", peer.phase = "running", incoming # <<>>,
         StreamCap \in Nat, Len(outgoing) \in 0 .. StreamCap
  PROVE  Starved \/ WriteBlocked
<1> SUFFICES ASSUME ~Starved PROVE WriteBlocked
  OBVIOUS
<1>1. staged # <<>> => Len(outgoing) = StreamCap
  BY RestWrites
<1>2. CASE ~CanPoll
  <2>1. Len(staged) = SinkCap /\ staged # <<>>
    BY <1>2, EndpointAssumption DEF CanPoll, Laws, TypeOK, EndpointAssumption
  <2> QED
    BY <1>1, <2>1 DEF WriteBlocked
<1>3. CASE CanPoll /\ input = "reading"
  BY <1>3, RestSlots, RestTakes
<1>4. CASE CanPoll /\ input = "eof"
  BY <1>4 DEF Comes, KnowsPeer
<1>5. CASE CanPoll /\ input = "terminated"
  <2>1. staged # <<>>
    BY <1>5, RestTerminated, RestFlushes DEF HandlersHang
  <2> QED
    BY <1>1, <1>5, <2>1 DEF WriteBlocked
<1> QED
  BY <1>2, <1>3, <1>4, <1>5 DEF Laws, TypeOK

\* A side that was killed has ended, and an end of the peer has been noticed, for which
\* only a slot can lack.
LEMMA RestNotices ==
  ASSUME Laws, AtRest, phase = "running", Comes, StreamCap \in Nat,
         Len(outgoing) \in 0 .. StreamCap
  PROVE  /\ ctl.killer
         /\ peer.phase # "running" /\ input = "reading" => Starved
<1>1. ctl.killer
  <2> SUFFICES ASSUME ~ctl.killer PROVE FALSE
    OBVIOUS
  <2>1. KillSeen
    BY RestPolled DEF KillSeen
  <2> QED
    BY <2>1 DEF AtRest, CanEnd
<1>2. ASSUME peer.phase # "running", input = "reading", ~Starved PROVE FALSE
  <2>1. staged = <<>>
    BY <1>2, RestWrites
  <2>2. CanPoll
    BY <2>1, EndpointAssumption DEF CanPoll, EndpointAssumption
  <2> QED
    BY <1>2, <2>2, RestSlots, RestTakes
<1> QED
  BY <1>1, <1>2

\* Nothing of this side is left to do but to wait for the peer, and no end is due but one
\* that hanging handlers hold up.
Idle ==
  /\ channel = <<>> /\ staged = <<>> /\ \A o \in Ops : op[o] # "sending"
  /\ HandlersWait
  /\ ~TermFired
  /\ input = "eof" /\ NoClientLeft => HandlersHang

\* Nobody waits for this side.
Over == (\A o \in Ops : op[o] # "sending") /\ (\A c \in Calls : op[c] # "waiting")

\* A side that has ended has told all its callers.
LEMMA RestEnded ==
  ASSUME Laws, AtRest, phase # "running" PROVE Over
<1>1. ASSUME NEW o \in Ops, op[o] = "sending" PROVE FALSE
  BY <1>1 DEF AtRest, CanFail
<1>2. ASSUME NEW c \in Calls, op[c] = "waiting" PROVE FALSE
  <2>1. ~Owned(c) /\ c \notin idmap
    BY <1>2 DEF Laws, NoneOutlives, NoWaiterLeftBehind, Owned
  <2> QED
    BY <1>2, <2>1 DEF AtRest, CanResolve, Polled
<1> QED
  BY <1>1, <1>2 DEF Over

\* A side that runs and has nothing to write is idle, reads all that comes and waits for
\* answers to what it has written, unless it is starved.
LEMMA RestIdle ==
  ASSUME Laws, Comes, AtRest, phase = "running", staged = <<>>, ~Starved
  PROVE  /\ Idle /\ input \in {"reading", "eof"}
         /\ input = "reading" => incoming = <<>> /\ peer.phase = "running"
         /\ \A c \in Calls : op[c] = "waiting" => c \in idmap /\ c \notin reply /\ c \in wire
<1>1. CanPoll
  BY EndpointAssumption DEF CanPoll, EndpointAssumption
<1>2. channel = <<>> /\ (\A o \in Ops : op[o] # "sending") /\ HandlersWait
  BY <1>1, RestPolled
<1>3. ~TermFired
  <2> SUFFICES ASSUME TermFired PROVE FALSE
    OBVIOUS
  <2>1. NoClientLeft /\ ~ctl.sender /\ \A c \in Calls : op[c] # "waiting"
    BY DEF TermFired, Laws, WaitsAreSound
  <2>2. input = "reading"
    <3>1. Serving = {}
      BY <1>2, <2>1 DEF HandlersWait
    <3> QED
      BY <1>1, <2>1, <3>1, RestFlushes DEF HandlersHang
  <2>3. CanRead
    BY <1>1, <2>2, RestSlots
  <2> QED
    BY <2>3 DEF AtRest, CanStopReading
<1>4. ASSUME input = "eof", NoClientLeft PROVE HandlersHang
  <2>1. ~ctl.sender
    BY <1>4 DEF Laws, WaitsAreSound
  <2> QED
    BY <1>1, <1>4, <2>1, RestFlushes
<1>5. input \in {"reading", "eof"}
  BY <1>1, RestTerminated, RestFlushes DEF HandlersHang, Laws, TypeOK
<1>6. ASSUME input = "reading" PROVE incoming = <<>> /\ peer.phase = "running"
  BY <1>1, <1>6, RestSlots, RestTakes
<1>7. ASSUME NEW c \in Calls, op[c] = "waiting"
      PROVE  c \in idmap /\ c \notin reply /\ c \in wire
  <2>1. Polled(c)
    BY <1>1 DEF Polled
  <2>2. c \in idmap /\ c \notin reply
    BY <1>7, <2>1 DEF AtRest, CanResolve
  <2>3. c \in Ops /\ Accepted(c)
    BY <1>7, MessageSorts DEF Accepted
  <2>4. c \in InFlight
    BY <2>3 DEF Laws, Conserved
  <2> QED
    BY <1>2, <2>2, <2>4 DEF InFlight, Sent, Contents
<1> QED
  BY <1>2, <1>3, <1>4, <1>5, <1>6, <1>7 DEF Idle
=============================================================================
