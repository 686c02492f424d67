--------------------------- MODULE EndpointProofs ---------------------------
(***************************************************************************)
(* Proofs about Endpoint, for all sets of messages and all capacities.     *)
(***************************************************************************)
EXTENDS Endpoint, FiniteSetTheorems, TLAPS

\* How the sorts of messages include each other.
LEMMA MessageSorts ==
  /\ Calls \subseteq Ops /\ Notes \subseteq Ops
  /\ Ops \subseteq Messages /\ Answerable \subseteq Messages
  /\ Answerable \subseteq Inbound
  BY DEF Ops, Messages, Answerable, Inbound

\* What terminating and killing do to the control block.
LEMMA Stopped ==
  ASSUME NEW c \in Ctls
  PROVE  /\ Terminated(c) \in Ctls /\ Killed(c) \in Ctls
         /\ Terminated(c).stop /\ Killed(c).stop
         /\ ~Terminated(c).sender /\ ~Killed(c).sender
         /\ ~Terminated(c).terminator /\ ~Killed(c).killer
         /\ Terminated(c).killer = c.killer
         /\ Killed(c).terminator = c.terminator
  BY DEF Terminated, Killed, Cleanup, Ctls

\* What the sections of Next leave of the types.
LEMMA TypeUser == TypeOK /\ UserStep => TypeOK'
<1> USE EndpointAssumption, MessageSorts DEF EndpointAssumption
<1> SUFFICES ASSUME TypeOK, UserStep PROVE TypeOK'
  OBVIOUS
<1>1. CASE Terminate
  BY <1>1, Stopped DEF TypeOK, Terminate
<1>2. CASE Kill
  BY <1>2, Stopped DEF TypeOK, Kill
<1>3. CASE NewClient
  BY <1>3 DEF TypeOK, NewClient
<1>4. CASE CloneClient
  BY <1>4 DEF TypeOK, CloneClient
<1>5. CASE DropClient
  BY <1>5 DEF TypeOK, DropClient
<1>6. ASSUME NEW c \in Calls, UserCalls(c) PROVE TypeOK'
  BY <1>6 DEF TypeOK, UserCalls, Call, OpStates
<1>7. ASSUME NEW n \in Notes, UserNotifies(n) PROVE TypeOK'
  BY <1>7 DEF TypeOK, UserNotifies, Notify, OpStates
<1>8. ASSUME NEW o \in Ops, DropOp(o) PROVE TypeOK'
  BY <1>8 DEF TypeOK, DropOp, OpStates, Outcomes
<1> QED
  BY <1>1, <1>2, <1>3, <1>4, <1>5, <1>6, <1>7, <1>8 DEF UserStep

\* The futures of clients keep the types; the channel only takes what it has room
\* for.
LEMMA TypeFuture == TypeOK /\ FutureStep => TypeOK'
<1> USE EndpointAssumption, MessageSorts DEF EndpointAssumption
<1> SUFFICES ASSUME TypeOK, FutureStep PROVE TypeOK'
  OBVIOUS
<1>1. ASSUME NEW o \in Ops, SendAccepted(o) PROVE TypeOK'
  BY <1>1 DEF TypeOK, SendAccepted, ChannelHasRoom, OpStates
<1>2. ASSUME NEW o \in Ops, SendFailed(o) PROVE TypeOK'
  BY <1>2 DEF TypeOK, SendFailed, OpStates, Outcomes
<1>3. ASSUME NEW c \in Calls, NEW out \in Outcomes, Resolve(c, out) PROVE TypeOK'
  BY <1>3 DEF TypeOK, Resolve, Forget, OpStates
<1> QED
  BY <1>1, <1>2, <1>3 DEF FutureStep, GetAnswer, GetLost, TimesOut, Outcomes

\* The server half keeps the types; answers only go to a sink with room.
LEMMA TypeServer == TypeOK /\ ServerStep => TypeOK'
<1> USE EndpointAssumption, MessageSorts DEF EndpointAssumption
<1> SUFFICES ASSUME TypeOK, ServerStep PROVE TypeOK'
  OBVIOUS
<1>1. ASSUME NEW i \in Inbound, IgnoreMessage(i) PROVE TypeOK'
  BY <1>1 DEF TypeOK, IgnoreMessage
<1>2. ASSUME NEW i \in Inbound, ServeMessage(i) PROVE TypeOK'
  BY <1>2 DEF TypeOK, ServeMessage
<1>3. ASSUME NEW i \in Inbound, Complete(i) PROVE TypeOK'
  BY <1>3 DEF TypeOK, Complete, CanPoll, LosesClientsOf
<1>4. ASSUME NEW c \in Calls, ReceiveResponse(c) PROVE TypeOK'
  BY <1>4 DEF TypeOK, ReceiveResponse, Delivered
<1>5. ASSUME NEW i \in Inbound, NEW c \in Calls, HandlerCalls(i, c) PROVE TypeOK'
  BY <1>5 DEF TypeOK, HandlerCalls, Makes, Call, OpStates
<1>6. ASSUME NEW i \in Inbound, NEW n \in Notes, HandlerNotifies(i, n) PROVE TypeOK'
  BY <1>6 DEF TypeOK, HandlerNotifies, Makes, Notify, OpStates
<1>7. CASE ReadEof
  BY <1>7, Stopped DEF TypeOK, ReadEof, OnEof, ClearIdmap
<1>8. CASE ReadTerminator
  BY <1>8 DEF TypeOK, ReadTerminator
<1> QED
  BY <1>1, <1>2, <1>3, <1>4, <1>5, <1>6, <1>7, <1>8 DEF ServerStep

\* The task `transmitted` keeps the types, however it ends.
LEMMA TypeTask == TypeOK /\ TaskStep => TypeOK'
<1> USE EndpointAssumption, MessageSorts DEF EndpointAssumption
<1> SUFFICES ASSUME TypeOK, TaskStep PROVE TypeOK'
  OBVIOUS
<1>1. CASE SendQueued
  BY <1>1 DEF TypeOK, SendQueued, QueueIsPolled, CanPoll
<1>2. CASE Flush
  BY <1>2 DEF TypeOK, Flush
<1>3. ASSUME NEW why \in Phases, Finish(why) PROVE TypeOK'
  BY <1>3 DEF TypeOK, Finish, ClearIdmap, LosesClientsOf, OpStates, Outcomes
<1> QED
  BY <1>1, <1>2, <1>3
  DEF TaskStep, ReadError, WriteError, KillFires, Close, Phases

\* The types hold, and neither the channel nor the sink ever holds more than it
\* has room for.
THEOREM TypeCorrect == Spec => []TypeOK
<1>1. Init => TypeOK
  <2> SUFFICES ASSUME Init PROVE TypeOK
    OBVIOUS
  <2>1. ctl \in Ctls
    <3>1. Fresh \in Ctls
      BY DEF Fresh, Ctls
    <3> QED
      BY <3>1, Stopped DEF Init
  <2>2. channel \in Seq(Ops) /\ Len(channel) = 0
    BY DEF Init
  <2>3. staged \in Seq(Messages) /\ Len(staged) = 0
    BY DEF Init
  <2>4. op \in [Ops -> OpStates] /\ awaits \in [Inbound -> SUBSET Ops]
    BY DEF Init, OpStates
  <2> QED
    BY <2>1, <2>2, <2>3, <2>4, EndpointAssumption
    DEF EndpointAssumption, Init, TypeOK, Phases
<1>2. TypeOK /\ [Next]_vars => TypeOK'
  <2>1. TypeOK /\ UNCHANGED vars => TypeOK'
    BY DEF TypeOK, vars
  <2> QED
    BY <2>1, TypeUser, TypeFuture, TypeServer, TypeTask DEF Next
<1> QED
  BY <1>1, <1>2, PTL DEF Spec

-----------------------------------------------------------------------------
(* The messages.                                                           *)

Contents(s) == {s[k] : k \in DOMAIN s}

\* Appending adds one element to what a sequence holds.
LEMMA ContentsAppend ==
  ASSUME NEW S, NEW s \in Seq(S), NEW x \in S
  PROVE  Contents(Append(s, x)) = Contents(s) \cup {x}
<1>1. DOMAIN Append(s, x) = DOMAIN s \cup {Len(s) + 1}
  OBVIOUS
<1>2. \A k \in DOMAIN s : Append(s, x)[k] = s[k]
  OBVIOUS
<1>3. Append(s, x)[Len(s) + 1] = x
  OBVIOUS
<1> QED
  BY <1>1, <1>2, <1>3 DEF Contents

\* What a sequence holds is its head and what the rest of it holds.
LEMMA ContentsTail ==
  ASSUME NEW S, NEW s \in Seq(S), s # <<>>
  PROVE  Contents(s) = {Head(s)} \cup Contents(Tail(s))
<1>1. Len(s) \in Nat \ {0} /\ DOMAIN s = 1 .. Len(s) /\ DOMAIN Tail(s) = 1 .. Len(s) - 1
  OBVIOUS
<1>2. s[1] = Head(s) /\ \A k \in DOMAIN Tail(s) : Tail(s)[k] = s[k + 1]
  OBVIOUS
<1>3. ASSUME NEW x \in Contents(s) PROVE x \in {Head(s)} \cup Contents(Tail(s))
  <2>1. PICK k \in 1 .. Len(s) : x = s[k]
    BY <1>1, <1>3 DEF Contents
  <2>2. CASE k = 1
    BY <1>2, <2>1, <2>2
  <2>3. CASE k # 1
    <3>1. k - 1 \in DOMAIN Tail(s) /\ (k - 1) + 1 = k
      BY <1>1, <2>1, <2>3
    <3> QED
      BY <1>2, <2>1, <3>1 DEF Contents
  <2> QED
    BY <2>2, <2>3
<1>4. ASSUME NEW x \in {Head(s)} \cup Contents(Tail(s)) PROVE x \in Contents(s)
  <2>1. 1 \in DOMAIN s /\ \A k \in DOMAIN Tail(s) : k + 1 \in DOMAIN s
    BY <1>1
  <2> QED
    BY <1>2, <1>4, <2>1 DEF Contents
<1> QED
  BY <1>3, <1>4

\* What is on its way out: past the clients, and past the channel.
Sent == Contents(staged) \cup wire
InFlight == Contents(channel) \cup Sent

\* Nothing a client made is on its way before its sender has been told so.
OutIsSent == \A o \in Ops : op[o] \in {"idle", "sending"} => o \notin InFlight

\* Steps that put nothing new on its way and take no operation back keep OutIsSent.
LEMMA OutIsSentQuiet ==
  ASSUME TypeOK, OutIsSent, InFlight' \subseteq InFlight,
         \A o \in Ops : op'[o] \in {"idle", "sending"} => op[o] \in {"idle", "sending"}
  PROVE  OutIsSent'
  BY DEF OutIsSent

\* A message is in the channel, in the sink or on the wire only once the Send
\* future of its client has finished.
LEMMA OnlySentIsOut == Spec => []OutIsSent
<1>1. Init => OutIsSent
  BY DEF Init, OutIsSent, InFlight, Sent, Contents
<1>2. TypeOK /\ OutIsSent /\ [Next]_vars => OutIsSent'
  <2> SUFFICES ASSUME TypeOK, OutIsSent, [Next]_vars PROVE OutIsSent'
    OBVIOUS
  <2> USE MessageSorts
  <2>1. CASE UNCHANGED <<channel, staged, wire>> /\ ~(\E why : Finish(why))
    <3>1. InFlight' = InFlight
      BY <2>1 DEF InFlight, Sent, Contents
    <3>2. \A o \in Ops : op'[o] \in {"idle", "sending"} => op[o] \in {"idle", "sending"}
      BY <2>1
      DEF TypeOK, vars, Next, UserStep, Terminate, Kill, NewClient, CloneClient,
          DropClient, UserCalls, UserNotifies, Call, Notify, DropOp, FutureStep, SendAccepted, SendFailed,
          GetAnswer, GetLost, TimesOut, Resolve, ServerStep, IgnoreMessage,
          ServeMessage, Complete, ReceiveResponse, HandlerCalls, HandlerNotifies, ReadEof,
          ReadTerminator, TaskStep, SendQueued, Flush, ReadError, WriteError,
          KillFires, Close
    <3> QED
      BY <3>1, <3>2, OutIsSentQuiet
  <2>2. ASSUME NEW o \in Ops, SendAccepted(o) PROVE OutIsSent'
    <3>1. InFlight' = InFlight \cup {o}
      BY <2>2, ContentsAppend DEF SendAccepted, InFlight, Sent, TypeOK
    <3>2. op'[o] \in {"waiting", "sent"}
      BY <2>2 DEF SendAccepted, TypeOK
    <3>3. \A p \in Ops \ {o} : op'[p] = op[p]
      BY <2>2 DEF SendAccepted, TypeOK
    <3> QED
      BY <3>1, <3>2, <3>3 DEF OutIsSent
  <2>3. ASSUME NEW i \in Inbound, Complete(i) PROVE OutIsSent'
    <3>1. InFlight' \subseteq InFlight \cup {i}
      BY <2>3, ContentsAppend DEF Complete, InFlight, Sent, TypeOK
    <3> QED
      BY <2>3, <3>1, EndpointAssumption DEF Complete, OutIsSent, EndpointAssumption
  <2>4. CASE SendQueued
    <3>1. Contents(staged)' = Contents(staged) \cup {Head(channel)}
      BY <2>4, ContentsAppend DEF SendQueued, TypeOK
    <3>2. Contents(channel) = {Head(channel)} \cup Contents(channel)'
      BY <2>4, ContentsTail DEF SendQueued, TypeOK
    <3> QED
      BY <2>4, <3>1, <3>2, OutIsSentQuiet DEF SendQueued, InFlight, Sent
  <2>5. CASE Flush
    <3>1. Contents(staged) = {Head(staged)} \cup Contents(staged)'
      BY <2>5, ContentsTail DEF Flush, TypeOK
    <3> QED
      BY <2>5, <3>1, OutIsSentQuiet DEF Flush, InFlight, Sent
  <2>6. ASSUME NEW why, Finish(why) PROVE OutIsSent'
    <3>1. InFlight' \subseteq InFlight
      BY <2>6 DEF Finish, InFlight, Sent, Contents
    <3> QED
      BY <2>6, <3>1, OutIsSentQuiet DEF Finish
  <2>7. \/ UNCHANGED <<channel, staged, wire>>
        \/ \E o \in Ops : SendAccepted(o)
        \/ \E i \in Inbound : Complete(i)
        \/ SendQueued \/ Flush
        \/ \E why : Finish(why)
    BY DEF vars, Next, UserStep, Terminate, Kill, NewClient, CloneClient,
           DropClient, UserCalls, UserNotifies, Call, Notify, DropOp, FutureStep, SendFailed, GetAnswer,
           GetLost, TimesOut, Resolve, ServerStep, IgnoreMessage, ServeMessage,
           ReceiveResponse, HandlerCalls, HandlerNotifies, ReadEof, ReadTerminator, TaskStep,
           ReadError, WriteError, KillFires, Close
  <2> QED
    BY <2>1, <2>2, <2>3, <2>4, <2>5, <2>6, <2>7
<1> QED
  BY <1>1, <1>2, TypeCorrect, PTL DEF Spec

-----------------------------------------------------------------------------
(* The calls.                                                              *)

\* Every step by what it does to the calls: most do nothing to them.
LEMMA CallSteps ==
  ASSUME Next
  PROVE  \/ UNCHANGED <<phase, op, idmap, reply, Link>>
         \/ \E c \in Calls : \/ Call(c) \/ ReceiveResponse(c)
                             \/ GetAnswer(c) \/ GetLost(c) \/ TimesOut(c)
         \/ \E n \in Notes : Notify(n)
         \/ \E o \in Ops : DropOp(o) \/ SendAccepted(o) \/ SendFailed(o)
         \/ ReadEof
         \/ phase = "running" /\ \E why \in Phases \ {"running"} : Finish(why)
<1>1. CASE UserStep
  BY <1>1 DEF UserStep, Terminate, Kill, NewClient, CloneClient, DropClient, UserCalls,
              UserNotifies, Link
<1>2. CASE FutureStep
  BY <1>2 DEF FutureStep
<1>3. CASE ServerStep
  BY <1>3 DEF ServerStep, IgnoreMessage, ServeMessage, Complete, HandlerCalls,
              HandlerNotifies, ReadTerminator, CanRead, CanPoll, Link
<1>4. CASE TaskStep
  BY <1>4 DEF TaskStep, SendQueued, Flush, ReadError, WriteError, KillFires, Close,
              CanRead, CanPoll, Link, Phases
<1> QED
  BY <1>1, <1>2, <1>3, <1>4 DEF Next

\* However `transmitted` ends, no caller is left waiting for it.
THEOREM WaitersReleased == Spec => []NoWaiterLeftBehind
<1>1. Init => NoWaiterLeftBehind
  BY DEF Init, NoWaiterLeftBehind
<1>2. TypeOK /\ NoWaiterLeftBehind /\ [Next]_vars => NoWaiterLeftBehind'
  <2> SUFFICES ASSUME TypeOK, NoWaiterLeftBehind, Next PROVE NoWaiterLeftBehind'
    BY DEF NoWaiterLeftBehind, vars
  <2> USE MessageSorts DEF NoWaiterLeftBehind, TypeOK
  <2>1. CASE UNCHANGED <<phase, op, idmap, reply, Link>>
    BY <2>1
  <2>2. ASSUME NEW c \in Calls, Call(c) PROVE NoWaiterLeftBehind'
    BY <2>2 DEF Call
  <2>3. ASSUME NEW c \in Calls, ReceiveResponse(c) PROVE NoWaiterLeftBehind'
    BY <2>3 DEF ReceiveResponse
  <2>4. ASSUME NEW c \in Calls, NEW out \in Outcomes, Resolve(c, out)
        PROVE  NoWaiterLeftBehind'
    BY <2>4 DEF Resolve, Forget, Outcomes
  <2>5. ASSUME NEW n \in Notes, Notify(n) PROVE NoWaiterLeftBehind'
    BY <2>5 DEF Notify
  <2>6. ASSUME NEW o \in Ops, DropOp(o) \/ SendAccepted(o) \/ SendFailed(o)
        PROVE  NoWaiterLeftBehind'
    BY <2>6 DEF DropOp, SendAccepted, SendFailed
  <2>7. CASE ReadEof
    BY <2>7 DEF ReadEof, ClearIdmap
  <2>8. ASSUME NEW why \in Phases, Finish(why) PROVE NoWaiterLeftBehind'
    BY <2>8 DEF Finish, ClearIdmap
  <2> QED
    BY <2>1, <2>2, <2>3, <2>4, <2>5, <2>6, <2>7, <2>8, CallSteps
    DEF GetAnswer, GetLost, TimesOut, Outcomes
<1> QED
  BY <1>1, <1>2, TypeCorrect, PTL DEF Spec

\* A response is kept for a caller only by taking the id out of the idmap.
ReplyIsTaken == \A c \in reply : c \notin idmap /\ op[c] = "waiting"

\* No call that came to an end is left in the idmap.
THEOREM NothingStale == Spec => [](ReplyIsTaken /\ NoStaleEntry)
<1> DEFINE Inv == ReplyIsTaken /\ NoStaleEntry
<1>1. Init => Inv
  BY DEF Init, ReplyIsTaken, NoStaleEntry
<1>2. TypeOK /\ OutIsSent /\ Inv /\ [Next]_vars => Inv'
  <2> SUFFICES ASSUME TypeOK, OutIsSent, Inv, Next PROVE Inv'
    BY DEF ReplyIsTaken, NoStaleEntry, Pending, vars
  <2> USE MessageSorts DEF ReplyIsTaken, NoStaleEntry, Pending, TypeOK
  <2>1. CASE UNCHANGED <<phase, op, idmap, reply, Link>>
    BY <2>1
  <2>2. ASSUME NEW c \in Calls, Call(c) PROVE Inv'
    BY <2>2 DEF Call
  <2>3. ASSUME NEW c \in Calls, ReceiveResponse(c) PROVE Inv'
    BY <2>3 DEF ReceiveResponse, Delivered, OutIsSent, InFlight, Sent
  <2>4. ASSUME NEW c \in Calls, NEW out \in Outcomes, Resolve(c, out),
               c \in idmap => c \in Timed
        PROVE  Inv'
    BY <2>4 DEF Resolve, Forget, Outcomes
  <2>5. ASSUME NEW n \in Notes, Notify(n) PROVE Inv'
    BY <2>5, EndpointAssumption DEF Notify, EndpointAssumption
  <2>6. ASSUME NEW o \in Ops, DropOp(o) \/ SendAccepted(o) PROVE Inv'
    BY <2>6 DEF DropOp, SendAccepted
  <2>7. ASSUME NEW o \in Ops, SendFailed(o) PROVE Inv'
    BY <2>7 DEF SendFailed
  <2>8. CASE ReadEof
    BY <2>8 DEF ReadEof, ClearIdmap
  <2>9. ASSUME NEW why \in Phases, Finish(why) PROVE Inv'
    BY <2>9 DEF Finish, ClearIdmap
  <2> QED
    BY <2>1, <2>2, <2>3, <2>4, <2>5, <2>6, <2>7, <2>8, <2>9, CallSteps
    DEF GetAnswer, GetLost, TimesOut, Outcomes
<1> QED
  BY <1>1, <1>2, TypeCorrect, OnlySentIsOut, PTL DEF Spec

-----------------------------------------------------------------------------
(* Stopping.                                                               *)

\* The flag and the options of the control block go together.
CtlConsistent ==
  /\ ~ctl.stop => ctl.terminator /\ ctl.sender
  /\ ~ctl.killer => ~ctl.sender
  /\ phase \in {"closed", "killed"} => ~ctl.sender

\* Every step by what it does to the control block.
LEMMA CtlSteps ==
  ASSUME Next
  PROVE  \/ UNCHANGED <<phase, ctl>>
         \/ phase' = phase /\ (ctl' = Terminated(ctl) \/ ctl' = Killed(ctl))
         \/ ctl' = ctl /\ phase' = "failed"
         \/ ctl' = ctl /\ phase' = "killed" /\ ~ctl.killer
         \/ ctl' = ctl /\ phase' = "closed" /\ ~ctl.sender
<1>1. CASE UserStep
  BY <1>1 DEF UserStep, Terminate, Kill, NewClient, CloneClient, DropClient, UserCalls, UserNotifies, Call,
              Notify, DropOp
<1>2. CASE FutureStep
  BY <1>2 DEF FutureStep, SendAccepted, SendFailed, GetAnswer, GetLost, TimesOut,
              Resolve
<1>3. CASE ServerStep
  BY <1>3 DEF ServerStep, IgnoreMessage, ServeMessage, Complete, ReceiveResponse,
              HandlerCalls, HandlerNotifies, Call, Notify, ReadEof, OnEof, ReadTerminator
<1>4. CASE TaskStep
  BY <1>4 DEF TaskStep, SendQueued, Flush, ReadError, WriteError, KillFires, Close,
              Finish, KillSeen, OutboundEnded, SendersGone
<1> QED
  BY <1>1, <1>2, <1>3, <1>4 DEF Next

\* The control block is never in two minds.
LEMMA CtlStaysConsistent == Spec => []CtlConsistent
<1>1. Init => CtlConsistent
  <2> SUFFICES ASSUME Init PROVE CtlConsistent
    OBVIOUS
  <2>1. Fresh \in Ctls /\ Fresh.terminator /\ Fresh.sender /\ Fresh.killer
    BY DEF Fresh, Ctls
  <2> QED
    BY <2>1, Stopped DEF Init, CtlConsistent
<1>2. TypeOK /\ CtlConsistent /\ [Next]_vars => CtlConsistent'
  <2> SUFFICES ASSUME TypeOK, CtlConsistent, [Next]_vars PROVE CtlConsistent'
    OBVIOUS
  <2>1. CASE UNCHANGED <<phase, ctl>>
    BY <2>1 DEF CtlConsistent
  <2>2. CASE phase' = phase /\ (ctl' = Terminated(ctl) \/ ctl' = Killed(ctl))
    BY <2>2, Stopped DEF CtlConsistent, TypeOK
  <2>3. CASE ctl' = ctl /\ (phase' = "failed" \/ ~ctl.sender)
    BY <2>3 DEF CtlConsistent
  <2> QED
    BY <2>1, <2>2, <2>3, CtlSteps DEF CtlConsistent, vars
<1> QED
  BY <1>1, <1>2, TypeCorrect, PTL DEF Spec

\* A callback may unwrap the client it asks for.
THEOREM ClientsForCallbacks == Spec => []CallbackMayUnwrap
<1>1. CtlConsistent => CallbackMayUnwrap
  BY DEF CtlConsistent, CallbackMayUnwrap, ClientAvailable
<1> QED
  BY <1>1, CtlStaysConsistent, PTL

\* An endpoint that came to an end of its own or was killed gives no client.
THEOREM ClientsRefused == Spec => []EndRefusesClients
<1>1. CtlConsistent => EndRefusesClients
  BY DEF CtlConsistent, EndRefusesClients, ClientAvailable
<1> QED
  BY <1>1, CtlStaysConsistent, PTL

\* What ends the input, and what ends the task in order.
LEMMA InputSteps ==
  ASSUME Next
  PROVE  /\ input' = input \/ ReadTerminator \/ ReadEof
         /\ phase = "running" /\ phase' = "closed" => Close
<1>1. CASE UserStep \/ FutureStep \/ ServerStep
  BY <1>1 DEF UserStep, Terminate, Kill, NewClient, CloneClient, DropClient, UserCalls, UserNotifies, Call,
              Notify, DropOp, FutureStep, SendAccepted, SendFailed, GetAnswer, GetLost,
              TimesOut, Resolve, ServerStep, IgnoreMessage, ServeMessage, Complete,
              ReceiveResponse, HandlerCalls, HandlerNotifies, ReadTerminator, ReadEof
<1>2. CASE TaskStep
  BY <1>2 DEF TaskStep, SendQueued, Flush, ReadError, WriteError, KillFires, Close,
              Finish
<1> QED
  BY <1>1, <1>2 DEF Next

\* What ends reading for want of clients is final.
THEOREM TerminationFinal == Spec => []TerminatedMeansUnwanted
<1>1. Init => TerminatedMeansUnwanted
  BY DEF Init, TerminatedMeansUnwanted
<1>2. TypeOK /\ TerminatedMeansUnwanted /\ [Next]_vars => TerminatedMeansUnwanted'
  <2> SUFFICES ASSUME TypeOK, TerminatedMeansUnwanted, [Next]_vars,
                      input' = "terminated"
               PROVE  TerminatedMeansUnwanted'
    BY DEF TerminatedMeansUnwanted
  <2> USE MessageSorts DEF TerminatedMeansUnwanted, NoClientLeft, TypeOK
  <2>1. CASE UNCHANGED vars
    BY <2>1 DEF ClientAvailable, vars
  <2>2. CASE ReadTerminator
    BY <2>2 DEF ReadTerminator, TermFired, ClientAvailable
  <2>3. CASE Next /\ input = "terminated"
    <3>1. ~ClientAvailable'
      BY <2>3, CtlSteps, Stopped DEF ClientAvailable
    <3>2. CASE UserStep
      BY <2>3, <3>1, <3>2
      DEF UserStep, Terminate, Kill, NewClient, CloneClient, DropClient, UserCalls, UserNotifies, Call,
          Notify, DropOp, Pending
    <3>3. CASE FutureStep
      BY <2>3, <3>1, <3>3
      DEF FutureStep, SendAccepted, SendFailed, GetAnswer, GetLost, TimesOut, Resolve
    <3>4. CASE ServerStep
      BY <2>3, <3>1, <3>4
      DEF ServerStep, IgnoreMessage, ServeMessage, Complete, ReceiveResponse,
          HandlerCalls, HandlerNotifies, Call, Notify, LosesClientsOf, ReadEof,
          ReadTerminator, CanRead
    <3>5. CASE TaskStep
      BY <2>3, <3>1, <3>5
      DEF TaskStep, SendQueued, Flush, ReadError, WriteError, KillFires, Close, Finish,
          LosesClientsOf
    <3> QED
      BY <2>3, <3>2, <3>3, <3>4, <3>5 DEF Next
  <2> QED
    BY <2>1, <2>2, <2>3, InputSteps DEF ReadEof
<1> QED
  BY <1>1, <1>2, TypeCorrect, PTL DEF Spec

\* A call finds its connection lost only after the end of the input, unless the
\* endpoint was cut off.
LostOnlyByEof ==
  phase \notin {"killed", "failed"} =>
    \A c \in Calls :
      op[c] = "lost" \/ (Pending(c) /\ c \notin idmap /\ c \notin reply) => input = "eof"

\* No response makes a call lose its connection, and neither does an orderly end
\* that was asked for.
LEMMA LostByEof == Spec => []LostOnlyByEof
<1>1. Init => LostOnlyByEof
  BY MessageSorts DEF Init, LostOnlyByEof, Pending
<1>2. /\ TypeOK /\ OutIsSent /\ TerminatedMeansUnwanted
      /\ LostOnlyByEof /\ [Next]_vars
      => LostOnlyByEof'
  <2> SUFFICES ASSUME TypeOK, OutIsSent, TerminatedMeansUnwanted, LostOnlyByEof, Next
               PROVE  LostOnlyByEof'
    BY DEF LostOnlyByEof, Pending, vars
  <2> USE MessageSorts DEF LostOnlyByEof, Pending, TypeOK
  <2>1. CASE UNCHANGED <<phase, op, idmap, reply, Link>>
    BY <2>1, InputSteps DEF ReadEof, ReadTerminator, CanRead
  <2>2. ASSUME NEW c \in Calls, Call(c) PROVE LostOnlyByEof'
    BY <2>2 DEF Call
  <2>3. ASSUME NEW c \in Calls, ReceiveResponse(c) PROVE LostOnlyByEof'
    BY <2>3 DEF ReceiveResponse, Delivered
  <2>4. ASSUME NEW c \in Calls, NEW out \in Outcomes, Resolve(c, out),
               out = "lost" => c \notin idmap /\ c \notin reply
        PROVE  LostOnlyByEof'
    BY <2>4 DEF Resolve, Forget, Outcomes
  <2>5. ASSUME NEW n \in Notes, Notify(n) PROVE LostOnlyByEof'
    BY <2>5, EndpointAssumption DEF Notify, EndpointAssumption
  <2>6. ASSUME NEW o \in Ops, DropOp(o) \/ SendFailed(o) PROVE LostOnlyByEof'
    BY <2>6 DEF DropOp, SendFailed
  <2>7. ASSUME NEW o \in Ops, SendAccepted(o) PROVE LostOnlyByEof'
    BY <2>7 DEF SendAccepted
  <2>8. CASE ReadEof
    BY <2>8 DEF ReadEof
  <2>9. ASSUME NEW why \in {"failed", "killed"}, Finish(why) PROVE LostOnlyByEof'
    BY <2>9 DEF Finish
  <2>10. CASE Close
    <3>1. input' = input /\ input # "reading"
      BY <2>10 DEF Close, OutboundEnded, Finish
    <3>2. CASE input = "eof"
      BY <3>1, <3>2
    <3>3. CASE input = "terminated"
      BY <2>10, <3>1, <3>3
      DEF Close, Finish, TerminatedMeansUnwanted, NoClientLeft
    <3> QED
      BY <3>1, <3>2, <3>3
  <2>11. ASSUME NEW why \in Phases \ {"running"}, phase = "running", Finish(why)
         PROVE  LostOnlyByEof'
    BY <2>9, <2>10, <2>11, InputSteps DEF Finish, Phases
  <2> QED
    BY <2>1, <2>2, <2>3, <2>4, <2>5, <2>6, <2>7, <2>8, <2>11, CallSteps
    DEF GetAnswer, GetLost, TimesOut, Outcomes
<1> QED
  BY <1>1, <1>2, TypeCorrect, OnlySentIsOut, TerminationFinal, PTL DEF Spec

-----------------------------------------------------------------------------
(* What is delivered.                                                      *)

Accepted(o) == op[o] \in {"waiting", "sent", "answered", "timeout", "lost"}

\* Until the endpoint fails or is killed nothing that entered it is missing, and
\* one that has ended has nothing left to write.
Conserved ==
  /\ phase \in {"running", "closed"} =>
       /\ \A o \in Ops : Accepted(o) => o \in InFlight
       /\ \A i \in Answerable : inbound[i] = "done" => i \in Sent
       /\ \A i \in Inbound : inbound[i] # "cancelled"
  /\ phase # "running" => channel = <<>> /\ staged = <<>>

\* Steps that leave the messages alone, and accept none.
LEMMA ConservedQuiet ==
  ASSUME TypeOK, Conserved, UNCHANGED <<phase, channel, staged, wire>>,
         \A o \in Ops : Accepted(o)' => Accepted(o),
         \A i \in Inbound : inbound'[i] \in {"done", "cancelled"} => inbound[i] = inbound'[i]
  PROVE  Conserved'
  BY MessageSorts DEF Conserved, InFlight, Sent, Contents

\* What users of the endpoint do loses no message.
LEMMA ConservedUser == TypeOK /\ Conserved /\ UserStep => Conserved'
  BY ConservedQuiet
  DEF UserStep, Terminate, Kill, NewClient, CloneClient, DropClient, UserCalls, UserNotifies, Call, Notify,
      DropOp, Accepted, TypeOK, Ops

\* A message that is accepted is in the channel.
LEMMA ConservedFuture == TypeOK /\ Conserved /\ FutureStep => Conserved'
<1> SUFFICES ASSUME TypeOK, Conserved, FutureStep PROVE Conserved'
  OBVIOUS
<1> USE MessageSorts
<1>1. ASSUME NEW o \in Ops, SendAccepted(o) PROVE Conserved'
  <2>1. Contents(channel)' = Contents(channel) \cup {o}
    BY <1>1, ContentsAppend DEF SendAccepted, TypeOK
  <2>2. \A p \in Ops : Accepted(p)' => Accepted(p) \/ p = o
    BY <1>1 DEF SendAccepted, Accepted, TypeOK
  <2> QED
    BY <1>1, <2>1, <2>2 DEF SendAccepted, Conserved, InFlight, Sent
<1>2. ASSUME NEW o \in Ops, SendFailed(o) PROVE Conserved'
  BY <1>2, ConservedQuiet DEF SendFailed, Accepted, TypeOK
<1>3. ASSUME NEW c \in Calls, NEW out \in Outcomes, Resolve(c, out) PROVE Conserved'
  BY <1>3, ConservedQuiet DEF Resolve, Accepted, TypeOK
<1> QED
  BY <1>1, <1>2, <1>3 DEF FutureStep, GetAnswer, GetLost, TimesOut, Outcomes

\* An answer goes to the sink before its handler counts as done.
LEMMA ConservedServer == TypeOK /\ Conserved /\ ServerStep => Conserved'
<1> SUFFICES ASSUME TypeOK, Conserved, ServerStep PROVE Conserved'
  OBVIOUS
<1> USE MessageSorts
<1>1. ASSUME NEW i \in Inbound, IgnoreMessage(i) \/ ServeMessage(i) PROVE Conserved'
  BY <1>1, ConservedQuiet DEF IgnoreMessage, ServeMessage, Accepted, TypeOK
<1>2. ASSUME NEW i \in Inbound, Complete(i) PROVE Conserved'
  <2>1. Sent \subseteq Sent' /\ (i \in Answerable => i \in Sent')
    BY <1>2, ContentsAppend DEF Complete, Sent, TypeOK
  <2> QED
    BY <1>2, <2>1 DEF Complete, CanPoll, Conserved, InFlight, Accepted, TypeOK
<1>3. ASSUME NEW c \in Calls, ReceiveResponse(c) PROVE Conserved'
  BY <1>3, ConservedQuiet DEF ReceiveResponse, Accepted
<1>4. ASSUME NEW i \in Inbound, NEW c \in Calls, HandlerCalls(i, c) PROVE Conserved'
  BY <1>4, ConservedQuiet DEF HandlerCalls, Call, Accepted, TypeOK
<1>5. ASSUME NEW i \in Inbound, NEW n \in Notes, HandlerNotifies(i, n) PROVE Conserved'
  BY <1>5, ConservedQuiet DEF HandlerNotifies, Notify, Accepted, TypeOK
<1>6. CASE ReadEof \/ ReadTerminator
  BY <1>6, ConservedQuiet DEF ReadEof, ReadTerminator, Accepted
<1> QED
  BY <1>1, <1>2, <1>3, <1>4, <1>5, <1>6 DEF ServerStep

\* From the channel to the sink, from the sink to the wire: the task loses none
\* unless it fails or is killed.
LEMMA ConservedTask == TypeOK /\ Conserved /\ TaskStep => Conserved'
<1> SUFFICES ASSUME TypeOK, Conserved, TaskStep PROVE Conserved'
  OBVIOUS
<1> USE MessageSorts
<1>1. CASE SendQueued
  <2>1. Contents(staged)' = Contents(staged) \cup {Head(channel)}
    BY <1>1, ContentsAppend DEF SendQueued, TypeOK
  <2>2. Contents(channel) = {Head(channel)} \cup Contents(channel)'
    BY <1>1, ContentsTail DEF SendQueued, TypeOK
  <2> QED
    BY <1>1, <2>1, <2>2
    DEF SendQueued, QueueIsPolled, CanPoll, Conserved, InFlight, Sent, Accepted
<1>2. CASE Flush
  <2>1. Contents(staged) = {Head(staged)} \cup Contents(staged)'
    BY <1>2, ContentsTail DEF Flush, TypeOK
  <2> QED
    BY <1>2, <2>1 DEF Flush, Conserved, InFlight, Sent, Accepted
<1>3. CASE Close
  <2>1. op' = op /\ inbound' = inbound
    BY <1>3 DEF Close, Finish, OutboundEnded, Serving, Owned, TypeOK
  <2> QED
    BY <1>3, <2>1
    DEF Close, Finish, OutboundEnded, Conserved, InFlight, Sent, Contents, Accepted
<1>4. ASSUME NEW why \in {"failed", "killed"}, Finish(why) PROVE Conserved'
  BY <1>4 DEF Finish, Conserved
<1> QED
  BY <1>1, <1>2, <1>3, <1>4 DEF TaskStep, ReadError, WriteError, KillFires

\* Nothing is missing at any time.
LEMMA AllConserved == Spec => []Conserved
<1>1. Init => Conserved
  BY MessageSorts DEF Init, Conserved, Accepted
<1>2. TypeOK /\ Conserved /\ [Next]_vars => Conserved'
  <2>1. TypeOK /\ Conserved /\ UNCHANGED vars => Conserved'
    BY ConservedQuiet DEF vars, Accepted
  <2> QED
    BY <2>1, ConservedUser, ConservedFuture, ConservedServer, ConservedTask DEF Next
<1> QED
  BY <1>1, <1>2, TypeCorrect, PTL DEF Spec

\* An orderly end of the endpoint has delivered everything.
THEOREM NothingLost == Spec => []GracefulCloseDelivers
<1>1. Conserved => GracefulCloseDelivers
  BY DEF Conserved, GracefulCloseDelivers, InFlight, Sent, Contents, Accepted
<1> QED
  BY <1>1, AllConserved, PTL

\* What answers a message is on its way only once its handler is done.
OnlyDoneIsSent == \A i \in Answerable : i \in Sent => inbound[i] = "done"

LEMMA AnswersAreDone == Spec => []OnlyDoneIsSent
<1>1. Init => OnlyDoneIsSent
  BY DEF Init, OnlyDoneIsSent, Sent, Contents
<1>2. TypeOK /\ OnlyDoneIsSent /\ [Next]_vars => OnlyDoneIsSent'
  <2> SUFFICES ASSUME TypeOK, OnlyDoneIsSent, [Next]_vars PROVE OnlyDoneIsSent'
    OBVIOUS
  <2> USE MessageSorts DEF OnlyDoneIsSent
  <2>1. CASE UNCHANGED <<staged, wire, inbound>>
    BY <2>1 DEF Sent, Contents
  <2>2. ASSUME NEW i \in Inbound, IgnoreMessage(i) \/ ServeMessage(i)
        PROVE  OnlyDoneIsSent'
    BY <2>2 DEF IgnoreMessage, ServeMessage, Sent, Contents, TypeOK
  <2>3. ASSUME NEW i \in Inbound, Complete(i) PROVE OnlyDoneIsSent'
    <3>1. Sent' \subseteq Sent \cup {i}
      BY <2>3, ContentsAppend DEF Complete, Sent, TypeOK
    <3> QED
      BY <2>3, <3>1 DEF Complete, TypeOK
  <2>4. CASE SendQueued
    <3>1. Sent' = Sent \cup {Head(channel)} /\ Head(channel) \in Ops
      BY <2>4, ContentsAppend DEF SendQueued, Sent, TypeOK
    <3> QED
      BY <2>4, <3>1, EndpointAssumption DEF SendQueued, EndpointAssumption
  <2>5. CASE Flush
    <3>1. Sent' = Sent
      BY <2>5, ContentsTail DEF Flush, Sent, TypeOK
    <3> QED
      BY <2>5, <3>1 DEF Flush
  <2>6. ASSUME NEW why, Finish(why) PROVE OnlyDoneIsSent'
    BY <2>6 DEF Finish, Sent, Contents, Serving
  <2>7. \/ UNCHANGED <<staged, wire, inbound>>
        \/ \E i \in Inbound : IgnoreMessage(i) \/ ServeMessage(i) \/ Complete(i)
        \/ SendQueued \/ Flush
        \/ \E why : Finish(why)
    BY DEF vars, Next, UserStep, Terminate, Kill, NewClient, CloneClient,
           DropClient, UserCalls, UserNotifies, Call, Notify, DropOp, FutureStep, SendAccepted, SendFailed,
           GetAnswer, GetLost, TimesOut, Resolve, ServerStep, ReceiveResponse,
           HandlerCalls, HandlerNotifies, ReadEof, ReadTerminator, TaskStep, ReadError, WriteError,
           KillFires, Close
  <2> QED
    BY <2>1, <2>2, <2>3, <2>4, <2>5, <2>6, <2>7
<1> QED
  BY <1>1, <1>2, TypeCorrect, PTL DEF Spec

-----------------------------------------------------------------------------
(* What is on its way out is there once.                                   *)

\* A new element at the end of a sequence.
LEMMA AppendOnce ==
  ASSUME NEW S, NEW s \in Seq(S), NEW x \in S, IsInjective(s), x \notin Contents(s)
  PROVE  IsInjective(Append(s, x))
<1>1. DOMAIN Append(s, x) = DOMAIN s \cup {Len(s) + 1} /\ Append(s, x)[Len(s) + 1] = x
  OBVIOUS
<1>2. \A k \in DOMAIN s : Append(s, x)[k] = s[k] /\ s[k] # x
  BY DEF Contents
<1> QED
  BY <1>1, <1>2 DEF IsInjective

\* The head of a sequence of different elements is taken out of it.
LEMMA TailOnce ==
  ASSUME NEW S, NEW s \in Seq(S), s # <<>>, IsInjective(s)
  PROVE  IsInjective(Tail(s)) /\ Head(s) \notin Contents(Tail(s))
<1>1. /\ Len(s) \in Nat \ {0} /\ DOMAIN s = 1 .. Len(s) /\ DOMAIN Tail(s) = 1 .. Len(s) - 1
      /\ s[1] = Head(s) /\ \A k \in DOMAIN Tail(s) : Tail(s)[k] = s[k + 1]
  OBVIOUS
<1>2. \A k \in DOMAIN Tail(s) : k + 1 \in DOMAIN s /\ 1 \in DOMAIN s /\ k + 1 # 1
  BY <1>1
<1>3. \A k, l \in DOMAIN Tail(s) : k + 1 = l + 1 => k = l
  BY <1>1
<1> QED
  BY <1>1, <1>2, <1>3 DEF IsInjective, Contents

\* Whatever enters the channel or the sink is in neither, and has not left them before.
OutOnce ==
  /\ IsInjective(channel) /\ IsInjective(staged)
  /\ Contents(channel) \cap Sent = {}
  /\ Contents(staged) \cap wire = {}

\* The steps that touch what is on its way.
LEMMA OutSteps ==
  Next => \/ UNCHANGED <<channel, staged, wire>>
          \/ \E o \in Ops : SendAccepted(o)
          \/ \E i \in Inbound : Complete(i)
          \/ SendQueued \/ Flush
          \/ \E why : Finish(why)
  BY DEF vars, Next, UserStep, Terminate, Kill, NewClient, CloneClient,
         DropClient, UserCalls, UserNotifies, Call, Notify, DropOp, FutureStep, SendFailed,
         GetAnswer, GetLost, TimesOut, Resolve, ServerStep, ReceiveResponse, IgnoreMessage,
         ServeMessage, HandlerCalls, HandlerNotifies, ReadEof, ReadTerminator, TaskStep, ReadError,
         WriteError, KillFires, Close

\* No message is sent twice: clients, handlers and responses put nothing into the channel or
\* the sink that is there already or was written before.
THEOREM AllOutOnce == Spec => []OutOnce
<1>1. Init => OutOnce
  BY DEF Init, OutOnce, Sent, Contents, IsInjective
<1>2. TypeOK /\ OutIsSent /\ OnlyDoneIsSent /\ OutOnce /\ [Next]_vars => OutOnce'
  <2> SUFFICES ASSUME TypeOK, OutIsSent, OnlyDoneIsSent, OutOnce, [Next]_vars PROVE OutOnce'
    OBVIOUS
  <2> USE MessageSorts
  <2>1. CASE UNCHANGED <<channel, staged, wire>>
    BY <2>1 DEF OutOnce, Sent, Contents, IsInjective
  <2>2. ASSUME NEW o \in Ops, SendAccepted(o) PROVE OutOnce'
    <3>1. channel' = Append(channel, o) /\ UNCHANGED <<staged, wire>> /\ channel \in Seq(Ops)
      BY <2>2 DEF SendAccepted, TypeOK
    <3>2. o \notin Contents(channel) /\ o \notin Sent
      BY <2>2 DEF SendAccepted, OutIsSent, InFlight
    <3>3. IsInjective(channel') /\ Contents(channel)' = Contents(channel) \cup {o}
      BY <3>1, <3>2, AppendOnce, ContentsAppend DEF OutOnce
    <3>4. Sent' = Sent /\ Contents(staged)' = Contents(staged)
      BY <3>1 DEF Sent, Contents
    <3> QED
      BY <3>1, <3>2, <3>3, <3>4 DEF OutOnce
  <2>3. ASSUME NEW i \in Inbound, Complete(i) PROVE OutOnce'
    <3>1. CASE staged' = staged
      BY <2>3, <3>1 DEF Complete, OutOnce, Sent, Contents
    <3>2. CASE i \in Answerable
      <4>1. staged' = Append(staged, i) /\ UNCHANGED <<channel, wire>> /\ staged \in Seq(Messages)
        BY <2>3, <3>2 DEF Complete, TypeOK
      <4>2. i \notin Sent
        BY <2>3, <3>2 DEF Complete, OnlyDoneIsSent
      <4>3. IsInjective(staged') /\ Contents(staged)' = Contents(staged) \cup {i}
        BY <3>2, <4>1, <4>2, AppendOnce, ContentsAppend DEF OutOnce, Sent
      <4>4. Contents(channel)' = Contents(channel) /\ Contents(channel) \subseteq Ops
        BY <4>1 DEF Contents, TypeOK
      <4>5. i \notin Ops
        BY EndpointAssumption DEF EndpointAssumption
      <4> QED
        BY <4>1, <4>2, <4>3, <4>4, <4>5 DEF OutOnce, Sent
    <3> QED
      BY <2>3, <3>1, <3>2 DEF Complete
  <2>4. CASE SendQueued
    <3>1. /\ channel \in Seq(Ops) /\ channel # <<>> /\ staged \in Seq(Messages)
          /\ channel' = Tail(channel) /\ staged' = Append(staged, Head(channel))
          /\ wire' = wire /\ Head(channel) \in Messages
      BY <2>4 DEF SendQueued, TypeOK
    <3>2. /\ IsInjective(channel') /\ Head(channel) \notin Contents(channel)'
          /\ Contents(channel) = {Head(channel)} \cup Contents(channel)'
      BY <3>1, TailOnce, ContentsTail DEF OutOnce
    <3>3. Head(channel) \notin Contents(staged) /\ Head(channel) \notin wire
      BY <3>2 DEF OutOnce, Sent
    <3>4. IsInjective(staged') /\ Contents(staged)' = Contents(staged) \cup {Head(channel)}
      BY <3>1, <3>3, AppendOnce, ContentsAppend DEF OutOnce
    <3> QED
      BY <3>1, <3>2, <3>3, <3>4 DEF OutOnce, Sent
  <2>5. CASE Flush
    <3>1. /\ staged \in Seq(Messages) /\ staged # <<>> /\ staged' = Tail(staged)
          /\ wire' = wire \cup {Head(staged)} /\ channel' = channel
      BY <2>5 DEF Flush, TypeOK
    <3>2. /\ IsInjective(staged') /\ Head(staged) \notin Contents(staged)'
          /\ Contents(staged) = {Head(staged)} \cup Contents(staged)'
      BY <3>1, TailOnce, ContentsTail DEF OutOnce
    <3>3. Contents(channel)' = Contents(channel)
      BY <3>1 DEF Contents
    <3> QED
      BY <3>1, <3>2, <3>3 DEF OutOnce, Sent
  <2>6. ASSUME NEW why, Finish(why) PROVE OutOnce'
    BY <2>6 DEF Finish, OutOnce, Sent, Contents, IsInjective
  <2> QED
    BY <2>1, <2>2, <2>3, <2>4, <2>5, <2>6, OutSteps DEF vars
<1> QED
  BY <1>1, <1>2, TypeCorrect, OnlySentIsOut, AnswersAreDone, PTL DEF Spec

\* The end of the task is the end of the handlers.
NoneOutlives == phase # "running" => Serving = {}

\* No handler outlives the task.
LEMMA HandlersEnd == Spec => []NoneOutlives
<1>1. Init => NoneOutlives
  BY DEF Init, NoneOutlives
<1>2. TypeOK /\ NoneOutlives /\ [Next]_vars => NoneOutlives'
  <2> SUFFICES ASSUME TypeOK, NoneOutlives, [Next]_vars PROVE NoneOutlives'
    OBVIOUS
  <2>1. CASE UNCHANGED <<phase, inbound>>
    BY <2>1 DEF NoneOutlives, Serving
  <2>2. ASSUME NEW i \in Inbound, IgnoreMessage(i) \/ ServeMessage(i) \/ Complete(i)
        PROVE  NoneOutlives'
    BY <2>2 DEF IgnoreMessage, ServeMessage, Complete, CanRead, CanPoll, NoneOutlives
  <2>3. ASSUME NEW why, Finish(why) PROVE NoneOutlives'
    BY <2>3 DEF Finish, NoneOutlives, Serving
  <2>4. \/ UNCHANGED <<phase, inbound>>
        \/ \E i \in Inbound : IgnoreMessage(i) \/ ServeMessage(i) \/ Complete(i)
        \/ \E why : Finish(why)
    BY DEF vars, Next, UserStep, Terminate, Kill, NewClient, CloneClient,
           DropClient, UserCalls, UserNotifies, Call, Notify, DropOp, FutureStep, SendAccepted, SendFailed,
           GetAnswer, GetLost, TimesOut, Resolve, ServerStep, ReceiveResponse,
           HandlerCalls, HandlerNotifies, ReadEof, ReadTerminator, TaskStep, SendQueued, Flush, ReadError,
           WriteError, KillFires, Close
  <2> QED
    BY <2>1, <2>2, <2>3, <2>4
<1> QED
  BY <1>1, <1>2, TypeCorrect, PTL DEF Spec

-----------------------------------------------------------------------------
(* The bound on parallel work.                                             *)

\* Steps that start no handler.
LEMMA NoneStarted ==
  ASSUME ParallelBound, TypeOK,
         \A i \in Inbound : inbound'[i] = "running" => inbound[i] = "running"
  PROVE  ParallelBound'
<1>1. Serving' \subseteq Serving /\ IsFiniteSet(Serving)
  BY EndpointAssumption, FS_Subset DEF EndpointAssumption, Serving
<1>2. Cardinality(Serving') <= Cardinality(Serving)
      /\ Cardinality(Serving') \in Nat /\ Cardinality(Serving) \in Nat
  BY <1>1, FS_Subset, FS_CardinalityType
<1> QED
  BY <1>2, EndpointAssumption DEF ParallelBound, EndpointAssumption

\* No more messages are worked on at one time than Endpoint::parallel allows.
THEOREM ParallelBounded == Spec => []ParallelBound
<1>1. Init => ParallelBound
  <2> SUFFICES ASSUME Init PROVE ParallelBound
    OBVIOUS
  <2>1. Serving = {}
    BY DEF Init, Serving
  <2> QED
    BY <2>1, FS_EmptySet, EndpointAssumption DEF ParallelBound, EndpointAssumption
<1>2. TypeOK /\ ParallelBound /\ [Next]_vars => ParallelBound'
  <2> SUFFICES ASSUME TypeOK, ParallelBound, [Next]_vars PROVE ParallelBound'
    OBVIOUS
  <2>1. ASSUME NEW i \in Inbound, ServeMessage(i) PROVE ParallelBound'
    <3>1. Serving' = Serving \cup {i} /\ i \notin Serving
      BY <2>1 DEF ServeMessage, Serving, TypeOK
    <3>2. IsFiniteSet(Serving) /\ Cardinality(Serving) \in Nat
      BY EndpointAssumption, FS_Subset, FS_CardinalityType
      DEF EndpointAssumption, Serving
    <3>3. Cardinality(Serving') = Cardinality(Serving) + 1
      BY <3>1, <3>2, FS_AddElement
    <3> QED
      BY <2>1, <3>2, <3>3, EndpointAssumption
      DEF ServeMessage, CanRead, HasSlot, ParallelBound, EndpointAssumption
  <2>2. ASSUME NEW i \in Inbound, IgnoreMessage(i) \/ Complete(i) PROVE ParallelBound'
    BY <2>2, NoneStarted DEF IgnoreMessage, Complete, TypeOK
  <2>3. ASSUME NEW why, Finish(why) PROVE ParallelBound'
    BY <2>3, NoneStarted DEF Finish, Serving
  <2>4. CASE UNCHANGED inbound
    BY <2>4, NoneStarted
  <2>5. Next => \/ UNCHANGED inbound
                \/ \E i \in Inbound : ServeMessage(i) \/ IgnoreMessage(i) \/ Complete(i)
                \/ \E why \in Phases : Finish(why)
    BY DEF Next, UserStep, Terminate, Kill, NewClient, CloneClient, DropClient, UserCalls, UserNotifies, Call,
           Notify, DropOp, FutureStep, SendAccepted, SendFailed, GetAnswer, GetLost,
           TimesOut, Resolve, ServerStep, ReceiveResponse, HandlerCalls, HandlerNotifies, ReadEof,
           ReadTerminator, TaskStep, SendQueued, Flush, ReadError, WriteError,
           KillFires, Close, Phases
  <2> QED
    BY <2>1, <2>2, <2>3, <2>4, <2>5 DEF vars
<1> QED
  BY <1>1, <1>2, TypeCorrect, PTL DEF Spec

-----------------------------------------------------------------------------
(* Refinement.                                                             *)

\* Every step of the endpoint is one step of RpcCalls or none.
LEMMA CallStatusStep ==
  ASSUME TypeOK, TypeOK', ReplyIsTaken, ReplyIsTaken', Next
  PROVE  Abstract!Next \/ UNCHANGED <<CallStatus, Link>>
<1> USE MessageSorts
    DEF TypeOK, ReplyIsTaken, Pending, CallStatus, Abstract!Becomes, Abstract!Open,
        Abstract!Next
<1>1. CASE UNCHANGED <<phase, op, idmap, reply, Link>>
  BY <1>1
<1>2. ASSUME NEW c \in Calls, Call(c) PROVE Abstract!Issue(c)
  BY <1>2 DEF Call, Abstract!Issue, Link
<1>3. ASSUME NEW c \in Calls, ReceiveResponse(c)
      PROVE  Abstract!Reply(c) \/ UNCHANGED <<CallStatus, Link>>
  BY <1>3 DEF ReceiveResponse, Delivered, CanRead, CanPoll, Abstract!Reply, Link
<1>4. ASSUME NEW c \in Calls, GetAnswer(c) PROVE Abstract!Answer(c)
  BY <1>4 DEF GetAnswer, Resolve, Forget, Abstract!Answer, Link
<1>5. ASSUME NEW c \in Calls, GetLost(c) PROVE Abstract!Lose(c)
  BY <1>5 DEF GetLost, Resolve, Forget, Abstract!Lose, Link
<1>6. ASSUME NEW c \in Calls, TimesOut(c) PROVE Abstract!Expire(c)
  BY <1>6 DEF TimesOut, Resolve, Forget, Abstract!Expire, Link
<1>7. ASSUME NEW n \in Notes, Notify(n) PROVE UNCHANGED <<CallStatus, Link>>
  BY <1>7, EndpointAssumption DEF Notify, Link, EndpointAssumption
<1>8. ASSUME NEW o \in Ops, DropOp(o)
      PROVE  (o \in Calls /\ Abstract!Drop(o)) \/ UNCHANGED <<CallStatus, Link>>
  BY <1>8 DEF DropOp, Abstract!Drop, Link
<1>9. ASSUME NEW o \in Ops, SendAccepted(o) PROVE UNCHANGED <<CallStatus, Link>>
  BY <1>9 DEF SendAccepted, Link
<1>10. ASSUME NEW o \in Ops, SendFailed(o)
       PROVE  (o \in Calls /\ Abstract!Fail(o)) \/ UNCHANGED <<CallStatus, Link>>
  BY <1>10 DEF SendFailed, Abstract!Fail, Link
<1>11. ASSUME NEW mine \in SUBSET Calls,
              Link' = "down", idmap' = {},
              reply' = reply \ mine,
              \A c \in mine : Pending(c),
              \A c \in Calls : op'[c] = IF c \in mine THEN "dropped" ELSE op[c]
       PROVE  Abstract!Down
  <2>1. mine \in SUBSET {c \in Calls : CallStatus[c] \in {"pending", "replied", "doomed"}}
    BY <1>11
  <2>2. ASSUME NEW c \in Calls
        PROVE  CallStatus'[c] = IF c \in mine THEN "dropped"
                                ELSE IF CallStatus[c] = "pending" THEN "doomed"
                                ELSE CallStatus[c]
    <3>1. CASE c \in mine
      BY <1>11, <3>1
    <3>2. CASE c \notin mine /\ ~Pending(c)
      <4>1. op[c] # "pending" /\ op'[c] = op[c]
        BY <1>11, <3>2 DEF OpStates, Outcomes
      <4> QED
        BY <3>2, <4>1
    <3>3. CASE c \notin mine /\ Pending(c)
      <4>1. op'[c] = op[c] /\ (c \in reply' <=> c \in reply) /\ c \notin idmap'
        BY <1>11, <3>3
      <4> QED
        BY <3>3, <4>1
    <3> QED
      BY <3>1, <3>2, <3>3
  <2>3. CallStatus' = [c \in Calls |-> IF c \in mine THEN "dropped"
                                      ELSE IF CallStatus[c] = "pending" THEN "doomed"
                                      ELSE CallStatus[c]]
    BY <2>2
  <2> HIDE DEF CallStatus, Pending, TypeOK, ReplyIsTaken, Abstract!Next
  <2> QED
    BY <1>11, <2>1, <2>3 DEF Abstract!Down
<1>12. CASE ReadEof
  BY <1>11, <1>12 DEF ReadEof, ClearIdmap, Link
<1>13. ASSUME NEW why \in Phases \ {"running"}, phase = "running", Finish(why)
       PROVE  Abstract!Down
  <2> DEFINE mine == {c \in Calls : Owned(c) /\ Pending(c)}
  <2>1. Link' = "down" /\ idmap' = {}
    BY <1>13 DEF Finish, ClearIdmap, Link
  <2>2. reply' = reply \ mine
    BY <1>13 DEF Finish
  <2>3. \A c \in Calls : op'[c] = IF c \in mine THEN "dropped" ELSE op[c]
    BY <1>13 DEF Finish
  <2> QED
    BY <1>11, <2>1, <2>2, <2>3
<1> QED
  BY <1>1, <1>2, <1>3, <1>4, <1>5, <1>6, <1>7, <1>8, <1>9, <1>10, <1>12, <1>13,
     CallSteps

\* The endpoint does what Client::call promises its caller.
THEOREM Refinement == Spec => RefinesRpcCalls
<1>1. Init => Abstract!Init
  BY MessageSorts DEF Init, Abstract!Init, CallStatus, Link, Pending
<1>2. /\ TypeOK /\ TypeOK' /\ ReplyIsTaken /\ ReplyIsTaken'
      /\ [Next]_vars
      => [Abstract!Next]_(Abstract!vars)
  <2> SUFFICES ASSUME TypeOK, TypeOK', ReplyIsTaken, ReplyIsTaken', [Next]_vars
               PROVE  [Abstract!Next]_(Abstract!vars)
    OBVIOUS
  <2>1. CASE Next
    BY <2>1, CallStatusStep DEF Abstract!vars
  <2>2. CASE UNCHANGED vars
    BY <2>2 DEF vars, Abstract!vars, CallStatus, Link, Pending
  <2> QED
    BY <2>1, <2>2
<1> QED
  BY <1>1, <1>2, TypeCorrect, NothingStale, PTL DEF Spec, RefinesRpcCalls, Abstract!Spec

-----------------------------------------------------------------------------
(* What is left of liveness without fairness: who waits for whom.  Each    *)
(* Can... is the guard of the action, or the actions, named beside it.     *)

CanFlush == phase = "running" /\ staged # <<>>           \* Flush
CanTake == QueueIsPolled /\ channel # <<>>               \* SendQueued
CanSend(o) ==                                            \* SendAccepted
  op[o] = "sending" /\ phase = "running" /\ Polled(o) /\ ChannelHasRoom
CanResolve(c) ==                                         \* GetAnswer, GetLost
  op[c] = "waiting" /\ Polled(c) /\ (c \in reply \/ c \notin idmap)
CanExpire(c) == c \in Timed /\ op[c] = "waiting" /\ Polled(c)  \* TimesOut
CanDeliver(c) == CanRead /\ c \in wire                   \* ReceiveResponse
CanComplete(i) ==                                        \* Complete
  CanPoll /\ inbound[i] = "running" /\ ~StillWaits(i)
CanStopReading == CanRead /\ TermFired                   \* ReadTerminator
CanClose ==                                              \* Close
  phase = "running" /\ OutboundEnded /\ staged = <<>>

\* Unless the task has a step that makes room, or all slots are taken (which is how the
\* default of one slot blocks a handler that calls the peer), each handler is done or
\* waits, and whatever it waits for can go on, or the peer has been asked and may answer.
\* The one exception is a call without a timeout that was made after the end of input.
HandlersMoveOn ==
  phase = "running" =>
    \/ CanFlush \/ CanTake \/ ~HasSlot
    \/ \A i \in Serving :
         /\ CanComplete(i) \/ StillWaits(i)
         /\ \A o \in awaits[i] : Pending(o) =>
              \/ CanSend(o) \/ CanResolve(o) \/ CanDeliver(o) \/ CanExpire(o)
              \/ Unanswerable(o) /\ o \notin Timed

\* An endpoint that was terminated, with no client and no call left, or that has read the
\* end of its input and has no client left, is not stuck before its end, unless all the
\* handlers that are left wait for calls they made after the end of input.
EndMovesOn ==
  phase = "running" /\ (TermFired \/ (input = "eof" /\ NoClientLeft)) =>
    \/ CanFlush \/ CanTake \/ CanStopReading \/ CanClose
    \/ \E i \in Serving : CanComplete(i)
    \/ \E c \in Calls : Owned(c) /\ (CanResolve(c) \/ CanExpire(c))
    \/ Serving # {} /\ \A i \in Serving : WaitsInVain(i)

\* Only calls wait for the peer, and the end of the input terminates the endpoint.
WaitsAreSound ==
  /\ \A n \in Notes : op[n] # "waiting"
  /\ input = "eof" => ~ctl.terminator
  /\ ~ctl.terminator => ~ctl.sender

\* A notification is over once it is sent; the control block is only ever closed further.
LEMMA WaitsStaySound == Spec => []WaitsAreSound
<1>1. Init => WaitsAreSound
  <2> SUFFICES ASSUME Init PROVE WaitsAreSound
    OBVIOUS
  <2>1. ~ctl.terminator => ~ctl.sender
    <3>1. Fresh \in Ctls /\ Fresh.terminator
      BY DEF Fresh, Ctls
    <3> QED
      BY <3>1, Stopped DEF Init
  <2> QED
    BY <2>1, MessageSorts DEF Init, WaitsAreSound
<1>2. TypeOK /\ WaitsAreSound /\ [Next]_vars => WaitsAreSound'
  <2> SUFFICES ASSUME TypeOK, WaitsAreSound, Next PROVE WaitsAreSound'
    BY DEF WaitsAreSound, vars
  <2>1. ASSUME NEW n \in Notes PROVE op'[n] # "waiting"
    <3> USE MessageSorts, EndpointAssumption DEF EndpointAssumption
    <3>1. op[n] # "waiting" /\ n \in Ops /\ n \notin Calls /\ op \in [Ops -> OpStates]
      BY DEF WaitsAreSound, TypeOK
    <3>2. ASSUME NEW c \in Calls, NEW out \in Outcomes, Resolve(c, out)
          PROVE  op'[n] # "waiting"
      BY <3>1, <3>2 DEF Resolve
    <3> QED
      BY <3>1, <3>2, CallSteps
      DEF Call, ReceiveResponse, GetAnswer, GetLost, TimesOut, Outcomes, Notify, DropOp,
          SendAccepted, SendFailed, ReadEof, Finish
  <2>2. input' = "eof" => ~ctl'.terminator
    <3>1. CASE input' = input
      BY <3>1, CtlSteps, Stopped DEF WaitsAreSound, TypeOK
    <3>2. CASE ReadEof
      BY <3>2, Stopped DEF ReadEof, OnEof, TypeOK
    <3> QED
      BY <3>1, <3>2, InputSteps DEF ReadTerminator
  <2>3. ~ctl'.terminator => ~ctl'.sender
    BY CtlSteps, Stopped DEF WaitsAreSound, TypeOK
  <2> QED
    BY <2>1, <2>2, <2>3 DEF WaitsAreSound
<1> QED
  BY <1>1, <1>2, TypeCorrect, PTL DEF Spec

\* Messages never block the task: what is in the sink can be flushed, what is in the
\* channel taken, and without either there is room for more.
LEMMA Unblocked ==
  ASSUME TypeOK, phase = "running", ~CanFlush, ~CanTake
  PROVE  staged = <<>> /\ channel = <<>> /\ CanPoll /\ ChannelHasRoom
<1>1. staged = <<>>
  BY DEF CanFlush
<1>2. CanPoll
  BY <1>1, EndpointAssumption DEF CanPoll, EndpointAssumption
<1>3. channel = <<>>
  BY <1>2 DEF CanTake, QueueIsPolled
<1> QED
  BY <1>1, <1>2, <1>3, EndpointAssumption DEF ChannelHasRoom, EndpointAssumption

\* What a call of a handler waits for, once messages do not block the task.
LEMMA WaitingCall ==
  ASSUME TypeOK, WaitsAreSound, Conserved, TerminatedMeansUnwanted, phase = "running",
         ~CanFlush, ~CanTake, NEW o \in Ops, op[o] = "waiting"
  PROVE  /\ o \in Calls
         /\ \/ CanResolve(o)
            \/ o \in idmap /\ o \in wire /\ input = "reading"
            \/ Unanswerable(o) /\ (CanExpire(o) \/ o \notin Timed)
<1>1. staged = <<>> /\ channel = <<>> /\ CanPoll
  BY Unblocked
<1>2. o \in Calls
  BY DEF WaitsAreSound, Ops
<1>3. Polled(o)
  BY <1>1 DEF Polled
<1>4. CASE o \notin idmap
  BY <1>2, <1>3, <1>4 DEF CanResolve
<1>5. CASE o \in idmap
  <2>1. input \in {"reading", "eof"}
    BY <1>2 DEF TypeOK, TerminatedMeansUnwanted
  <2>2. o \in wire
    BY <1>1, MessageSorts DEF Conserved, Accepted, InFlight, Sent, Contents
  <2> QED
    BY <1>2, <1>3, <1>5, <2>1, <2>2 DEF Unanswerable, CanExpire
<1> QED
  BY <1>4, <1>5

\* A handler that gets stuck does so for want of a slot, or because it has made a call
\* without a timeout after the end of input, and for nothing else.
THEOREM HandlersDoMoveOn == Spec => []HandlersMoveOn
<1>1. ASSUME TypeOK, WaitsAreSound, Conserved, TerminatedMeansUnwanted, phase = "running",
             ~CanFlush, ~CanTake, HasSlot, NEW i \in Serving
      PROVE  /\ CanComplete(i) \/ StillWaits(i)
             /\ \A o \in awaits[i] : Pending(o) =>
                  \/ CanSend(o) \/ CanResolve(o) \/ CanDeliver(o) \/ CanExpire(o)
                  \/ Unanswerable(o) /\ o \notin Timed
  <2>1. CanPoll /\ ChannelHasRoom
    BY <1>1, Unblocked
  <2>2. i \in Inbound /\ inbound[i] = "running"
    BY DEF Serving
  <2>3. CanComplete(i) \/ StillWaits(i)
    BY <2>1, <2>2 DEF CanComplete
  <2>4. ASSUME NEW o \in awaits[i], op[o] = "sending" PROVE CanSend(o)
    BY <1>1, <2>1, <2>4 DEF CanSend, Polled
  <2>5. ASSUME NEW o \in awaits[i], op[o] = "waiting"
        PROVE  \/ CanResolve(o) \/ CanDeliver(o) \/ CanExpire(o)
               \/ Unanswerable(o) /\ o \notin Timed
    <3>1. o \in Ops
      BY <1>1, <2>2 DEF TypeOK
    <3> QED
      BY <1>1, <2>1, <2>5, <3>1, WaitingCall DEF CanDeliver, CanRead
  <2> QED
    BY <2>3, <2>4, <2>5 DEF Pending
<1>2. TypeOK /\ WaitsAreSound /\ Conserved /\ TerminatedMeansUnwanted => HandlersMoveOn
  BY <1>1 DEF HandlersMoveOn
<1> QED
  BY <1>2, TypeCorrect, WaitsStaySound, AllConserved, TerminationFinal, PTL

\* Nothing stands in the way of an end that is due but handlers that have called the peer
\* after its end, if there are slots at all.
THEOREM EndDoesMoveOn ==
  ASSUME Parallel # 0
  PROVE  Spec => []EndMovesOn
<1>1. ASSUME TypeOK, WaitsAreSound, Conserved, TerminatedMeansUnwanted, phase = "running",
             TermFired \/ (input = "eof" /\ NoClientLeft),
             ~CanFlush, ~CanTake, ~CanStopReading, ~CanClose,
             ~(\E i \in Serving : CanComplete(i)),
             ~(\E c \in Calls : Owned(c) /\ (CanResolve(c) \/ CanExpire(c)))
      PROVE  Serving # {} /\ \A i \in Serving : WaitsInVain(i)
  <2>1. staged = <<>> /\ channel = <<>> /\ CanPoll
    BY <1>1, Unblocked
  <2>2. NoClientLeft /\ ~ctl.terminator /\ ~ctl.sender
    BY <1>1 DEF TermFired, WaitsAreSound
  <2>3. Serving # {}
    <3> SUFFICES ASSUME Serving = {} PROVE FALSE
      OBVIOUS
    <3>1. input = "reading"
      BY <1>1, <2>1, <2>2 DEF CanClose, OutboundEnded, SendersGone
    <3>2. HasSlot
      BY FS_EmptySet, EndpointAssumption DEF HasSlot, EndpointAssumption
    <3> QED
      BY <1>1, <2>1, <3>1, <3>2 DEF CanStopReading, CanRead
  <2>4. ASSUME NEW i \in Serving PROVE WaitsInVain(i)
    <3>1. i \in Inbound /\ inbound[i] = "running"
      BY DEF Serving
    <3>2. PICK o \in awaits[i] : Pending(o)
      BY <1>1, <2>1, <3>1 DEF CanComplete, StillWaits
    <3>3. o \in Ops /\ op[o] = "waiting"
      BY <1>1, <2>2, <3>1, <3>2 DEF TypeOK, Pending, NoClientLeft
    <3>4. o \in Calls /\ Owned(o)
      BY <1>1, <3>2, <3>3, WaitingCall DEF Owned
    <3>5. input = "eof"
      BY <1>1, <3>3, <3>4 DEF TermFired
    <3>6. Unanswerable(o) /\ o \notin Timed
      BY <1>1, <3>3, <3>4, <3>5, WaitingCall
    <3> QED
      BY <3>2, <3>6 DEF WaitsInVain
  <2> QED
    BY <2>3, <2>4
<1>2. TypeOK /\ WaitsAreSound /\ Conserved /\ TerminatedMeansUnwanted => EndMovesOn
  BY <1>1 DEF EndMovesOn
<1> QED
  BY <1>2, TypeCorrect, WaitsStaySound, AllConserved, TerminationFinal, PTL
=============================================================================
