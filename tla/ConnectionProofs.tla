-------------------------- MODULE ConnectionProofs --------------------------
(***************************************************************************)
(* Proofs about Connection: each side is an Endpoint, so that all that is  *)
(* proved of Endpoint holds of it, and with what ConnectedEndpointProofs   *)
(* says of either side the two agree.                                      *)
(***************************************************************************)
EXTENDS Connection, TLAPS

\* The sides once more, with what is proved of them.
LS == INSTANCE ConnectedEndpointProofs WITH
  Calls <- LeftCalls, Timed <- LeftTimed, Notes <- LeftNotes,
  Requests <- RightCalls, Notifications <- RightNotes, Broken <- {},
  phase <- phaseL, input <- inputL, ctl <- ctlL, idle <- idleL, op <- opL,
  idmap <- idmapL, reply <- replyL, channel <- channelL, staged <- stagedL,
  wire <- wireL, inbound <- inboundL, awaits <- awaitsL,
  incoming <- toLeft, outgoing <- toRight,
  peer <- [phase |-> phaseR, op |-> opR, inbound |-> inboundR],
  theirs <- wireR

RS == INSTANCE ConnectedEndpointProofs WITH
  Calls <- RightCalls, Timed <- RightTimed, Notes <- RightNotes,
  Requests <- LeftCalls, Notifications <- LeftNotes, Broken <- {},
  phase <- phaseR, input <- inputR, ctl <- ctlR, idle <- idleR, op <- opR,
  idmap <- idmapR, reply <- replyR, channel <- channelR, staged <- stagedR,
  wire <- wireR, inbound <- inboundR, awaits <- awaitsR,
  incoming <- toRight, outgoing <- toLeft,
  peer <- [phase |-> phaseL, op |-> opL, inbound |-> inboundL],
  theirs <- wireL

-----------------------------------------------------------------------------
(* Left and LS, Right and RS are instances of the same definitions.        *)

\* The steps of Left are those of LS.
LEMMA SameLeft == (Left!Step => LS!Step) /\ (Left!Init => LS!Init)
<1>1. ASSUME NEW S PROVE Left!Cardinality(S) = LS!Cardinality(S)
  BY DEF Left!Cardinality, LS!Cardinality
<1>2. (Left!HasSlot <=> LS!HasSlot) /\ Left!Clients = LS!Clients
  BY <1>1 DEF Left!HasSlot, LS!HasSlot, Left!Serving, LS!Serving, Left!Inbound,
              LS!Inbound, Left!Answerable, LS!Answerable, Left!Clients, LS!Clients,
              Left!Ops, LS!Ops
<1>3. Left!Init => LS!Init
  BY DEF Left!Init, LS!Init, Left!Fresh, LS!Fresh, Left!Terminated, LS!Terminated,
         Left!Cleanup, LS!Cleanup, Left!Ops, LS!Ops, Left!Inbound, LS!Inbound,
         Left!Answerable, LS!Answerable
<1>4. Left!Step => LS!Step
  BY <1>2
  DEF
      Left!Ops, LS!Ops, Left!Inbound, LS!Inbound, Left!Answerable, LS!Answerable,
      Left!Outcomes, LS!Outcomes, Left!Pending, LS!Pending, Left!Serving,
      LS!Serving, Left!Owned, LS!Owned, Left!CanPoll, LS!CanPoll, Left!Polled,
      LS!Polled, Left!StillWaits, LS!StillWaits, Left!CanRead, LS!CanRead,
      Left!ChannelHasRoom, LS!ChannelHasRoom, Left!NoClientLeft, LS!NoClientLeft,
      Left!SendersGone, LS!SendersGone, Left!TermFired, LS!TermFired,
      Left!OutboundEnded, LS!OutboundEnded, Left!Cleanup, LS!Cleanup,
      Left!Terminated, LS!Terminated, Left!Killed, LS!Killed, Left!ClientAvailable,
      LS!ClientAvailable, Left!Terminate, LS!Terminate, Left!Kill, LS!Kill,
      Left!NewClient, LS!NewClient, Left!CloneClient, LS!CloneClient,
      Left!DropClient, LS!DropClient, Left!Call, LS!Call, Left!Notify, LS!Notify,
      Left!UserCalls, LS!UserCalls, Left!UserNotifies, LS!UserNotifies, Left!Makes,
      LS!Makes, Left!HandlerCalls, LS!HandlerCalls, Left!HandlerNotifies,
      LS!HandlerNotifies, Left!SendAccepted, LS!SendAccepted, Left!SendFailed,
      LS!SendFailed, Left!DropOp, LS!DropOp, Left!Forget, LS!Forget, Left!Resolve,
      LS!Resolve, Left!GetAnswer, LS!GetAnswer, Left!GetLost, LS!GetLost,
      Left!TimesOut, LS!TimesOut, Left!ClearIdmap, LS!ClearIdmap,
      Left!IgnoreMessage, LS!IgnoreMessage, Left!ServeMessage, LS!ServeMessage,
      Left!Delivered, LS!Delivered, Left!ReceiveResponse, LS!ReceiveResponse,
      Left!LosesClientsOf, LS!LosesClientsOf, Left!Complete, LS!Complete,
      Left!OnEof, LS!OnEof, Left!ReadEof, LS!ReadEof, Left!ReadTerminator,
      LS!ReadTerminator, Left!QueueIsPolled, LS!QueueIsPolled, Left!SendQueued,
      LS!SendQueued, Left!Flush, LS!Flush, Left!Finish, LS!Finish, Left!ReadError,
      LS!ReadError, Left!WriteError, LS!WriteError, Left!KillSeen, LS!KillSeen,
      Left!KillFires, LS!KillFires, Left!Close, LS!Close, Left!UserStep,
      LS!UserStep, Left!FutureStep, LS!FutureStep, Left!Silent, LS!Silent,
      Left!Receive, LS!Receive, Left!ReceiveEof, LS!ReceiveEof, Left!Write,
      LS!Write, Left!End, LS!End, Left!Fail, LS!Fail, Left!Local, LS!Local,
      Left!Step, LS!Step
<1> QED
  BY <1>3, <1>4

\* The steps of Right are those of RS.
LEMMA SameRight == (Right!Step => RS!Step) /\ (Right!Init => RS!Init)
<1>1. ASSUME NEW S PROVE Right!Cardinality(S) = RS!Cardinality(S)
  BY DEF Right!Cardinality, RS!Cardinality
<1>2. (Right!HasSlot <=> RS!HasSlot) /\ Right!Clients = RS!Clients
  BY <1>1 DEF Right!HasSlot, RS!HasSlot, Right!Serving, RS!Serving, Right!Inbound,
              RS!Inbound, Right!Answerable, RS!Answerable, Right!Clients, RS!Clients,
              Right!Ops, RS!Ops
<1>3. Right!Init => RS!Init
  BY DEF Right!Init, RS!Init, Right!Fresh, RS!Fresh, Right!Terminated, RS!Terminated,
         Right!Cleanup, RS!Cleanup, Right!Ops, RS!Ops, Right!Inbound, RS!Inbound,
         Right!Answerable, RS!Answerable
<1>4. Right!Step => RS!Step
  BY <1>2
  DEF
      Right!Ops, RS!Ops, Right!Inbound, RS!Inbound, Right!Answerable, RS!Answerable,
      Right!Outcomes, RS!Outcomes, Right!Pending, RS!Pending, Right!Serving,
      RS!Serving, Right!Owned, RS!Owned, Right!CanPoll, RS!CanPoll, Right!Polled,
      RS!Polled, Right!StillWaits, RS!StillWaits, Right!CanRead, RS!CanRead,
      Right!ChannelHasRoom, RS!ChannelHasRoom, Right!NoClientLeft, RS!NoClientLeft,
      Right!SendersGone, RS!SendersGone, Right!TermFired, RS!TermFired,
      Right!OutboundEnded, RS!OutboundEnded, Right!Cleanup, RS!Cleanup,
      Right!Terminated, RS!Terminated, Right!Killed, RS!Killed,
      Right!ClientAvailable, RS!ClientAvailable, Right!Terminate, RS!Terminate,
      Right!Kill, RS!Kill, Right!NewClient, RS!NewClient, Right!CloneClient,
      RS!CloneClient, Right!DropClient, RS!DropClient, Right!Call, RS!Call,
      Right!Notify, RS!Notify, Right!UserCalls, RS!UserCalls, Right!UserNotifies,
      RS!UserNotifies, Right!Makes, RS!Makes, Right!HandlerCalls, RS!HandlerCalls,
      Right!HandlerNotifies, RS!HandlerNotifies, Right!SendAccepted,
      RS!SendAccepted, Right!SendFailed, RS!SendFailed, Right!DropOp, RS!DropOp,
      Right!Forget, RS!Forget, Right!Resolve, RS!Resolve, Right!GetAnswer,
      RS!GetAnswer, Right!GetLost, RS!GetLost, Right!TimesOut, RS!TimesOut,
      Right!ClearIdmap, RS!ClearIdmap, Right!IgnoreMessage, RS!IgnoreMessage,
      Right!ServeMessage, RS!ServeMessage, Right!Delivered, RS!Delivered,
      Right!ReceiveResponse, RS!ReceiveResponse, Right!LosesClientsOf,
      RS!LosesClientsOf, Right!Complete, RS!Complete, Right!OnEof, RS!OnEof,
      Right!ReadEof, RS!ReadEof, Right!ReadTerminator, RS!ReadTerminator,
      Right!QueueIsPolled, RS!QueueIsPolled, Right!SendQueued, RS!SendQueued,
      Right!Flush, RS!Flush, Right!Finish, RS!Finish, Right!ReadError, RS!ReadError,
      Right!WriteError, RS!WriteError, Right!KillSeen, RS!KillSeen, Right!KillFires,
      RS!KillFires, Right!Close, RS!Close, Right!UserStep, RS!UserStep,
      Right!FutureStep, RS!FutureStep, Right!Silent, RS!Silent, Right!Receive,
      RS!Receive, Right!ReceiveEof, RS!ReceiveEof, Right!Write, RS!Write, Right!End,
      RS!End, Right!Fail, RS!Fail, Right!Local, RS!Local, Right!Step, RS!Step
<1> QED
  BY <1>3, <1>4

\* The constants of LS are as EndpointAssumption wants them.
LEMMA AssumptionLeft == LS!EndpointAssumption
<1>1. \A S : LS!IsFiniteSet(S) <=> IsFiniteSet(S)
  BY DEF LS!IsFiniteSet, IsFiniteSet
<1>2. LS!Inbound = RightCalls \cup RightNotes
  BY DEF LS!Inbound, LS!Answerable
<1> QED
  BY <1>1, <1>2, ConnectionAssumption
  DEF ConnectionAssumption, LS!EndpointAssumption, LS!Ops, LS!Answerable

\* The constants of RS are as EndpointAssumption wants them.
LEMMA AssumptionRight == RS!EndpointAssumption
<1>1. \A S : RS!IsFiniteSet(S) <=> IsFiniteSet(S)
  BY DEF RS!IsFiniteSet, IsFiniteSet
<1>2. RS!Inbound = LeftCalls \cup LeftNotes
  BY DEF RS!Inbound, RS!Answerable
<1> QED
  BY <1>1, <1>2, ConnectionAssumption
  DEF ConnectionAssumption, RS!EndpointAssumption, RS!Ops, RS!Answerable

-----------------------------------------------------------------------------
(* Each side is an endpoint.                                               *)

\* Whatever the other side does, Left behaves as Endpoint says.
THEOREM LeftIsEndpoint == Spec => LS!Spec
<1>1. Init => LS!Init
  BY SameLeft DEF Init
<1>2. [Next]_vars => [LS!Next]_(LS!vars)
  BY SameLeft, LS!StepIsNext, AssumptionLeft DEF Next, vars, varsL, LS!vars
<1> QED
  BY <1>1, <1>2, PTL DEF Spec, LS!Spec

\* So the theorems about Endpoint hold of it.
LEMMA LeftLaws ==
  Spec => [](/\ LS!Known /\ LS!GracefulCloseDelivers /\ LS!OnlyDoneIsSent)
<1>1. LS!Spec => []LS!TypeOK
  BY LS!TypeCorrect, AssumptionLeft
<1>2. LS!Spec => []LS!OutIsSent
  BY LS!OnlySentIsOut, AssumptionLeft
<1>3. LS!Spec => [](LS!ReplyIsTaken /\ LS!NoStaleEntry)
  BY LS!NothingStale, AssumptionLeft
<1>4. LS!Spec => []LS!LostOnlyByEof
  BY LS!LostByEof, AssumptionLeft
<1>5. LS!Spec => []LS!GracefulCloseDelivers
  BY LS!NothingLost, AssumptionLeft
<1>6. LS!Spec => []LS!OnlyDoneIsSent
  BY LS!AnswersAreDone, AssumptionLeft
<1>7. LS!TypeOK /\ LS!OutIsSent /\ LS!ReplyIsTaken /\ LS!LostOnlyByEof => LS!Known
  BY DEF LS!Known
<1> QED
  BY <1>1, <1>2, <1>3, <1>4, <1>5, <1>6, <1>7, LeftIsEndpoint, PTL

\* Nothing is sent twice by it.
LEMMA LeftOutOnce == Spec => []LS!OutOnce
  BY LS!AllOutOnce, AssumptionLeft, LeftIsEndpoint, PTL

\* The laws a side at rest is judged by hold of it too.
LEMMA LeftRestLaws == Spec => []LS!Laws
<1>1. LS!Spec => [](LS!TypeOK /\ LS!Conserved)
  BY LS!TypeCorrect, LS!AllConserved, AssumptionLeft, PTL
<1>2. LS!Spec => [](LS!WaitsAreSound /\ LS!TerminatedMeansUnwanted)
  BY LS!WaitsStaySound, LS!TerminationFinal, AssumptionLeft, PTL
<1>3. LS!Spec => [](LS!NoneOutlives /\ LS!ParallelBound /\ LS!NoWaiterLeftBehind)
  BY LS!HandlersEnd, LS!ParallelBounded, LS!WaitersReleased, AssumptionLeft, PTL
<1>4. /\ LS!TypeOK /\ LS!Conserved /\ LS!WaitsAreSound /\ LS!TerminatedMeansUnwanted
      /\ LS!NoneOutlives /\ LS!ParallelBound /\ LS!NoWaiterLeftBehind
      => LS!Laws
  BY DEF LS!Laws
<1> QED
  BY <1>1, <1>2, <1>3, <1>4, LeftIsEndpoint, PTL

\* Whatever the other side does, Right behaves as Endpoint says.
THEOREM RightIsEndpoint == Spec => RS!Spec
<1>1. Init => RS!Init
  BY SameRight DEF Init
<1>2. [Next]_vars => [RS!Next]_(RS!vars)
  BY SameRight, RS!StepIsNext, AssumptionRight DEF Next, vars, varsR, RS!vars
<1> QED
  BY <1>1, <1>2, PTL DEF Spec, RS!Spec

\* So the theorems about Endpoint hold of it.
LEMMA RightLaws ==
  Spec => [](/\ RS!Known /\ RS!GracefulCloseDelivers /\ RS!OnlyDoneIsSent)
<1>1. RS!Spec => []RS!TypeOK
  BY RS!TypeCorrect, AssumptionRight
<1>2. RS!Spec => []RS!OutIsSent
  BY RS!OnlySentIsOut, AssumptionRight
<1>3. RS!Spec => [](RS!ReplyIsTaken /\ RS!NoStaleEntry)
  BY RS!NothingStale, AssumptionRight
<1>4. RS!Spec => []RS!LostOnlyByEof
  BY RS!LostByEof, AssumptionRight
<1>5. RS!Spec => []RS!GracefulCloseDelivers
  BY RS!NothingLost, AssumptionRight
<1>6. RS!Spec => []RS!OnlyDoneIsSent
  BY RS!AnswersAreDone, AssumptionRight
<1>7. RS!TypeOK /\ RS!OutIsSent /\ RS!ReplyIsTaken /\ RS!LostOnlyByEof => RS!Known
  BY DEF RS!Known
<1> QED
  BY <1>1, <1>2, <1>3, <1>4, <1>5, <1>6, <1>7, RightIsEndpoint, PTL

\* Nothing is sent twice by it.
LEMMA RightOutOnce == Spec => []RS!OutOnce
  BY RS!AllOutOnce, AssumptionRight, RightIsEndpoint, PTL

\* The laws a side at rest is judged by hold of it too.
LEMMA RightRestLaws == Spec => []RS!Laws
<1>1. RS!Spec => [](RS!TypeOK /\ RS!Conserved)
  BY RS!TypeCorrect, RS!AllConserved, AssumptionRight, PTL
<1>2. RS!Spec => [](RS!WaitsAreSound /\ RS!TerminatedMeansUnwanted)
  BY RS!WaitsStaySound, RS!TerminationFinal, AssumptionRight, PTL
<1>3. RS!Spec => [](RS!NoneOutlives /\ RS!ParallelBound /\ RS!NoWaiterLeftBehind)
  BY RS!HandlersEnd, RS!ParallelBounded, RS!WaitersReleased, AssumptionRight, PTL
<1>4. /\ RS!TypeOK /\ RS!Conserved /\ RS!WaitsAreSound /\ RS!TerminatedMeansUnwanted
      /\ RS!NoneOutlives /\ RS!ParallelBound /\ RS!NoWaiterLeftBehind
      => RS!Laws
  BY DEF RS!Laws
<1> QED
  BY <1>1, <1>2, <1>3, <1>4, RightIsEndpoint, PTL

-----------------------------------------------------------------------------
(* What the sides know of each other.                                      *)

\* A step of Right is one of the peer to Left.
LEMMA RightIsPeer ==
  ASSUME RS!TypeOK, RS!OutOnce, Right!Step, UNCHANGED varsL PROVE LS!PeerStep
<1>1. RS!Messages = LS!Inbound \cup LeftCalls
  BY DEF RS!Messages, RS!Ops, RS!Answerable, LS!Inbound, LS!Answerable
<1> QED
  BY <1>1, SameRight, RS!StepSeen, AssumptionRight
  DEF varsL, LS!PeerStep, LS!PeerWrites, LS!vars

\* Left knows what Right has written.
LEMMA LeftKnows == Spec => []LS!KnowsPeer
<1>1. Init => LS!KnowsPeer
  BY SameLeft, SameRight
  DEF Init, LS!Init, RS!Init, LS!Ops, LS!KnowsPeer, LS!Arrived, LS!Contents
<1>2. LS!Known /\ RS!Known /\ RS!OutOnce /\ LS!KnowsPeer /\ [Next]_vars => LS!KnowsPeer'
  <2> SUFFICES ASSUME LS!Known, RS!Known, RS!OutOnce, LS!KnowsPeer, [Next]_vars
               PROVE  LS!KnowsPeer'
    OBVIOUS
  <2>1. CASE Left!Step /\ UNCHANGED varsR
    <3>1. LS!OwnStep
      BY <2>1, SameLeft DEF LS!OwnStep, varsR
    <3> QED
      BY <3>1, LS!OwnKeeps, AssumptionLeft
  <2>2. CASE Right!Step /\ UNCHANGED varsL
    <3>1. LS!PeerStep
      BY <2>2, RightIsPeer DEF RS!Known
    <3> QED
      BY <3>1, LS!PeerKeeps, AssumptionLeft
  <2>3. CASE UNCHANGED vars
    BY <2>3 DEF vars, varsL, varsR, LS!KnowsPeer, LS!Arrived, LS!Settled, LS!Contents
  <2> QED
    BY <2>1, <2>2, <2>3 DEF Next
<1> QED
  BY <1>1, <1>2, LeftLaws, RightLaws, RightOutOnce, PTL DEF Spec

\* A step of Left is one of the peer to Right.
LEMMA LeftIsPeer ==
  ASSUME LS!TypeOK, LS!OutOnce, Left!Step, UNCHANGED varsR PROVE RS!PeerStep
<1>1. LS!Messages = RS!Inbound \cup RightCalls
  BY DEF LS!Messages, LS!Ops, LS!Answerable, RS!Inbound, RS!Answerable
<1> QED
  BY <1>1, SameLeft, LS!StepSeen, AssumptionLeft
  DEF varsR, RS!PeerStep, RS!PeerWrites, RS!vars

\* Right knows what Left has written.
LEMMA RightKnows == Spec => []RS!KnowsPeer
<1>1. Init => RS!KnowsPeer
  BY SameRight, SameLeft
  DEF Init, RS!Init, LS!Init, RS!Ops, RS!KnowsPeer, RS!Arrived, RS!Contents
<1>2. RS!Known /\ LS!Known /\ LS!OutOnce /\ RS!KnowsPeer /\ [Next]_vars => RS!KnowsPeer'
  <2> SUFFICES ASSUME RS!Known, LS!Known, LS!OutOnce, RS!KnowsPeer, [Next]_vars
               PROVE  RS!KnowsPeer'
    OBVIOUS
  <2>1. CASE Right!Step /\ UNCHANGED varsL
    <3>1. RS!OwnStep
      BY <2>1, SameRight DEF RS!OwnStep, varsL
    <3> QED
      BY <3>1, RS!OwnKeeps, AssumptionRight
  <2>2. CASE Left!Step /\ UNCHANGED varsR
    <3>1. RS!PeerStep
      BY <2>2, LeftIsPeer DEF LS!Known
    <3> QED
      BY <3>1, RS!PeerKeeps, AssumptionRight
  <2>3. CASE UNCHANGED vars
    BY <2>3 DEF vars, varsL, varsR, RS!KnowsPeer, RS!Arrived, RS!Settled, RS!Contents
  <2> QED
    BY <2>1, <2>2, <2>3 DEF Next
<1> QED
  BY <1>1, <1>2, RightLaws, LeftLaws, LeftOutOnce, PTL DEF Spec

\* What comes to Left comes once.
LEMMA LeftComesOnce == Spec => []LS!ComesOnce
<1>1. Init => LS!ComesOnce
  <2> SUFFICES ASSUME Init PROVE LS!ComesOnce
    OBVIOUS
  <2>1. toLeft = <<>> /\ \A i \in LS!Inbound : inboundL[i] = "unread"
    BY SameLeft DEF Init, LS!Init
  <2> QED
    BY <2>1, ConnectionAssumption
    DEF ConnectionAssumption, LS!ComesOnce, LS!Contents, LS!IsInjective
<1>2. /\ LS!Known /\ RS!Known /\ RS!OutOnce /\ LS!KnowsPeer /\ LS!ComesOnce /\ [Next]_vars
      => LS!ComesOnce'
  <2> SUFFICES ASSUME LS!Known, RS!Known, RS!OutOnce, LS!KnowsPeer, LS!ComesOnce,
                      [Next]_vars
               PROVE  LS!ComesOnce'
    OBVIOUS
  <2>1. StreamCap \in Nat
    BY ConnectionAssumption DEF ConnectionAssumption
  <2>2. CASE Left!Step /\ UNCHANGED varsR
    <3>1. LS!OwnStep
      BY <2>2, SameLeft DEF LS!OwnStep, varsR
    <3> QED
      BY <2>1, <3>1, LS!OwnKeepsOnce, AssumptionLeft
  <2>3. CASE Right!Step /\ UNCHANGED varsL
    <3>1. LS!PeerStep
      BY <2>3, RightIsPeer DEF RS!Known
    <3> QED
      BY <2>1, <3>1, LS!PeerKeepsOnce, AssumptionLeft
  <2>4. CASE UNCHANGED vars
    BY <2>4 DEF vars, varsL, varsR, LS!ComesOnce, LS!Contents
  <2> QED
    BY <2>2, <2>3, <2>4 DEF Next
<1> QED
  BY <1>1, <1>2, LeftLaws, RightLaws, RightOutOnce, LeftKnows, PTL DEF Spec

\* What comes to Right comes once.
LEMMA RightComesOnce == Spec => []RS!ComesOnce
<1>1. Init => RS!ComesOnce
  <2> SUFFICES ASSUME Init PROVE RS!ComesOnce
    OBVIOUS
  <2>1. toRight = <<>> /\ \A i \in RS!Inbound : inboundR[i] = "unread"
    BY SameRight DEF Init, RS!Init
  <2> QED
    BY <2>1, ConnectionAssumption
    DEF ConnectionAssumption, RS!ComesOnce, RS!Contents, RS!IsInjective
<1>2. /\ RS!Known /\ LS!Known /\ LS!OutOnce /\ RS!KnowsPeer /\ RS!ComesOnce /\ [Next]_vars
      => RS!ComesOnce'
  <2> SUFFICES ASSUME RS!Known, LS!Known, LS!OutOnce, RS!KnowsPeer, RS!ComesOnce,
                      [Next]_vars
               PROVE  RS!ComesOnce'
    OBVIOUS
  <2>1. StreamCap \in Nat
    BY ConnectionAssumption DEF ConnectionAssumption
  <2>2. CASE Right!Step /\ UNCHANGED varsL
    <3>1. RS!OwnStep
      BY <2>2, SameRight DEF RS!OwnStep, varsL
    <3> QED
      BY <2>1, <3>1, RS!OwnKeepsOnce, AssumptionRight
  <2>3. CASE Left!Step /\ UNCHANGED varsR
    <3>1. RS!PeerStep
      BY <2>3, LeftIsPeer DEF LS!Known
    <3> QED
      BY <2>1, <3>1, RS!PeerKeepsOnce, AssumptionRight
  <2>4. CASE UNCHANGED vars
    BY <2>4 DEF vars, varsR, varsL, RS!ComesOnce, RS!Contents
  <2> QED
    BY <2>2, <2>3, <2>4 DEF Next
<1> QED
  BY <1>1, <1>2, RightLaws, LeftLaws, LeftOutOnce, RightKnows, PTL DEF Spec

\* A response that comes to Left is one to a call it has written.
LEMMA LeftComes == Spec => []LS!Comes
<1>1. /\ LS!KnowsPeer /\ LS!ComesOnce /\ RS!ComesOnce /\ RS!OnlyDoneIsSent
      => LS!Comes
  <2> SUFFICES ASSUME LS!KnowsPeer, LS!ComesOnce, RS!ComesOnce, RS!OnlyDoneIsSent
               PROVE  LS!Comes
    OBVIOUS
  <2>1. ASSUME NEW c \in LeftCalls, c \in LS!Contents(toLeft) PROVE c \in wireL
    <3>1. c \in wireR
      BY <2>1 DEF LS!KnowsPeer
    <3>2. inboundR[c] = "done"
      BY <3>1 DEF RS!OnlyDoneIsSent, RS!Answerable, RS!Sent
    <3> QED
      BY <3>2 DEF RS!ComesOnce, RS!Inbound, RS!Answerable
  <2> QED
    BY <2>1 DEF LS!Comes
<1> QED
  BY <1>1, LeftKnows, LeftComesOnce, RightComesOnce, RightLaws, PTL

\* A response that comes to Right is one to a call it has written.
LEMMA RightComes == Spec => []RS!Comes
<1>1. /\ RS!KnowsPeer /\ RS!ComesOnce /\ LS!ComesOnce /\ LS!OnlyDoneIsSent
      => RS!Comes
  <2> SUFFICES ASSUME RS!KnowsPeer, RS!ComesOnce, LS!ComesOnce, LS!OnlyDoneIsSent
               PROVE  RS!Comes
    OBVIOUS
  <2>1. ASSUME NEW c \in RightCalls, c \in RS!Contents(toRight) PROVE c \in wireR
    <3>1. c \in wireL
      BY <2>1 DEF RS!KnowsPeer
    <3>2. inboundL[c] = "done"
      BY <3>1 DEF LS!OnlyDoneIsSent, LS!Answerable, LS!Sent
    <3> QED
      BY <3>2 DEF LS!ComesOnce, LS!Inbound, LS!Answerable
  <2> QED
    BY <2>1 DEF RS!Comes
<1> QED
  BY <1>1, RightKnows, RightComesOnce, LeftComesOnce, LeftLaws, PTL

\* Left is not mistaken about Right.
LEMMA LeftAgrees == Spec => [](Left!AnswersAgree /\ Left!NothingUnread)
<1>1. /\ LS!Known /\ LS!KnowsPeer
      /\ RS!GracefulCloseDelivers /\ RS!OnlyDoneIsSent
      => Left!AnswersAgree /\ Left!NothingUnread
  <2> SUFFICES ASSUME LS!Known, LS!KnowsPeer,
                      RS!GracefulCloseDelivers, RS!OnlyDoneIsSent
               PROVE  Left!AnswersAgree /\ Left!NothingUnread
    OBVIOUS
  <2>1. LS!AnswersAgree /\ LS!NothingUnread
    BY LS!WhatIsKnown, AssumptionLeft
    DEF RS!GracefulCloseDelivers, RS!OnlyDoneIsSent, RS!Sent, RS!Answerable, RS!Ops,
        RS!Inbound, LS!Inbound, LS!Answerable
  <2> QED
    BY <2>1 DEF LS!AnswersAgree, Left!AnswersAgree, LS!NothingUnread, Left!NothingUnread,
                LS!Inbound, Left!Inbound, LS!Answerable, Left!Answerable
<1> QED
  BY <1>1, LeftLaws, LeftKnows, RightLaws, PTL

\* Right is not mistaken about Left.
LEMMA RightAgrees == Spec => [](Right!AnswersAgree /\ Right!NothingUnread)
<1>1. /\ RS!Known /\ RS!KnowsPeer
      /\ LS!GracefulCloseDelivers /\ LS!OnlyDoneIsSent
      => Right!AnswersAgree /\ Right!NothingUnread
  <2> SUFFICES ASSUME RS!Known, RS!KnowsPeer,
                      LS!GracefulCloseDelivers, LS!OnlyDoneIsSent
               PROVE  Right!AnswersAgree /\ Right!NothingUnread
    OBVIOUS
  <2>1. RS!AnswersAgree /\ RS!NothingUnread
    BY RS!WhatIsKnown, AssumptionRight
    DEF LS!GracefulCloseDelivers, LS!OnlyDoneIsSent, LS!Sent, LS!Answerable, LS!Ops,
        LS!Inbound, RS!Inbound, RS!Answerable
  <2> QED
    BY <2>1 DEF RS!AnswersAgree, Right!AnswersAgree, RS!NothingUnread, Right!NothingUnread,
                RS!Inbound, Right!Inbound, RS!Answerable, Right!Answerable
<1> QED
  BY <1>1, RightLaws, RightKnows, LeftLaws, PTL

-----------------------------------------------------------------------------
(* When neither side can go on by itself.                                  *)

\* One side has no slot for the responses its handlers wait for, or both write and
\* neither reads.
Stalled == LS!Starved \/ RS!Starved \/ (LS!WriteBlocked /\ RS!WriteBlocked)

\* The peer has an answer to give: it ignored the call, or serves it with a handler that
\* waits for a call of its own.
RightOwes(c) ==
  \/ inboundR[c] = "ignored"
  \/ /\ inboundR[c] = "running"
     /\ \E d \in awaitsR[c] : d \in RightCalls /\ opR[d] = "waiting"
LeftOwes(c) ==
  \/ inboundL[c] = "ignored"
  \/ /\ inboundL[c] = "running"
     /\ \E d \in awaitsL[c] : d \in LeftCalls /\ opL[d] = "waiting"

\* Nothing is left to do on a side but to wait for the peer, and all its callers have
\* been told if it has ended.
LeftExplained ==
  /\ phaseL # "running" => LS!Over
  /\ phaseL = "running" =>
       /\ ctlL.killer
       /\ phaseR # "running" /\ inputL = "reading" => LS!Starved
       /\ \/ Stalled
          \/ /\ LS!Idle
             /\ \A c \in LeftCalls :
                  opL[c] = "waiting" => RightOwes(c) \/ (inputL = "eof" /\ c \in idmapL)
RightExplained ==
  /\ phaseR # "running" => RS!Over
  /\ phaseR = "running" =>
       /\ ctlR.killer
       /\ phaseL # "running" /\ inputR = "reading" => RS!Starved
       /\ \/ Stalled
          \/ /\ RS!Idle
             /\ \A c \in RightCalls :
                  opR[c] = "waiting" => LeftOwes(c) \/ (inputR = "eof" /\ c \in idmapR)

Explained == LS!AtRest /\ RS!AtRest => LeftExplained /\ RightExplained

\* If the two are not stalled, Left has nothing left to write.
LEMMA LeftDrained ==
  ASSUME LS!Laws, RS!Laws, LS!Comes, RS!Comes, LS!AtRest, RS!AtRest, ~Stalled,
         phaseL = "running"
  PROVE  stagedL = <<>>
<1>1. /\ StreamCap \in Nat /\ StreamCap # 0
      /\ Len(toLeft) \in 0 .. StreamCap /\ Len(toRight) \in 0 .. StreamCap
  BY ConnectionAssumption
  DEF ConnectionAssumption, LS!Comes, LS!ComesOnce, LS!KnowsPeer, RS!Comes, RS!ComesOnce,
      RS!KnowsPeer
<1> SUFFICES ASSUME stagedL # <<>> PROVE FALSE
  OBVIOUS
<1>2. phaseR = "running" /\ Len(toRight) = StreamCap
  BY <1>1, LS!RestWrites, AssumptionLeft
<1>3. RS!WriteBlocked
  <2>1. toRight # <<>>
    BY <1>1, <1>2
  <2> QED
    BY <1>1, <1>2, <2>1, RS!RestReads, AssumptionRight DEF Stalled
<1>4. LS!WriteBlocked
  <2>1. toLeft # <<>>
    BY <1>1, <1>3 DEF RS!WriteBlocked
  <2> QED
    BY <1>1, <1>2, <2>1, LS!RestReads, AssumptionLeft DEF Stalled
<1> QED
  BY <1>3, <1>4 DEF Stalled

\* If the two are not stalled, Right has nothing left to write.
LEMMA RightDrained ==
  ASSUME RS!Laws, LS!Laws, RS!Comes, LS!Comes, RS!AtRest, LS!AtRest, ~Stalled,
         phaseR = "running"
  PROVE  stagedR = <<>>
<1>1. /\ StreamCap \in Nat /\ StreamCap # 0
      /\ Len(toRight) \in 0 .. StreamCap /\ Len(toLeft) \in 0 .. StreamCap
  BY ConnectionAssumption
  DEF ConnectionAssumption, RS!Comes, RS!ComesOnce, RS!KnowsPeer, LS!Comes, LS!ComesOnce,
      LS!KnowsPeer
<1> SUFFICES ASSUME stagedR # <<>> PROVE FALSE
  OBVIOUS
<1>2. phaseL = "running" /\ Len(toLeft) = StreamCap
  BY <1>1, RS!RestWrites, AssumptionRight
<1>3. LS!WriteBlocked
  <2>1. toLeft # <<>>
    BY <1>1, <1>2
  <2> QED
    BY <1>1, <1>2, <2>1, LS!RestReads, AssumptionLeft DEF Stalled
<1>4. RS!WriteBlocked
  <2>1. toRight # <<>>
    BY <1>1, <1>3 DEF LS!WriteBlocked
  <2> QED
    BY <1>1, <1>2, <2>1, RS!RestReads, AssumptionRight DEF Stalled
<1> QED
  BY <1>3, <1>4 DEF Stalled

\* If the two are not stalled, Left waits for what Right owes, or for what can not come.
LEMMA LeftWaits ==
  ASSUME LS!Laws, RS!Laws, LS!Comes, RS!Comes, LS!AtRest, RS!AtRest, ~Stalled,
         phaseL = "running", NEW c \in LeftCalls, opL[c] = "waiting"
  PROVE  RightOwes(c) \/ (inputL = "eof" /\ c \in idmapL)
<1>1. stagedL = <<>>
  BY LeftDrained
<1>2. /\ inputL \in {"reading", "eof"}
      /\ inputL = "reading" => toLeft = <<>> /\ phaseR = "running"
      /\ c \in idmapL /\ c \notin replyL /\ c \in wireL
  BY <1>1, LS!RestIdle, AssumptionLeft DEF Stalled
<1> SUFFICES ASSUME inputL = "reading" PROVE RightOwes(c)
  BY <1>2
<1>3. phaseR = "running" /\ toLeft = <<>>
  BY <1>2
<1>4. stagedR = <<>>
  BY <1>3, RightDrained
<1>5. /\ inputR \in {"reading", "eof"}
      /\ inputR = "reading" => toRight = <<>>
  BY <1>3, <1>4, RS!RestIdle, AssumptionRight DEF Stalled
<1>6. channelR = <<>> /\ RS!HandlersWait
  BY <1>3, <1>4, RS!RestIdle, AssumptionRight DEF Stalled, RS!Idle
<1>7. c \in RS!Inbound /\ c \in RS!Answerable
  BY DEF RS!Inbound, RS!Answerable
<1>8. inboundR[c] \in {"running", "done", "ignored"}
  <2>1. toRight = <<>> \/ inputR = "eof"
    BY <1>5
  <2>2. RS!Arrived(c)
    BY <1>2, <1>3, <2>1 DEF RS!Arrived, RS!Contents
  <2>3. inboundR[c] # "unread"
    BY <1>7, <2>2 DEF RS!Comes, RS!KnowsPeer
  <2>4. inboundR[c] # "cancelled"
    BY <1>3, <1>7 DEF RS!Laws, RS!Conserved
  <2> QED
    BY <1>7, <2>3, <2>4 DEF RS!Laws, RS!TypeOK
<1>9. inboundR[c] # "done"
  <2> SUFFICES ASSUME inboundR[c] = "done" PROVE FALSE
    OBVIOUS
  <2>1. c \in RS!Sent
    BY <1>3, <1>7 DEF RS!Laws, RS!Conserved
  <2>2. c \in wireR
    BY <1>4, <2>1 DEF RS!Sent, RS!Contents
  <2>3. LS!Arrived(c)
    BY <1>3, <2>2 DEF LS!Arrived, LS!Contents
  <2> QED
    BY <1>2, <2>3 DEF LS!Comes, LS!KnowsPeer, LS!Settled
<1>10. inboundR[c] = "running" => c \in RS!Serving
  BY <1>7 DEF RS!Serving
<1> QED
  BY <1>6, <1>8, <1>9, <1>10 DEF RightOwes, RS!HandlersWait

\* If the two are not stalled, Right waits for what Left owes, or for what can not come.
LEMMA RightWaits ==
  ASSUME RS!Laws, LS!Laws, RS!Comes, LS!Comes, RS!AtRest, LS!AtRest, ~Stalled,
         phaseR = "running", NEW c \in RightCalls, opR[c] = "waiting"
  PROVE  LeftOwes(c) \/ (inputR = "eof" /\ c \in idmapR)
<1>1. stagedR = <<>>
  BY RightDrained
<1>2. /\ inputR \in {"reading", "eof"}
      /\ inputR = "reading" => toRight = <<>> /\ phaseL = "running"
      /\ c \in idmapR /\ c \notin replyR /\ c \in wireR
  BY <1>1, RS!RestIdle, AssumptionRight DEF Stalled
<1> SUFFICES ASSUME inputR = "reading" PROVE LeftOwes(c)
  BY <1>2
<1>3. phaseL = "running" /\ toRight = <<>>
  BY <1>2
<1>4. stagedL = <<>>
  BY <1>3, LeftDrained
<1>5. /\ inputL \in {"reading", "eof"}
      /\ inputL = "reading" => toLeft = <<>>
  BY <1>3, <1>4, LS!RestIdle, AssumptionLeft DEF Stalled
<1>6. channelL = <<>> /\ LS!HandlersWait
  BY <1>3, <1>4, LS!RestIdle, AssumptionLeft DEF Stalled, LS!Idle
<1>7. c \in LS!Inbound /\ c \in LS!Answerable
  BY DEF LS!Inbound, LS!Answerable
<1>8. inboundL[c] \in {"running", "done", "ignored"}
  <2>1. toLeft = <<>> \/ inputL = "eof"
    BY <1>5
  <2>2. LS!Arrived(c)
    BY <1>2, <1>3, <2>1 DEF LS!Arrived, LS!Contents
  <2>3. inboundL[c] # "unread"
    BY <1>7, <2>2 DEF LS!Comes, LS!KnowsPeer
  <2>4. inboundL[c] # "cancelled"
    BY <1>3, <1>7 DEF LS!Laws, LS!Conserved
  <2> QED
    BY <1>7, <2>3, <2>4 DEF LS!Laws, LS!TypeOK
<1>9. inboundL[c] # "done"
  <2> SUFFICES ASSUME inboundL[c] = "done" PROVE FALSE
    OBVIOUS
  <2>1. c \in LS!Sent
    BY <1>3, <1>7 DEF LS!Laws, LS!Conserved
  <2>2. c \in wireL
    BY <1>4, <2>1 DEF LS!Sent, LS!Contents
  <2>3. RS!Arrived(c)
    BY <1>3, <2>2 DEF RS!Arrived, RS!Contents
  <2> QED
    BY <1>2, <2>3 DEF RS!Comes, RS!KnowsPeer, RS!Settled
<1>10. inboundL[c] = "running" => c \in LS!Serving
  BY <1>7 DEF LS!Serving
<1> QED
  BY <1>6, <1>8, <1>9, <1>10 DEF LeftOwes, LS!HandlersWait

\* So Left is where it should be.
LEMMA LeftIsExplained ==
  ASSUME LS!Laws, RS!Laws, LS!Comes, RS!Comes, LS!AtRest, RS!AtRest
  PROVE  LeftExplained
<1>1. CASE phaseL # "running"
  BY <1>1, LS!RestEnded, AssumptionLeft DEF LeftExplained
<1>2. CASE phaseL = "running"
  <2>1. StreamCap \in Nat /\ Len(toRight) \in 0 .. StreamCap
    BY ConnectionAssumption
    DEF ConnectionAssumption, RS!Comes, RS!ComesOnce, RS!KnowsPeer
  <2>2. ctlL.killer /\ (phaseR # "running" /\ inputL = "reading" => LS!Starved)
    BY <1>2, <2>1, LS!RestNotices, AssumptionLeft
  <2>3. ASSUME ~Stalled PROVE LS!Idle
    <3>1. stagedL = <<>> /\ ~LS!Starved
      BY <1>2, <2>3, LeftDrained DEF Stalled
    <3> QED
      BY <1>2, <3>1, LS!RestIdle, AssumptionLeft
  <2> QED
    BY <1>2, <2>2, <2>3, LeftWaits DEF LeftExplained
<1> QED
  BY <1>1, <1>2

\* So Right is where it should be.
LEMMA RightIsExplained ==
  ASSUME RS!Laws, LS!Laws, RS!Comes, LS!Comes, RS!AtRest, LS!AtRest
  PROVE  RightExplained
<1>1. CASE phaseR # "running"
  BY <1>1, RS!RestEnded, AssumptionRight DEF RightExplained
<1>2. CASE phaseR = "running"
  <2>1. StreamCap \in Nat /\ Len(toLeft) \in 0 .. StreamCap
    BY ConnectionAssumption
    DEF ConnectionAssumption, LS!Comes, LS!ComesOnce, LS!KnowsPeer
  <2>2. ctlR.killer /\ (phaseL # "running" /\ inputR = "reading" => RS!Starved)
    BY <1>2, <2>1, RS!RestNotices, AssumptionRight
  <2>3. ASSUME ~Stalled PROVE RS!Idle
    <3>1. stagedR = <<>> /\ ~RS!Starved
      BY <1>2, <2>3, RightDrained DEF Stalled
    <3> QED
      BY <1>2, <3>1, RS!RestIdle, AssumptionRight
  <2> QED
    BY <1>2, <2>2, <2>3, RightWaits DEF RightExplained
<1> QED
  BY <1>1, <1>2

-----------------------------------------------------------------------------
(* The theorems.                                                           *)

\* The two sides agree on what became of every call.
THEOREM SidesAgree == Spec => []AnswersAgree
  BY LeftAgrees, RightAgrees, PTL DEF AnswersAgree

\* When they part in order, nothing that was sent is left unread.
THEOREM OrderlyPartingLosesNothing == Spec => []NothingUnread
  BY LeftAgrees, RightAgrees, PTL DEF NothingUnread

\* What one side writes comes to the other once: the socket holds it once and no more than it
\* has room for, it has not been taken before, and nothing else is taken.
THEOREM WrittenComesOnce == Spec => [](LS!ComesOnce /\ RS!ComesOnce)
  BY LeftComesOnce, RightComesOnce, PTL

\* When neither side can go on by itself, one that has ended has told its callers, and one
\* that runs is starved or blocked, or waits for what its peer owes it or cannot send.
THEOREM RestIsExplained == Spec => []Explained
<1>1. LS!Laws /\ RS!Laws /\ LS!Comes /\ RS!Comes => Explained
  BY LeftIsExplained, RightIsExplained DEF Explained
<1> QED
  BY <1>1, LeftRestLaws, RightRestLaws, LeftComes, RightComes, PTL
=============================================================================
