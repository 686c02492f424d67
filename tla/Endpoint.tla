------------------------------ MODULE Endpoint ------------------------------
(***************************************************************************)
(* One endpoint of a JSON-RPC connection (src/src/endpoint.rs): the client *)
(* half, the server half, their shared control block (ServerCtl) and the   *)
(* task `transmitted` that start() spawns and that owns the connection.    *)
(*                                                                         *)
(* Everything runs on one reactor thread.  An action is one poll of one    *)
(* future, or one call by user code, run to its next suspension point.     *)
(* The peer and the socket are the environment.  Message bodies are        *)
(* abstracted: a message on its way out is named by what made it, an       *)
(* element of Calls, Notes or Inbound (then it is the answer to it).       *)
(* Batches have a module of their own.                                     *)
(***************************************************************************)
EXTENDS Naturals, Sequences, FiniteSets

CONSTANTS
  Calls,          \* uses of Client::call, each with the fresh id it draws
  Timed,          \* the calls that are given a timeout
  Notes,          \* uses of Client::notify
  Requests,       \* messages of the peer: RPC requests,
  Notifications,  \*   notifications,
  Broken,         \*   and what does not parse as a message
  Parallel,       \* Endpoint::parallel
  ChannelCap,     \* capacity of the channel from clients to the sink (32)
  SinkCap,        \* messages the sink and send_all hold before they block
  MaxClients      \* bound: clients alive at one time

Ops == Calls \cup Notes
Inbound == Requests \cup Notifications \cup Broken
Answerable == Requests \cup Broken
Messages == Ops \cup Answerable

ASSUME EndpointAssumption ==
  /\ Timed \subseteq Calls
  /\ Calls \cap Notes = {} /\ Ops \cap Inbound = {}
  /\ Answerable \cap Notifications = {}
  /\ IsFiniteSet(Inbound)
  /\ Parallel \in Nat
  /\ ChannelCap \in Nat \ {0} /\ SinkCap \in Nat \ {0}
  /\ MaxClients \in Nat \ {0}

VARIABLES
  phase,    \* "running", or why `transmitted` ended: "closed", "killed", "failed"
  input,    \* "reading", or what ended it: "eof", "terminated"
  ctl,      \* ServerCtlInternal: the stop flag, and which of its options are Some
  idle,     \* how many Client values the user and the handlers hold between them
            \*   (one being used is with its op)
  op,       \* how far each call and notify has come
  idmap,    \* ids with an entry in the IDMap, that is, with a live oneshot sender
  reply,    \* calls whose oneshot holds a response the caller has not polled yet
  channel,  \* the bounded mpsc channel
  staged,   \* taken from `outbound`, not yet written to the socket
  wire,     \* written to the socket
  inbound,  \* what became of each message of the peer
  awaits    \* the calls and notifications each handler of the server has made

vars == <<phase, input, ctl, idle, op, idmap, reply, channel, staged, wire,
          inbound, awaits>>

Phases == {"running", "closed", "killed", "failed"}
Outcomes == {"answered", "timeout", "lost", "failed", "dropped"}
OpStates == {"idle", "sending", "waiting", "sent"} \cup Outcomes
Ctls == [stop : BOOLEAN, terminator : BOOLEAN, sender : BOOLEAN, killer : BOOLEAN]

-----------------------------------------------------------------------------
(* What the code can tell from the state.                                  *)

Pending(o) == op[o] \in {"sending", "waiting"}

Serving == {i \in Inbound : inbound[i] = "running"}

\* o is made by a handler, so that the task `transmitted` polls its futures.
Owned(o) == \E i \in Serving : o \in awaits[i]

\* `outbound` is polled: send_all holds no message that the sink refuses.
CanPoll == phase = "running" /\ Len(staged) < SinkCap

Polled(o) == Owned(o) => CanPoll

StillWaits(i) == \E o \in awaits[i] : Pending(o)

\* buffer_unordered takes another future of the stream.
HasSlot_OneShort == Cardinality(Serving) + 1 < Parallel
HasSlot == Cardinality(Serving) < Parallel

CanRead == CanPoll /\ input = "reading" /\ HasSlot

ChannelHasRoom_OffByOne == Len(channel) <= ChannelCap
ChannelHasRoom == Len(channel) < ChannelCap

Clients == idle + Cardinality({o \in Ops : op[o] = "sending"})

NoClientLeft == idle = 0 /\ \A o \in Ops : op[o] # "sending"

\* The receiver of the channel sees the end once the last Sender is dropped.
SendersGone == ~ctl.sender /\ NoClientLeft

\* The last RcDrop is gone.  A pending call holds one besides its client's.
TermFired_IgnoresCalls == ~ctl.terminator /\ NoClientLeft
TermFired ==
  /\ ~ctl.terminator
  /\ NoClientLeft
  /\ \A c \in Calls : op[c] # "waiting"

\* `answers` and the receiver are both exhausted, which ends `outbound`.
OutboundEnded_IgnoresReceiver == input # "reading" /\ Serving = {} /\ SendersGone
OutboundEnded ==
  /\ input # "reading" /\ Serving = {}
  /\ SendersGone /\ channel = <<>>

-----------------------------------------------------------------------------
(* ServerCtl.                                                              *)

Cleanup_NoStop(c) == [c EXCEPT !.sender = FALSE]
Cleanup_KeepsSender(c) == [c EXCEPT !.stop = TRUE]
Cleanup(c) == [c EXCEPT !.stop = TRUE, !.sender = FALSE]

Terminated(c) == [Cleanup(c) EXCEPT !.terminator = FALSE]

Killed(c) == [Cleanup(c) EXCEPT !.killer = FALSE]

\* ServerCtl::client returns Ok.
ClientAvailable == ctl.terminator /\ ctl.sender

Terminate ==
  /\ ctl' = Terminated(ctl)
  /\ UNCHANGED <<phase, input, idle, op, idmap, reply, channel, staged, wire,
                 inbound, awaits>>

Kill ==
  /\ ctl' = Killed(ctl)
  /\ UNCHANGED <<phase, input, idle, op, idmap, reply, channel, staged, wire,
                 inbound, awaits>>

\* ServerCtl::client, by the user or by a handler.  Either may keep the client.
NewClient ==
  /\ ClientAvailable
  /\ Clients < MaxClients
  /\ idle' = idle + 1
  /\ UNCHANGED <<phase, input, ctl, op, idmap, reply, channel, staged, wire,
                 inbound, awaits>>

-----------------------------------------------------------------------------
(* Client.                                                                 *)

CloneClient ==
  /\ idle > 0 /\ Clients < MaxClients
  /\ idle' = idle + 1
  /\ UNCHANGED <<phase, input, ctl, op, idmap, reply, channel, staged, wire,
                 inbound, awaits>>

DropClient ==
  /\ idle > 0
  /\ idle' = idle - 1
  /\ UNCHANGED <<phase, input, ctl, op, idmap, reply, channel, staged, wire,
                 inbound, awaits>>

\* call() consumes the client and registers the id before the message is sent.  It
\* looks at neither the control block nor the connection.
Call(c) ==
  /\ idle > 0 /\ op[c] = "idle"
  /\ idle' = idle - 1
  /\ op' = [op EXCEPT ![c] = "sending"]
  /\ idmap' = idmap \cup {c}
  /\ UNCHANGED <<phase, input, ctl, reply, channel, staged, wire, inbound>>

Notify(n) ==
  /\ idle > 0 /\ op[n] = "idle"
  /\ idle' = idle - 1
  /\ op' = [op EXCEPT ![n] = "sending"]
  /\ UNCHANGED <<phase, input, ctl, idmap, reply, channel, staged, wire, inbound>>

\* The user waits for the futures that come of it,
UserCalls(c) == Call(c) /\ UNCHANGED awaits
UserNotifies(n) == Notify(n) /\ UNCHANGED awaits

\* or a handler does, which has kept a client from its callback or from an earlier
\* call, or takes one now.
Makes(i, o) ==
  /\ CanPoll /\ inbound[i] = "running" /\ i \notin Broken
  /\ awaits' = [awaits EXCEPT ![i] = @ \cup {o}]

HandlerCalls(i, c) == Call(c) /\ Makes(i, c)
HandlerNotifies(i, n) == Notify(n) /\ Makes(i, n)

\* The Send future gets its message into the channel, and yields the client back.
SendAccepted(o) ==
  /\ op[o] = "sending" /\ phase = "running" /\ Polled(o)
  /\ ChannelHasRoom
  /\ channel' = Append(channel, o)
  /\ op' = [op EXCEPT ![o] = IF o \in Calls THEN "waiting" ELSE "sent"]
  /\ idle' = idle + 1
  /\ UNCHANGED <<phase, input, ctl, idmap, reply, staged, wire, inbound, awaits>>

\* The receiver is gone: the client and the future of the response are lost.
\* What call() put into the idmap stays there.
SendFailed(o) ==
  /\ op[o] = "sending" /\ phase # "running"
  /\ op' = [op EXCEPT ![o] = "failed"]
  /\ reply' = reply \ {o}
  /\ UNCHANGED <<phase, input, ctl, idle, idmap, channel, staged, wire, inbound,
                 awaits>>

\* The future of a call or a notify is dropped.  One still being sent takes its
\* client with it.
DropOp(o) ==
  /\ Pending(o) /\ Polled(o)
  /\ op' = [op EXCEPT ![o] = "dropped"]
  /\ reply' = reply \ {o}
  /\ UNCHANGED <<phase, input, ctl, idle, idmap, channel, staged, wire, inbound,
                 awaits>>

\* A call with a timeout removes its id however it ends.
Forget_Never(c) == idmap
Forget(c) == IF c \in Timed THEN idmap \ {c} ELSE idmap

Resolve(c, outcome) ==
  /\ op[c] = "waiting" /\ Polled(c)
  /\ op' = [op EXCEPT ![c] = outcome]
  /\ reply' = reply \ {c}
  /\ idmap' = Forget(c)
  /\ UNCHANGED <<phase, input, ctl, idle, channel, staged, wire, inbound, awaits>>

GetAnswer(c) == c \in reply /\ Resolve(c, "answered")

\* The oneshot sender was dropped with the idmap entry: "Lost connection".
GetLost(c) == c \notin reply /\ c \notin idmap /\ Resolve(c, "lost")

\* The timer is polled first, so it also wins over a response that is there.
TimesOut_WithConnection(c) ==
  c \in Timed /\ phase = "running" /\ input = "reading" /\ Resolve(c, "timeout")
TimesOut(c) == c \in Timed /\ Resolve(c, "timeout")

-----------------------------------------------------------------------------
(* The server half: `answers`, which is polled with `outbound`.            *)

ClearIdmap_Skipped == UNCHANGED idmap
ClearIdmap == idmap' = {}

\* do_msg once the endpoint stops.
IgnoreMessage(i) ==
  /\ CanRead /\ inbound[i] = "unread"
  /\ ctl.stop
  /\ inbound' = [inbound EXCEPT ![i] = "ignored"]
  /\ UNCHANGED <<phase, input, ctl, idle, op, idmap, reply, channel, staged, wire,
                 awaits>>

\* The other messages that ask for something become one future.  A method the
\* server refuses and a broken message are futures that are ready at once.
ServeMessage(i) ==
  /\ CanRead /\ inbound[i] = "unread"
  /\ ~ctl.stop
  /\ inbound' = [inbound EXCEPT ![i] = "running"]
  /\ UNCHANGED <<phase, input, ctl, idle, op, idmap, reply, channel, staged, wire,
                 awaits>>

\* Removing the sender of a known id and using it.  Nobody may listen to it.
Delivered_Nowhere(c) == reply
Delivered(c) == IF c \in idmap /\ Pending(c) THEN reply \cup {c} ELSE reply

\* do_response, stopping or not.  The peer knows an id once it has been written,
\* and may answer it again.
ReceiveResponse(c) ==
  /\ CanRead /\ c \in wire
  /\ reply' = Delivered(c)
  /\ idmap' = idmap \ {c}
  /\ UNCHANGED <<phase, input, ctl, idle, op, channel, staged, wire, inbound, awaits>>

\* The clients that handlers hold go with them.
LosesClientsOf(handlers) ==
  idle' \in IF handlers \subseteq Broken THEN {idle} ELSE 0 .. idle

\* The future of a message is done.  What it was asked for goes to the sink.
Complete(i) ==
  /\ CanPoll /\ inbound[i] = "running"
  /\ ~StillWaits(i)
  /\ inbound' = [inbound EXCEPT ![i] = "done"]
  /\ staged' = IF i \in Answerable THEN Append(staged, i) ELSE staged
  /\ LosesClientsOf({i})
  /\ UNCHANGED <<phase, input, ctl, op, idmap, reply, channel, wire, awaits>>

\* The stream of the peer's messages ends and `cleaner` runs.
OnEof_KeepsServer(c) == c
OnEof(c) == Terminated(c)

ReadEof ==
  /\ CanRead
  /\ input' = "eof"
  /\ ClearIdmap
  /\ ctl' = OnEof(ctl)
  /\ UNCHANGED <<phase, idle, op, reply, channel, staged, wire, inbound, awaits>>

\* The marker from `terminator` stops `answers` from taking more messages.
ReadTerminator ==
  /\ CanRead /\ TermFired
  /\ input' = "terminated"
  /\ UNCHANGED <<phase, ctl, idle, op, idmap, reply, channel, staged, wire, inbound,
                 awaits>>

-----------------------------------------------------------------------------
(* The task `transmitted`.                                                 *)

\* `outbound` takes a message from the channel.
QueueIsPolled_Chained == CanPoll /\ input # "reading"
QueueIsPolled == CanPoll

SendQueued ==
  /\ QueueIsPolled /\ channel # <<>>
  /\ staged' = Append(staged, Head(channel))
  /\ channel' = Tail(channel)
  /\ UNCHANGED <<phase, input, ctl, idle, op, idmap, reply, wire, inbound, awaits>>

Flush ==
  /\ phase = "running" /\ staged # <<>>
  /\ wire' = wire \cup {Head(staged)}
  /\ staged' = Tail(staged)
  /\ UNCHANGED <<phase, input, ctl, idle, op, idmap, reply, channel, inbound, awaits>>

\* The task ends, and drops the channel, the sink and the handlers with it.
Finish(why) ==
  /\ phase' = why
  /\ ClearIdmap
  /\ op' = [o \in Ops |-> IF Owned(o) /\ Pending(o) THEN "dropped" ELSE op[o]]
  /\ reply' = {c \in reply : ~Owned(c)}
  /\ inbound' = [i \in Inbound |-> IF i \in Serving THEN "cancelled" ELSE inbound[i]]
  /\ channel' = <<>> /\ staged' = <<>>
  /\ LosesClientsOf(Serving)
  /\ UNCHANGED <<input, ctl, wire, awaits>>

\* An error passes through buffer_unordered at once.
ReadError == CanRead /\ Finish("failed")

WriteError ==
  /\ phase = "running"
  /\ staged # <<>> \/ OutboundEnded
  /\ Finish("failed")

\* send_all is polled before the killer: it has first taken what it could.
KillSeen_WaitsForInput == ~ctl.killer /\ input # "reading"
KillSeen == ~ctl.killer /\ (channel = <<>> \/ ~CanPoll)

KillFires == phase = "running" /\ KillSeen /\ Finish("killed")

\* `outbound` has ended, and closing the sink has flushed it.
Close_Unflushed == phase = "running" /\ OutboundEnded /\ Finish("closed")
Close == phase = "running" /\ OutboundEnded /\ staged = <<>> /\ Finish("closed")

-----------------------------------------------------------------------------
Fresh == [stop |-> FALSE, terminator |-> TRUE, sender |-> TRUE, killer |-> TRUE]

\* start(): Server::initialized may terminate the endpoint before anything runs,
\* and that of the Empty server does.
Init ==
  /\ phase = "running" /\ input = "reading"
  /\ ctl \in {Fresh, Terminated(Fresh)}
  /\ idle = 1
  /\ op = [o \in Ops |-> "idle"]
  /\ idmap = {} /\ reply = {}
  /\ channel = <<>> /\ staged = <<>> /\ wire = {}
  /\ inbound = [i \in Inbound |-> "unread"]
  /\ awaits = [i \in Inbound |-> {}]

UserStep ==
  \/ Terminate \/ Kill \/ NewClient \/ CloneClient \/ DropClient
  \/ \E c \in Calls : UserCalls(c)
  \/ \E n \in Notes : UserNotifies(n)
  \/ \E o \in Ops : DropOp(o)

FutureStep ==
  \/ \E o \in Ops : SendAccepted(o) \/ SendFailed(o)
  \/ \E c \in Calls : GetAnswer(c) \/ GetLost(c) \/ TimesOut(c)

ServerStep ==
  \/ \E i \in Inbound : IgnoreMessage(i) \/ ServeMessage(i) \/ Complete(i)
  \/ \E c \in Calls : ReceiveResponse(c)
  \/ \E i \in Inbound : \/ \E c \in Calls : HandlerCalls(i, c)
                        \/ \E n \in Notes : HandlerNotifies(i, n)
  \/ ReadEof \/ ReadTerminator

TaskStep == SendQueued \/ Flush \/ ReadError \/ WriteError \/ KillFires \/ Close

Next == UserStep \/ FutureStep \/ ServerStep \/ TaskStep

Spec == Init /\ [][Next]_vars

\* The reactor polls every future that can advance, handlers finish, the peer
\* answers what it reads, and the socket takes what is written.  Nothing makes
\* the user act, the peer close the connection, or the connection fail.
Fairness ==
  /\ \A o \in Ops : WF_vars(SendAccepted(o)) /\ WF_vars(SendFailed(o))
  /\ \A c \in Calls : /\ WF_vars(GetAnswer(c)) /\ WF_vars(GetLost(c))
                      /\ WF_vars(TimesOut(c)) /\ WF_vars(ReceiveResponse(c))
  /\ \A i \in Inbound : WF_vars(Complete(i))
  /\ WF_vars(ReadTerminator) /\ WF_vars(SendQueued) /\ WF_vars(Flush)
  /\ WF_vars(KillFires) /\ WF_vars(Close)

FairSpec == Spec /\ Fairness

-----------------------------------------------------------------------------
(* Properties.                                                             *)

TypeOK ==
  /\ phase \in Phases
  /\ input \in {"reading", "eof", "terminated"}
  /\ ctl \in Ctls
  /\ idle \in Nat
  /\ op \in [Ops -> OpStates]
  /\ idmap \in SUBSET Calls /\ reply \in SUBSET Calls
  /\ channel \in Seq(Ops) /\ Len(channel) <= ChannelCap
  /\ staged \in Seq(Messages) /\ Len(staged) <= SinkCap
  /\ wire \in SUBSET Messages
  /\ inbound \in [Inbound -> {"unread", "ignored", "running", "done", "cancelled"}]
  /\ awaits \in [Inbound -> SUBSET Ops]

\* However `transmitted` ends, no caller is left with a future that nobody will
\* resolve: the oneshot sender of every call that waits is gone.
NoWaiterLeftBehind ==
  phase # "running" => \A c \in idmap : op[c] # "waiting"

\* A call that has come to an end leaves nothing in the idmap, whatever the order
\* of its timeout, its response and the end of the connection.  Only a future that
\* was dropped does, and once the endpoint has ended, what failed to be sent.
NoStaleEntry ==
  \A c \in idmap : Pending(c) \/ op[c] = "dropped"
                              \/ (op[c] = "failed" /\ phase # "running")

\* ServerCtl::client documents that a callback may unwrap its result: a callback
\* only runs while the endpoint has not been stopped.
CallbackMayUnwrap == ~ctl.stop => ClientAvailable

\* An endpoint that ended by itself or was killed hands out no more clients.
EndRefusesClients == phase \in {"closed", "killed"} => ~ClientAvailable

\* The endpoint stops reading for want of clients only when nobody can want it
\* any more: no client, no call that waits for the peer, and none ever again.
TerminatedMeansUnwanted ==
  input = "terminated" =>
    /\ NoClientLeft /\ ~ClientAvailable
    /\ \A c \in Calls : op[c] # "waiting"

\* An orderly end loses nothing: what clients were told is sent, and the answers
\* of the handlers, have all been written, and no handler was cut short.
GracefulCloseDelivers ==
  phase = "closed" =>
    /\ \A o \in Ops : op[o] \in {"waiting", "sent", "answered", "timeout", "lost"}
                        => o \in wire
    /\ \A i \in Answerable : inbound[i] = "done" => i \in wire
    /\ \A i \in Inbound : inbound[i] # "cancelled"

\* Endpoint::parallel bounds the messages that are worked on at one time.
ParallelBound == Cardinality(Serving) <= Parallel

\* Where a call is, as its caller may see it.
CallStatus == [c \in Calls |->
  IF ~Pending(c) THEN op[c]
  ELSE IF c \in reply THEN "replied"
  ELSE IF c \in idmap THEN "pending"
  ELSE "doomed"]

Link == IF phase = "running" /\ input # "eof" THEN "up" ELSE "down"

Abstract == INSTANCE RpcCalls WITH status <- CallStatus, link <- Link

\* The endpoint implements what Client::call promises.
RefinesRpcCalls == Abstract!Spec

\* Once the endpoint was terminated, its clients are gone and its calls are over,
\* it ends (the doc of ServerCtl::terminate).
TerminationCompletes == TermFired ~> phase # "running"

\* A handler that has kept a client over the end of input and then calls the peer:
\* there is no response any more, and nobody drops the sender that `call` has put
\* into the idmap after `cleaner` has emptied it.  Only a timeout helps.
Unanswerable(c) == input = "eof" /\ op[c] = "waiting" /\ c \in idmap
WaitsInVain(i) == \E c \in awaits[i] \ Timed : Unanswerable(c)

\* Once the peer has closed its side and the clients are gone, it ends, whatever
\* is still being worked on, but for a handler that waits in vain.
EofCompletes ==
  <>[](input = "eof" /\ NoClientLeft /\ phase = "running") =>
    <>[](\E i \in Serving : WaitsInVain(i))

\* Kill ends it whatever else goes on.
KillCompletes == ~ctl.killer ~> phase # "running"

\* A handler that was started comes to an end, one that calls the peer, keeps its
\* client and calls again too, unless it does so after the end of input.
HandlersFinish ==
  \A i \in Inbound : <>[](inbound[i] = "running") => <>[]WaitsInVain(i)

\* What a client sends gets into the channel, or fails: the channel, which is
\* bounded, is emptied whatever the server half is doing.
SendsComplete == \A o \in Ops : op[o] = "sending" ~> op[o] # "sending"

\* A call with a timeout comes to an end, whatever becomes of the connection.
TimedCallsResolve == \A c \in Timed : op[c] = "waiting" ~> op[c] \in Outcomes

\* Every call comes to an end (docs of Client::call and of `cleaner`).
CallsResolve == \A c \in Calls : op[c] = "waiting" ~> op[c] \in Outcomes
=============================================================================
