------------------------------- MODULE Batch -------------------------------
(***************************************************************************)
(* How the server half works off the messages of the peer when some are    *)
(* batches (do_msg and do_batch of src/src/endpoint.rs, and the part of    *)
(* start() that feeds and drains them).  A batch becomes one future for    *)
(* each message in it and one more that collects their results; all of     *)
(* them go through the slots of the whole endpoint.  Batches may nest.     *)
(*                                                                         *)
(* A message is known by when do_msg comes to it: a batch, then what is in *)
(* it, then what follows it.  What is in a batch is then an interval, and  *)
(* a future is named by the message it is for.                             *)
(***************************************************************************)
EXTENDS Integers, SequencesExt

CONSTANTS
  Streams,   \* what the peer may send: the kinds of its messages
  Parallel   \* Endpoint::parallel

\* A broken message is what does not parse as one (Broken, UnmatchedSub).
Kinds == {"request", "notification", "response", "broken", "batch"}

ASSUME BatchAssumption == Streams \subseteq Seq(Kinds) /\ Parallel \in Nat \ {0}

VARIABLES
  kind,    \* what the peer sends: the kind of each message,
  last,    \*   and the last message in it (itself, unless it is a batch)
  unread,  \* the first message of the connection still to be read
  stop,    \* ServerCtlInternal.stop
  fate,    \* what became of each message: "unread", "ignored", "delivered", "open"
           \*   (it has a future, which has not finished) or "finished"
  todo,    \* futures of the message being worked off that have no slot yet
  slots,   \* futures that buffer_unordered runs
  buffer,  \* for each batch, results in its channel
  got,     \* for each batch, results its last future has taken
  sent     \* what has been sent to the peer: the messages that were answered

vars == <<kind, last, unread, stop, fate, todo, slots, buffer, got, sent>>

Messages == DOMAIN kind
OfKind(ks) == {m \in Messages : kind[m] \in ks}
Batches == OfKind({"batch"})
Callbacks == OfKind({"request", "notification"})
Answerable == OfKind({"request", "broken"})

Inside(b) == b + 1 .. last[b]
TopLevel(m) == \A b \in 1 .. m - 1 : m \notin Inside(b)

\* What is in a batch, but not in another one in it.
Parts(b) == {m \in Inside(b) : \A c \in b + 1 .. m - 1 : m \notin Inside(c)}

\* The order of the futures: that of a batch comes after those of its parts.
Before_BatchFirst(x, y) == x < y
Before(x, y) == last[x] < last[y] \/ (last[x] = last[y] /\ x > y)

\* do_batch makes the channel of a batch as long as the batch.
Capacity_One(b) == 1
Capacity(b) == Cardinality(Parts(b))

HasSlot == Cardinality(slots) < Parallel

-----------------------------------------------------------------------------
(* Taking a message.                                                       *)

Nobody == 0

\* Whether do_msg sees the stop flag set when it comes to x, if the callback for
\* `stopper` sets it.
Stopped(x, stopper) == stop \/ (stopper # Nobody /\ stopper < x)

\* What is inside a batch that is seen with the flag set is not even looked at.
Skipped(m, x, stopper) ==
  \E b \in m .. x - 1 : x \in Inside(b) /\ Stopped(b, stopper)

\* do_msg, for m that arrives and each x that is in it.
DoMsg(m, x, stopper) ==
  CASE Skipped(m, x, stopper) -> "ignored"
    [] ~Skipped(m, x, stopper) /\ kind[x] = "response" -> "delivered"
    [] ~Skipped(m, x, stopper) /\ kind[x] # "response" ->
         IF Stopped(x, stopper) THEN "ignored" ELSE "open"

\* The next message of the connection is taken when the futures of the last all
\* have slots and there is one more.  The callbacks of the server run now, all
\* those of a batch, and one may terminate the endpoint.
ReadMessage ==
  /\ unread \in Messages /\ todo = {} /\ HasSlot
  /\ \E stopper \in {Nobody} \cup (Callbacks \cap unread .. last[unread]) :
       /\ stopper # Nobody => DoMsg(unread, stopper, stopper) = "open"
       /\ fate' = [x \in Messages |->
                     IF x \in unread .. last[unread] THEN DoMsg(unread, x, stopper) ELSE fate[x]]
       /\ todo' = {x \in unread .. last[unread] : fate'[x] = "open"}
       /\ stop' = (stop \/ stopper # Nobody)
  /\ unread' = last[unread] + 1
  /\ UNCHANGED <<kind, last, slots, buffer, got, sent>>

\* ServerCtl::terminate by anyone else.
Terminate ==
  /\ ~stop /\ stop' = TRUE
  /\ UNCHANGED <<kind, last, unread, fate, todo, slots, buffer, got, sent>>

-----------------------------------------------------------------------------
(* Running the futures.                                                    *)

Start(m) ==
  /\ m \in todo /\ HasSlot
  /\ \A x \in todo \ {m} : Before(m, x)
  /\ slots' = slots \cup {m}
  /\ todo' = todo \ {m}
  /\ UNCHANGED <<kind, last, unread, stop, fate, buffer, got, sent>>

\* An answer of a part goes to the channel of the batch, where it may have to wait
\* for room, other answers go to the peer.
Deliver(m) ==
  \/ TopLevel(m) /\ sent' = sent \cup {m} /\ UNCHANGED buffer
  \/ /\ \E b \in Batches :
          /\ m \in Parts(b) /\ Cardinality(buffer[b]) < Capacity(b)
          /\ buffer' = [buffer EXCEPT ![b] = @ \cup {m}]
     /\ UNCHANGED sent

\* The future of m is done.
Done(m, answers) ==
  /\ m \in slots
  /\ IF answers THEN Deliver(m) ELSE UNCHANGED <<buffer, sent>>
  /\ slots' = slots \ {m}
  /\ fate' = [fate EXCEPT ![m] = "finished"]
  /\ UNCHANGED <<kind, last, unread, stop, todo, got>>

\* do_request, do_notification, and the reply to a broken message.
Finish(m) == m \notin Batches /\ Done(m, m \in Answerable)

\* The last future of a batch takes what is in the channel.
Collect(b) ==
  /\ b \in Batches \cap slots /\ buffer[b] # {}
  /\ got' = [got EXCEPT ![b] = @ \cup buffer[b]]
  /\ buffer' = [buffer EXCEPT ![b] = {}]
  /\ UNCHANGED <<kind, last, unread, stop, fate, todo, slots, sent>>

\* The futures of the parts hold the senders of the channel.
SendersGone_AtOnce(b) == TRUE
SendersGone(b) == \A m \in Parts(b) : fate[m] # "open"

\* A batch without results is not answered.
Answers(b) == got[b] # {}

FinishBatch(b) ==
  /\ b \in Batches /\ buffer[b] = {} /\ SendersGone(b)
  /\ Done(b, Answers(b))

-----------------------------------------------------------------------------
\* Only a batch holds others, and of two batches one is in the other or they share
\* nothing.
Nestings(kinds) ==
  {l \in [DOMAIN kinds -> DOMAIN kinds] :
     /\ \A m \in DOMAIN kinds : m <= l[m] /\ (kinds[m] # "batch" => l[m] = m)
     /\ \A b, m \in DOMAIN kinds : m \in b .. l[b] => l[m] <= l[b]}

Init ==
  /\ kind \in Streams
  /\ last \in Nestings(kind)
  /\ unread = 1
  /\ stop \in BOOLEAN
  /\ fate = [m \in Messages |-> "unread"]
  /\ todo = {} /\ slots = {} /\ sent = {}
  /\ buffer = [b \in Batches |-> {}] /\ got = [b \in Batches |-> {}]

Next ==
  \/ ReadMessage \/ Terminate
  \/ \E m \in Messages : Start(m) \/ Finish(m)
  \/ \E b \in Batches : Collect(b) \/ FinishBatch(b)

Spec == Init /\ [][Next]_vars

\* The peer has sent everything, handlers finish, and the reactor polls whatever
\* has a slot.  Nobody has to terminate the endpoint.
Positions == UNION {DOMAIN kinds : kinds \in Streams}

Fairness ==
  /\ WF_vars(ReadMessage)
  /\ WF_vars(\E m \in Messages : Start(m))
  /\ \A m \in Positions :
       WF_vars(Finish(m)) /\ WF_vars(Collect(m)) /\ WF_vars(FinishBatch(m))

FairSpec == Spec /\ Fairness

-----------------------------------------------------------------------------
(* Properties.                                                             *)

HasAnswer(m) == IF m \in Batches THEN got[m] # {} ELSE m \in Answerable

Results(b) == {m \in Parts(b) : fate[m] = "finished" /\ HasAnswer(m)}

\* The answer to a batch holds the answers to those of its parts that the server
\* was still called for, none missing and none left out for coming late; a batch
\* of nothing but notifications and responses is not answered.
BatchAnswered ==
  \A b \in Batches : fate[b] = "finished" =>
    /\ got[b] = Results(b)
    /\ \A m \in Parts(b) : fate[m] # "open"
    /\ TopLevel(b) => (b \in sent <=> got[b] # {})

\* A part never waits for room in the channel of its batch: that may be read only
\* once the part has left its slot (the comment in do_batch).
ResultsFit ==
  \A b \in Batches : \A m \in slots \cap Parts(b) : Cardinality(buffer[b]) < Capacity(b)

\* Whatever has been started on is worked off, with as few slots as there may be.
EveryMessageFinishes ==
  \A m \in Positions :
    m \in Messages /\ fate[m] = "open" ~> m \in Messages /\ fate[m] = "finished"

\* terminate() documents that answers to ongoing calls are still received.
ResponsesGetThrough == \A m \in OfKind({"response"}) : fate[m] # "ignored"
=============================================================================
