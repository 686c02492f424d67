---------------------------- MODULE BatchProofs ----------------------------
(***************************************************************************)
(* Proofs about Batch, for all streams of messages, all ways to nest them  *)
(* and any number of slots.                                                *)
(***************************************************************************)
EXTENDS Batch, FiniteSetTheorems, WellFoundedInduction, TLAPS

Fates == {"unread", "ignored", "delivered", "open", "finished"}

TypeOK ==
  /\ kind \in Seq(Kinds) /\ last \in Nestings(kind)
  /\ unread \in 1 .. Len(kind) + 1 /\ stop \in BOOLEAN
  /\ fate \in [Messages -> Fates]
  /\ todo \subseteq Messages /\ slots \subseteq Messages /\ sent \subseteq Messages
  /\ buffer \in [Batches -> SUBSET Messages] /\ got \in [Batches -> SUBSET Messages]

\* Messages are read whole, and in order.
ReadWhole ==
  /\ \A m \in Messages : m < unread => last[m] < unread
  /\ \A m \in Messages : fate[m] = "unread" <=> unread <= m

\* A future waits for a slot or has one.
Working ==
  /\ \A m \in Messages : fate[m] = "open" <=> m \in todo \cup slots
  /\ todo \cap slots = {}

\* The results of a batch are in its channel or already taken out of it, and those
\* of one that is finished all taken out.
ResultsKept ==
  \A b \in Batches :
    /\ buffer[b] \cup got[b] = Results(b)
    /\ fate[b] = "finished" => buffer[b] = {} /\ \A m \in Parts(b) : fate[m] # "open"

\* The peer gets the answers of messages that are in no batch.
Sent == \A m \in Messages : TopLevel(m) => (m \in sent <=> fate[m] = "finished" /\ HasAnswer(m))

BatchInv == ReadWhole /\ Working /\ ResultsKept /\ Sent

\* What is in a batch has been given its slot before the batch is.
PartsFirst == \A b \in Batches \cap slots : \A m \in Parts(b) : m \notin todo

\* The answer of m would not have to wait.
HasRoom(m) ==
  \/ TopLevel(m)
  \/ \E b \in Batches : m \in Parts(b) /\ Cardinality(buffer[b]) < Capacity(b)

\* Finish, Collect or FinishBatch may be done for m.
CanMoveOn(m) ==
  \/ m \notin Batches /\ (m \in Answerable => HasRoom(m))
  \/ m \in Batches /\ buffer[m] # {}
  \/ m \in Batches /\ SendersGone(m) /\ (Answers(m) => HasRoom(m))

\* However few the slots, they are never all taken by futures that wait for others.
SlotsMoveOn == slots # {} => \E m \in slots : CanMoveOn(m)

-----------------------------------------------------------------------------
(* What the intervals are.                                                 *)

\* A message ends inside of every batch that it begins in.
LEMMA Nested ==
  ASSUME TypeOK
  PROVE  /\ Len(kind) \in Nat /\ Messages = 1 .. Len(kind)
         /\ \A m \in Messages : last[m] \in Messages /\ m <= last[m]
         /\ \A b, m \in Messages : m \in b .. last[b] => last[m] <= last[b]
BY DEF TypeOK, Nestings, Messages

\* What is right inside one batch is neither alone nor right inside another.
LEMMA PartsOf ==
  ASSUME TypeOK, NEW b \in Batches
  PROVE  /\ Parts(b) \subseteq {m \in Messages : b < m /\ m <= last[b]}
         /\ \A m \in Parts(b) : ~TopLevel(m)
         /\ \A c \in Batches, m \in Messages : m \in Parts(b) /\ m \in Parts(c) => b = c
<1>1. b \in Messages /\ Batches \subseteq Messages
  BY DEF Batches, OfKind
<1>2. ASSUME NEW c \in Batches, NEW m \in Parts(c)
      PROVE  m \in Messages /\ c \in Messages /\ c < m /\ m <= last[c]
  <2>1. c \in Messages /\ last[c] \in Messages /\ m \in c + 1 .. last[c]
    BY <1>1, <1>2, Nested DEF Parts, Inside
  <2> QED
    BY <2>1, Nested
<1>3. ASSUME NEW m \in Parts(b) PROVE ~TopLevel(m)
  <2>1. b \in 1 .. m - 1 /\ m \in Inside(b)
    BY <1>1, <1>2, <1>3, Nested DEF Parts
  <2> QED
    BY <2>1 DEF TopLevel
<1>4. ASSUME NEW c \in Batches, NEW d \in Batches, NEW m \in Messages,
             m \in Parts(c), m \in Parts(d), c < d
      PROVE  FALSE
  <2>1. /\ m \in Inside(d) /\ d \in Messages /\ c \in Messages /\ d < m
    BY <1>2, <1>4 DEF Parts
  <2>2. d \in c + 1 .. m - 1
    BY <1>4, <2>1, Nested
  <2> QED
    BY <1>4, <2>1, <2>2 DEF Parts
<1>5. ASSUME NEW c \in Batches, NEW m \in Messages, m \in Parts(b), m \in Parts(c) PROVE b = c
  <2>1. b \in Int /\ c \in Int
    BY <1>1, Nested
  <2>2. ~(b < c) /\ ~(c < b)
    BY <1>4, <1>5
  <2> QED
    BY <2>1, <2>2
<1> QED
  BY <1>2, <1>3, <1>5

\* A set of positions has a greatest one.
LEMMA Greatest ==
  ASSUME NEW n \in Nat, NEW S \in SUBSET (1 .. n), S # {}
  PROVE  \E m \in S : \A k \in S : k <= m
<1> DEFINE T == {n - k : k \in S}
<1>1. T \in SUBSET Nat /\ T # {}
  <2>1. \A k \in S : n - k \in Nat
    OBVIOUS
  <2>2. PICK k \in S : TRUE
    OBVIOUS
  <2>3. n - k \in T
    OBVIOUS
  <2> QED
    BY <2>1, <2>3
<1>2. \E d \in T : \A e \in T : ~(<<e, d>> \in OpToRel(<, Nat))
  <2> HIDE DEF T
  <2> QED
    BY <1>1, NatLessThanWellFounded, WFMin, Zenon
<1>3. PICK d \in T : \A e \in T : ~(<<e, d>> \in OpToRel(<, Nat))
  BY <1>2, Zenon
<1>4. \A e \in T : d <= e
  <2> SUFFICES ASSUME NEW e \in T, e < d PROVE FALSE
    BY <1>1, SMT
  <2>1. e \in Nat /\ d \in Nat
    BY <1>1
  <2> HIDE DEF T
  <2>2. <<e, d>> \in OpToRel(<, Nat)
    BY <2>1, Zenon DEF OpToRel
  <2> QED
    BY <1>3, <2>2, Zenon
<1>5. PICK m \in S : d = n - m
  OBVIOUS
<1>6. \A k \in S : n - m <= n - k
  BY <1>4, <1>5
<1> QED
  BY <1>5, <1>6

\* A message that is not alone is right inside one batch: the last that it is in.
LEMMA HasBatch ==
  ASSUME TypeOK, NEW m \in Messages, ~TopLevel(m)
  PROVE  \E b \in Batches : m \in Parts(b)
<1> DEFINE S == {b \in 1 .. m - 1 : m \in Inside(b)}
<1>1. m \in Nat /\ m \in 1 .. Len(kind) /\ Len(kind) \in Nat
  BY Nested
<1>2. S \in SUBSET (1 .. m) /\ S # {}
  BY <1>1 DEF TopLevel
<1>3. PICK b \in S : \A c \in S : c <= b
  <2> HIDE DEF S
  <2> QED
    BY <1>1, <1>2, Greatest
<1>4. b \in 1 .. m - 1 /\ m \in Inside(b)
  OBVIOUS
<1>5. b \in Messages /\ m \in b + 1 .. last[b]
  BY <1>1, <1>4, Nested DEF Inside
<1>6. b \in Batches
  <2>1. last[b] # b
    BY <1>1, <1>5, Nested
  <2> QED
    BY <1>5, <2>1 DEF TypeOK, Nestings, Batches, OfKind, Messages
<1>7. m \in Parts(b)
  <2> SUFFICES ASSUME NEW c \in b + 1 .. m - 1, m \in Inside(c) PROVE FALSE
    BY <1>4 DEF Parts
  <2>1. c \in 1 .. m - 1 /\ b < c /\ b \in Int /\ c \in Int
    BY <1>1, <1>4
  <2>2. c \in S
    BY <2>1
  <2> QED
    BY <1>3, <2>1, <2>2
<1> QED
  BY <1>6, <1>7

\* What the peer sends stays what it is.
LEMMA SameInput ==
  ASSUME kind' = kind, last' = last
  PROVE  /\ Messages' = Messages /\ Batches' = Batches /\ Answerable' = Answerable
         /\ \A b : Parts(b)' = Parts(b) /\ Inside(b)' = Inside(b)
         /\ \A m : TopLevel(m)' = TopLevel(m)
BY DEF Messages, Batches, Answerable, OfKind, Parts, Inside, TopLevel

LEMMA StepKeepsInput ==
  ASSUME [Next]_vars
  PROVE  kind' = kind /\ last' = last
BY DEF Next, ReadMessage, Terminate, Start, Finish, FinishBatch, Done, Collect, vars

\* do_msg ignores, delivers or answers.
LEMMA Handled ==
  ASSUME NEW m, NEW x, NEW stopper
  PROVE  DoMsg(m, x, stopper) \in {"ignored", "delivered", "open"}
BY DEF DoMsg

-----------------------------------------------------------------------------
(* Types.                                                                  *)

LEMMA TypesDone ==
  ASSUME TypeOK, NEW m \in Messages, NEW a \in BOOLEAN, Done(m, a)
  PROVE  TypeOK'
<1>1. kind' = kind /\ last' = last
  BY DEF Done
<1>2. Messages' = Messages /\ Batches' = Batches
  BY <1>1, SameInput
<1>3. sent' \subseteq Messages /\ buffer' \in [Batches -> SUBSET Messages]
  <2>1. CASE a
    BY <2>1 DEF Done, Deliver, TypeOK
  <2>2. CASE ~a
    BY <2>2 DEF Done, TypeOK
  <2> QED
    BY <2>1, <2>2
<1>4. fate' \in [Messages -> Fates] /\ slots' \subseteq Messages
  BY DEF Done, TypeOK, Fates
<1> QED
  BY <1>1, <1>2, <1>3, <1>4 DEF Done, TypeOK

\* The types hold: what is read is a nesting of messages, and all else is about them.
LEMMA BatchTypes == Spec => []TypeOK
<1>1. Init => TypeOK
  BY BatchAssumption DEF BatchAssumption, Init, TypeOK, Messages, Batches, OfKind, Fates
<1>2. TypeOK /\ [Next]_vars => TypeOK'
  <2> SUFFICES ASSUME TypeOK, [Next]_vars PROVE TypeOK'
    OBVIOUS
  <2>1. /\ kind' = kind /\ last' = last
        /\ Messages' = Messages /\ Batches' = Batches
    BY StepKeepsInput, SameInput
  <2>2. CASE ReadMessage
    <3>1. PICK stopper \in {Nobody} \cup (Callbacks \cap unread .. last[unread]) :
            /\ fate' = [x \in Messages |->
                          IF x \in unread .. last[unread] THEN DoMsg(unread, x, stopper)
                          ELSE fate[x]]
            /\ todo' = {x \in unread .. last[unread] : fate'[x] = "open"}
            /\ stop' = (stop \/ stopper # Nobody)
      BY <2>2 DEF ReadMessage
    <3>2. /\ unread \in Messages /\ unread' = last[unread] + 1
          /\ UNCHANGED <<slots, buffer, got, sent>>
      BY <2>2 DEF ReadMessage
    <3>3. unread' \in 1 .. Len(kind) + 1 /\ unread .. last[unread] \subseteq Messages
      BY <3>2, Nested
    <3>4. fate' \in [Messages -> Fates]
      <4>1. ASSUME NEW x \in Messages
            PROVE  (IF x \in unread .. last[unread] THEN DoMsg(unread, x, stopper)
                    ELSE fate[x]) \in Fates
        BY Handled DEF TypeOK, Fates
      <4> QED
        BY <3>1, <4>1
    <3>5. todo' \subseteq Messages /\ stop' \in BOOLEAN
      BY <3>1, <3>3
    <3> QED
      BY <2>1, <3>2, <3>3, <3>4, <3>5 DEF TypeOK
  <2>3. CASE Terminate
    BY <2>1, <2>3 DEF Terminate, TypeOK
  <2>4. ASSUME NEW m \in Messages, Start(m) PROVE TypeOK'
    BY <2>1, <2>4 DEF Start, TypeOK
  <2>5. ASSUME NEW m \in Messages, Finish(m) PROVE TypeOK'
    <3>1. (m \in Answerable) \in BOOLEAN /\ Done(m, m \in Answerable)
      BY <2>5 DEF Finish
    <3> QED
      BY <3>1, TypesDone
  <2>6. ASSUME NEW b \in Batches, Collect(b) PROVE TypeOK'
    BY <2>1, <2>6 DEF Collect, TypeOK
  <2>7. ASSUME NEW b \in Batches, FinishBatch(b) PROVE TypeOK'
    <3>1. b \in Messages
      BY DEF Batches, OfKind
    <3> QED
      BY <2>7, <3>1, TypesDone DEF FinishBatch, Answers
  <2>8. CASE UNCHANGED vars
    BY <2>1, <2>8 DEF vars, TypeOK
  <2> QED
    BY <2>2, <2>3, <2>4, <2>5, <2>6, <2>7, <2>8 DEF Next
<1> QED
  BY <1>1, <1>2, PTL DEF Spec

-----------------------------------------------------------------------------
(* The inductive invariant.                                                *)

\* A message that is read has whatever becomes of it now, and none of what it holds
\* has been looked at before.
LEMMA InvRead ==
  ASSUME TypeOK, BatchInv, ReadMessage
  PROVE  BatchInv'
<1> DEFINE whole == unread .. last[unread]
<1>1. /\ kind' = kind /\ last' = last /\ unread \in Messages /\ todo = {}
      /\ unread' = last[unread] + 1 /\ UNCHANGED <<slots, buffer, got, sent>>
  BY DEF ReadMessage
<1>2. /\ Messages' = Messages /\ Batches' = Batches /\ Answerable' = Answerable
      /\ \A b : Parts(b)' = Parts(b)
      /\ \A m : TopLevel(m)' = TopLevel(m)
  BY <1>1, SameInput
<1>3. Messages \subseteq Nat /\ last[unread] \in Nat /\ unread \in Nat
      /\ unread <= last[unread] /\ Batches \subseteq Messages
  BY <1>1, Nested DEF Batches, OfKind
<1>4. /\ \A m \in Messages : m \notin whole => fate'[m] = fate[m]
      /\ \A m \in Messages : m \in whole => fate'[m] \in {"ignored", "delivered", "open"}
      /\ todo' = {x \in whole : fate'[x] = "open"} /\ whole \subseteq Messages
  <2>1. PICK stopper \in {Nobody} \cup (Callbacks \cap unread .. last[unread]) :
          /\ fate' = [x \in Messages |->
                        IF x \in whole THEN DoMsg(unread, x, stopper) ELSE fate[x]]
          /\ todo' = {x \in whole : fate'[x] = "open"}
    BY DEF ReadMessage
  <2>2. whole \subseteq Messages
    BY <1>1, Nested
  <2> HIDE DEF whole
  <2> QED
    BY <2>1, <2>2, Handled
<1>5. \A m \in whole : fate[m] = "unread"
  BY <1>3, <1>4 DEF BatchInv, ReadWhole
<1>6. ReadWhole'
  <2>1. ASSUME NEW m \in Messages, m < unread' PROVE last[m] < unread'
    <3>1. CASE m < unread
      BY <1>1, <1>3, <3>1, Nested DEF BatchInv, ReadWhole
    <3>2. CASE m \in whole
      BY <1>1, <1>3, <3>2, Nested
    <3> QED
      BY <1>1, <1>3, <2>1, <3>1, <3>2
  <2>2. ASSUME NEW m \in Messages PROVE fate'[m] = "unread" <=> unread' <= m
    <3>1. CASE m \in whole
      BY <1>1, <1>3, <1>4, <3>1
    <3>2. CASE m \notin whole
      <4>1. unread' <= m <=> unread <= m
        BY <1>1, <1>3, <3>2
      <4> QED
        BY <1>4, <3>2, <4>1 DEF BatchInv, ReadWhole
    <3> QED
      BY <3>1, <3>2
  <2> QED
    BY <1>1, <1>2, <2>1, <2>2 DEF ReadWhole
<1> HIDE DEF whole
<1>7. Working'
  <2>1. slots \subseteq Messages /\ \A m \in slots : fate[m] = "open"
    BY DEF BatchInv, Working, TypeOK
  <2>2. \A m \in slots : m \notin whole
    BY <1>5, <2>1
  <2>3. ASSUME NEW m \in Messages PROVE fate'[m] = "open" <=> m \in todo' \cup slots'
    BY <1>1, <1>4, <2>1, <2>2 DEF BatchInv, Working
  <2>4. todo' \cap slots' = {}
    BY <1>1, <1>4, <2>2
  <2> QED
    BY <1>2, <2>3, <2>4 DEF Working
<1>8. \A m \in Messages : (fate'[m] = "finished" <=> fate[m] = "finished")
                          /\ HasAnswer(m)' = HasAnswer(m)
  BY <1>1, <1>2, <1>4, <1>5 DEF HasAnswer
<1>9. ResultsKept'
  <2> SUFFICES ASSUME NEW b \in Batches
               PROVE  /\ buffer[b] \cup got[b] = Results(b)'
                      /\ fate'[b] = "finished" =>
                           buffer[b] = {} /\ \A m \in Parts(b) : fate'[m] # "open"
    BY <1>1, <1>2 DEF ResultsKept
  <2>1. Results(b)' = Results(b)
    BY <1>2, <1>8, PartsOf DEF Results
  <2>2. ASSUME fate[b] = "finished", NEW m \in Parts(b) PROVE fate'[m] # "open"
    <3>1. m \in Messages /\ b \in Messages /\ b < m /\ m <= last[b]
      BY <1>3, PartsOf
    <3>2. b < unread /\ unread \in Nat
      BY <1>3, <2>2, <3>1 DEF BatchInv, ReadWhole
    <3>3. m < unread
      BY <1>3, <3>1, <3>2, Nested DEF BatchInv, ReadWhole
    <3>4. m \notin whole
      BY <1>3, <3>1, <3>3 DEF whole
    <3> QED
      BY <1>4, <2>2, <3>1, <3>4 DEF BatchInv, ResultsKept
  <2> QED
    BY <1>3, <1>8, <2>1, <2>2 DEF BatchInv, ResultsKept
<1>10. Sent'
  BY <1>1, <1>2, <1>8 DEF BatchInv, Sent
<1> QED
  BY <1>6, <1>7, <1>9, <1>10 DEF BatchInv

\* A future that is done leaves its answer where it belongs, and nothing else.
LEMMA InvDone ==
  ASSUME TypeOK, BatchInv, NEW m \in Messages, Done(m, HasAnswer(m)),
         m \in Batches => buffer[m] = {} /\ SendersGone(m)
  PROVE  BatchInv'
<1>1. /\ kind' = kind /\ last' = last /\ m \in slots
      /\ slots' = slots \ {m} /\ fate' = [fate EXCEPT ![m] = "finished"]
      /\ UNCHANGED <<unread, todo, got>>
  BY DEF Done
<1>2. /\ Messages' = Messages /\ Batches' = Batches /\ Answerable' = Answerable
      /\ \A b : Parts(b)' = Parts(b)
      /\ \A x : TopLevel(x)' = TopLevel(x)
  BY <1>1, SameInput
<1>3. /\ fate[m] = "open" /\ fate'[m] = "finished"
      /\ \A x \in Messages \ {m} : fate'[x] = fate[x]
  BY <1>1 DEF BatchInv, Working, TypeOK
<1>4. \A x \in Messages : HasAnswer(x)' = HasAnswer(x)
  BY <1>1, <1>2 DEF HasAnswer
<1>5. Batches \subseteq Messages
  BY DEF Batches, OfKind
<1>6. /\ \A b \in Batches : buffer'[b] =
           IF HasAnswer(m) /\ m \in Parts(b) THEN buffer[b] \cup {m} ELSE buffer[b]
      /\ TopLevel(m) => (m \in sent' <=> HasAnswer(m))
      /\ \A x \in Messages \ {m} : TopLevel(x) => (x \in sent' <=> x \in sent)
  <2>1. TopLevel(m) => m \notin sent
    BY <1>3 DEF BatchInv, Sent
  <2>2. CASE ~HasAnswer(m)
    <3>1. UNCHANGED <<buffer, sent>>
      BY <2>2 DEF Done
    <3> QED
      BY <2>1, <2>2, <3>1
  <2>3. CASE HasAnswer(m) /\ TopLevel(m) /\ sent' = sent \cup {m} /\ UNCHANGED buffer
    BY <2>3, PartsOf
  <2>4. ASSUME HasAnswer(m), NEW c \in Batches, m \in Parts(c), UNCHANGED sent,
               buffer' = [buffer EXCEPT ![c] = @ \cup {m}]
        PROVE  /\ \A b \in Batches : buffer'[b] =
                    IF HasAnswer(m) /\ m \in Parts(b) THEN buffer[b] \cup {m} ELSE buffer[b]
               /\ TopLevel(m) => (m \in sent' <=> HasAnswer(m))
               /\ \A x \in Messages \ {m} : TopLevel(x) => (x \in sent' <=> x \in sent)
    <3>1. \A b \in Batches : m \in Parts(b) <=> b = c
      BY <2>4, PartsOf
    <3>2. ~TopLevel(m)
      BY <2>4, PartsOf
    <3>3. buffer \in [Batches -> SUBSET Messages]
      BY DEF TypeOK
    <3> QED
      BY <2>4, <3>1, <3>2, <3>3
  <2> QED
    BY <2>2, <2>3, <2>4 DEF Done, Deliver
<1>7. ReadWhole'
  BY <1>1, <1>2, <1>3 DEF BatchInv, ReadWhole
<1>8. Working'
  BY <1>1, <1>2, <1>3 DEF BatchInv, Working
<1>9. ResultsKept'
  <2> SUFFICES ASSUME NEW b \in Batches
               PROVE  /\ buffer'[b] \cup got[b] = Results(b)'
                      /\ fate'[b] = "finished" =>
                           buffer'[b] = {} /\ \A x \in Parts(b) : fate'[x] # "open"
    BY <1>1, <1>2 DEF ResultsKept
  <2>1. Parts(b) \subseteq Messages
    BY PartsOf
  <2>2. Results(b)' =
          IF HasAnswer(m) /\ m \in Parts(b) THEN Results(b) \cup {m} ELSE Results(b)
    BY <1>2, <1>3, <1>4, <2>1 DEF Results
  <2>3. buffer[b] \cup got[b] = Results(b)
    BY DEF BatchInv, ResultsKept
  <2>4. buffer'[b] \cup got[b] = Results(b)'
    BY <1>6, <2>2, <2>3
  <2>5. ASSUME fate'[b] = "finished"
        PROVE  buffer[b] = {} /\ \A x \in Parts(b) : fate[x] # "open"
    <3>1. CASE b = m
      BY <3>1 DEF SendersGone
    <3>2. CASE b # m
      BY <1>3, <1>5, <2>5, <3>2 DEF BatchInv, ResultsKept
    <3> QED
      BY <3>1, <3>2
  <2>6. ASSUME fate'[b] = "finished"
        PROVE  buffer'[b] = {} /\ \A x \in Parts(b) : fate'[x] # "open"
    <3>1. m \notin Parts(b)
      BY <1>3, <2>5, <2>6
    <3> QED
      BY <1>3, <1>6, <2>1, <2>5, <2>6, <3>1
  <2> QED
    BY <2>4, <2>6
<1>10. Sent'
  BY <1>2, <1>3, <1>4, <1>6 DEF BatchInv, Sent
<1> QED
  BY <1>7, <1>8, <1>9, <1>10 DEF BatchInv

\* Taking results out of the channel keeps them.
LEMMA InvCollect ==
  ASSUME TypeOK, BatchInv, NEW c \in Batches, Collect(c)
  PROVE  BatchInv'
<1>1. /\ kind' = kind /\ last' = last /\ c \in slots
      /\ got' = [got EXCEPT ![c] = @ \cup buffer[c]]
      /\ buffer' = [buffer EXCEPT ![c] = {}]
      /\ UNCHANGED <<unread, fate, todo, slots, sent>>
  BY DEF Collect
<1>2. /\ Messages' = Messages /\ Batches' = Batches /\ Answerable' = Answerable
      /\ \A b : Parts(b)' = Parts(b)
      /\ \A x : TopLevel(x)' = TopLevel(x)
  BY <1>1, SameInput
<1>3. c \in Messages /\ fate[c] = "open"
  BY <1>1 DEF BatchInv, Working, Batches, OfKind
<1>4. /\ buffer'[c] = {} /\ got'[c] = got[c] \cup buffer[c]
      /\ \A b \in Batches \ {c} : buffer'[b] = buffer[b] /\ got'[b] = got[b]
  BY <1>1 DEF TypeOK
<1>5. \A x \in Messages \ {c} : HasAnswer(x)' = HasAnswer(x)
  BY <1>2, <1>4 DEF HasAnswer
<1>6. ResultsKept'
  <2> SUFFICES ASSUME NEW b \in Batches
               PROVE  /\ buffer'[b] \cup got'[b] = Results(b)'
                      /\ fate[b] = "finished" =>
                           buffer'[b] = {} /\ \A x \in Parts(b) : fate[x] # "open"
    BY <1>1, <1>2 DEF ResultsKept
  <2>1. Results(b)' = Results(b)
    <3>1. \A x \in Parts(b) : x \in Messages
      BY PartsOf
    <3> QED
      BY <1>1, <1>2, <1>3, <1>5, <3>1 DEF Results
  <2>2. buffer'[b] \cup got'[b] = buffer[b] \cup got[b]
    BY <1>4
  <2>3. fate[b] = "finished" => b # c
    BY <1>3
  <2> QED
    BY <1>4, <2>1, <2>2, <2>3 DEF BatchInv, ResultsKept
<1>7. Sent'
  BY <1>1, <1>2, <1>3, <1>5 DEF BatchInv, Sent
<1> QED
  BY <1>1, <1>2, <1>6, <1>7 DEF BatchInv, ReadWhole, Working

\* Each batch has its results in one place and all of them, and each message is
\* worked off once.
LEMMA BatchInvariant == Spec => []BatchInv
<1>1. Init => BatchInv
  <2> SUFFICES ASSUME Init PROVE BatchInv
    OBVIOUS
  <2>1. Messages \subseteq Nat \ {0} /\ Batches \subseteq Messages
    BY BatchAssumption DEF BatchAssumption, Init, Messages, Batches, OfKind
  <2>2. ReadWhole
    BY <2>1 DEF Init, ReadWhole
  <2>3. Working
    BY DEF Init, Working
  <2>4. ResultsKept
    <3>1. \A b \in Batches : Parts(b) \subseteq Messages
      <4>1. TypeOK
        BY BatchAssumption
           DEF BatchAssumption, Init, TypeOK, Messages, Batches, OfKind, Fates
      <4> QED
        BY <4>1, PartsOf
    <3> QED
      BY <2>1, <3>1 DEF Init, ResultsKept, Results
  <2>5. Sent
    BY <2>1 DEF Init, Sent
  <2> QED
    BY <2>2, <2>3, <2>4, <2>5 DEF BatchInv
<1>2. TypeOK /\ BatchInv /\ [Next]_vars => BatchInv'
  <2> SUFFICES ASSUME TypeOK, BatchInv, [Next]_vars PROVE BatchInv'
    OBVIOUS
  <2>1. /\ kind' = kind /\ last' = last
        /\ Messages' = Messages /\ Batches' = Batches /\ Answerable' = Answerable
        /\ \A b : Parts(b)' = Parts(b)
        /\ \A x : TopLevel(x)' = TopLevel(x)
    BY StepKeepsInput, SameInput
  <2>2. CASE ReadMessage
    BY <2>2, InvRead
  <2>3. CASE Terminate
    BY <2>1, <2>3 DEF Terminate, BatchInv, ReadWhole, Working, ResultsKept, Sent, Results,
                      HasAnswer
  <2>4. ASSUME NEW m \in Messages, Start(m) PROVE BatchInv'
    <3>1. todo' \cup slots' = todo \cup slots /\ todo' \cap slots' = {}
      BY <2>4 DEF Start, BatchInv, Working
    <3> QED
      BY <2>1, <2>4, <3>1 DEF Start, BatchInv, ReadWhole, Working, ResultsKept, Sent, Results,
                              HasAnswer
  <2>5. ASSUME NEW m \in Messages, Finish(m) PROVE BatchInv'
    <3>1. m \notin Batches /\ Done(m, HasAnswer(m))
      BY <2>5 DEF Finish, HasAnswer
    <3> QED
      BY <3>1, InvDone
  <2>6. ASSUME NEW b \in Batches, Collect(b) PROVE BatchInv'
    BY <2>6, InvCollect
  <2>7. ASSUME NEW b \in Batches, FinishBatch(b) PROVE BatchInv'
    <3>1. b \in Messages /\ buffer[b] = {} /\ SendersGone(b) /\ Done(b, HasAnswer(b))
      BY <2>7 DEF FinishBatch, HasAnswer, Answers, Batches, OfKind
    <3> QED
      BY <3>1, InvDone
  <2>8. CASE UNCHANGED vars
    BY <2>1, <2>8 DEF vars, BatchInv, ReadWhole, Working, ResultsKept, Sent, Results, HasAnswer
  <2> QED
    BY <2>2, <2>3, <2>4, <2>5, <2>6, <2>7, <2>8 DEF Next
<1> QED
  BY <1>1, <1>2, BatchTypes, PTL DEF Spec

-----------------------------------------------------------------------------
(* The theorems.                                                           *)

\* The answer to a batch holds the answers to its parts, none missing, and goes to
\* the peer unless there is none.
THEOREM BatchesAnswered == Spec => []BatchAnswered
<1>1. TypeOK /\ BatchInv => BatchAnswered
  <2> SUFFICES ASSUME TypeOK, BatchInv, NEW b \in Batches, fate[b] = "finished"
               PROVE  /\ got[b] = Results(b)
                      /\ \A m \in Parts(b) : fate[m] # "open"
                      /\ TopLevel(b) => (b \in sent <=> got[b] # {})
    BY DEF BatchAnswered
  <2>1. b \in Messages
    BY DEF Batches, OfKind
  <2>2. HasAnswer(b) <=> got[b] # {}
    BY DEF HasAnswer
  <2> QED
    BY <2>1, <2>2 DEF BatchInv, ResultsKept, Sent
<1> QED
  BY <1>1, BatchTypes, BatchInvariant, PTL

\* The channel of a batch is long enough: no part ever waits to put its answer there.
THEOREM ChannelsSuffice == Spec => []ResultsFit
<1>1. TypeOK /\ BatchInv => ResultsFit
  <2> SUFFICES ASSUME TypeOK, BatchInv, NEW b \in Batches, NEW m \in slots \cap Parts(b)
               PROVE  Cardinality(buffer[b]) < Cardinality(Parts(b))
    BY DEF ResultsFit, Capacity
  <2>1. m \in Messages /\ fate[m] = "open"
    BY DEF TypeOK, BatchInv, Working
  <2>2. buffer[b] \subseteq Results(b)
    BY DEF BatchInv, ResultsKept
  <2>3. buffer[b] \subseteq Parts(b) /\ m \notin buffer[b]
    BY <2>1, <2>2 DEF Results
  <2>4. IsFiniteSet(Parts(b))
    <3>1. Parts(b) \in SUBSET (1 .. Len(kind)) /\ 1 \in Int /\ Len(kind) \in Int
      BY PartsOf, Nested
    <3> QED
      BY <3>1, FS_Interval, FS_Subset
  <2>5. Cardinality(buffer[b]) <= Cardinality(Parts(b))
        /\ (Cardinality(Parts(b)) = Cardinality(buffer[b]) => Parts(b) = buffer[b])
    BY <2>3, <2>4, FS_Subset
  <2>6. Cardinality(buffer[b]) \in Nat /\ Cardinality(Parts(b)) \in Nat
    BY <2>3, <2>4, FS_Subset, FS_CardinalityType
  <2> QED
    BY <2>3, <2>5, <2>6
<1> QED
  BY <1>1, BatchTypes, BatchInvariant, PTL

\* The future that collects a batch never has a slot while a part waits for one.
LEMMA PartsHaveSlots == Spec => []PartsFirst
<1>1. Init => PartsFirst
  BY DEF Init, PartsFirst
<1>2. TypeOK /\ BatchInv /\ PartsFirst /\ [Next]_vars => PartsFirst'
  <2> SUFFICES ASSUME TypeOK, BatchInv, PartsFirst, [Next]_vars PROVE PartsFirst'
    OBVIOUS
  <2>1. /\ kind' = kind /\ last' = last /\ Batches' = Batches /\ Batches \subseteq Messages
        /\ \A b : Parts(b)' = Parts(b)
    BY StepKeepsInput, SameInput DEF Batches, OfKind
  <2>2. CASE ReadMessage
    <3> SUFFICES ASSUME NEW b \in Batches, b \in slots, NEW m \in Parts(b) PROVE m \notin todo'
      BY <2>1, <2>2 DEF ReadMessage, PartsFirst
    <3>1. todo' \subseteq unread .. last[unread] /\ unread \in Messages
      BY <2>2 DEF ReadMessage
    <3>2. b \in Messages /\ fate[b] = "open" /\ unread \in Int /\ b \in Int
      BY <2>1, <3>1, Nested DEF BatchInv, Working
    <3>3. b < unread
      BY <3>2 DEF BatchInv, ReadWhole
    <3>4. last[b] < unread /\ last[b] \in Int
      BY <3>2, <3>3, Nested DEF BatchInv, ReadWhole
    <3>5. m \in Int /\ m <= last[b]
      BY PartsOf, Nested
    <3> QED
      BY <3>1, <3>2, <3>4, <3>5
  <2>3. ASSUME NEW x \in Messages, Start(x) PROVE PartsFirst'
    <3> SUFFICES ASSUME NEW b \in Batches, b \in slots', NEW m \in Parts(b), m \in todo'
                 PROVE  FALSE
      BY <2>1 DEF PartsFirst
    <3>1. slots' = slots \cup {x} /\ todo' = todo \ {x} /\ \A y \in todo \ {x} : Before(x, y)
      BY <2>3 DEF Start
    <3>2. CASE b \in slots
      BY <3>1, <3>2 DEF PartsFirst
    <3>3. CASE b = x
      <4>1. last[b] < last[m] \/ (last[b] = last[m] /\ b > m)
        BY <3>1, <3>3 DEF Before
      <4>2. m \in Messages /\ b \in Messages /\ b < m /\ m <= last[b]
        BY <2>1, PartsOf
      <4>3. last[m] <= last[b] /\ last[m] \in Int /\ last[b] \in Int /\ b \in Int /\ m \in Int
        BY <4>2, Nested
      <4> QED
        BY <4>1, <4>2, <4>3
    <3> QED
      BY <3>1, <3>2, <3>3
  <2>4. CASE slots' \subseteq slots /\ todo' = todo
    BY <2>1, <2>4 DEF PartsFirst
  <2>5. CASE Terminate \/ UNCHANGED vars
    BY <2>4, <2>5 DEF Terminate, vars
  <2>6. ASSUME NEW m \in Messages, Finish(m) PROVE PartsFirst'
    BY <2>4, <2>6 DEF Finish, Done
  <2>7. ASSUME NEW b \in Batches, Collect(b) \/ FinishBatch(b) PROVE PartsFirst'
    BY <2>4, <2>7 DEF Collect, FinishBatch, Done
  <2> QED
    BY <2>2, <2>3, <2>5, <2>6, <2>7 DEF Next
<1> QED
  BY <1>1, <1>2, BatchTypes, BatchInvariant, PTL DEF Spec

\* With any number of slots some future that has one can go on: batches never block
\* each other or themselves, whether or not their parts have had their turn.
THEOREM NoBatchDeadlock == Spec => []SlotsMoveOn
<1>1. TypeOK /\ BatchInv /\ PartsFirst /\ ResultsFit => SlotsMoveOn
  <2> SUFFICES ASSUME TypeOK, BatchInv, PartsFirst, ResultsFit, slots # {}
               PROVE  \E m \in slots : CanMoveOn(m)
    BY DEF SlotsMoveOn
  <2>1. slots \in SUBSET (1 .. Len(kind)) /\ Len(kind) \in Nat /\ slots \subseteq Messages
    BY Nested DEF TypeOK
  <2>2. PICK m \in slots : \A k \in slots : k <= m
    BY <2>1, Greatest
  <2>3. HasRoom(m)
    <3>1. CASE TopLevel(m)
      BY <3>1 DEF HasRoom
    <3>2. CASE ~TopLevel(m)
      <4>1. PICK b \in Batches : m \in Parts(b)
        BY <2>1, <3>2, HasBatch
      <4> QED
        BY <4>1 DEF ResultsFit, HasRoom
    <3> QED
      BY <3>1, <3>2
  <2>4. CASE m \in Batches
    <3>1. ASSUME NEW x \in Parts(m) PROVE fate[x] # "open"
      <4>1. x \in Messages /\ m < x /\ x \in Int /\ m \in Int
        BY <2>1, <2>4, PartsOf, Nested
      <4>2. x \notin slots
        BY <2>2, <4>1
      <4>3. x \notin todo
        BY <2>4 DEF PartsFirst
      <4> QED
        BY <4>1, <4>2, <4>3 DEF BatchInv, Working
    <3> QED
      BY <2>3, <2>4, <3>1 DEF CanMoveOn, SendersGone
  <2>5. CASE m \notin Batches
    BY <2>3, <2>5 DEF CanMoveOn
  <2> QED
    BY <2>4, <2>5
<1> QED
  BY <1>1, BatchTypes, BatchInvariant, PartsHaveSlots, ChannelsSuffice, PTL
=============================================================================
