------------------------------ MODULE Exchange ------------------------------
(***************************************************************************)
(* Two endpoints and what they say to each other: calls and notifications  *)
(* are written, read, dispatched to a chain of servers, decoded with       *)
(* jsonrpc_params! and answered (src/src/endpoint.rs, server.rs and        *)
(* message.rs).  What the messages hold is what matters here; the futures, *)
(* channels and ends of connections they go through are in Endpoint, the   *)
(* slots in Batch, the bytes in LineCodec.                                 *)
(*                                                                         *)
(* A peer of another make may add texts of its own.  The servers are       *)
(* those of an application that returns the parameters it gets.            *)
(*                                                                         *)
(* A text is a function from the places of its values, in the order they   *)
(* stand in, to what each `holds` and to the batches it is `inside` of,    *)
(* given by their places.  A message is the same of its parts.             *)
(***************************************************************************)
EXTENDS MessageFormat, Params, FiniteSets

CONSTANTS
  Calls,      \* calls, by the ids they have
  Sides,      \* the two endpoints
  Caller,     \* which of them makes each call
  Chains,     \* chains of servers each endpoint may have
  Questions,  \* what each call may ask: methods and parameters
  Notices,    \* what notifications may tell: the same
  Foreign,    \* texts another peer may send
  MaxOthers   \* bound: notifications and foreign texts

IsQuestion(q) ==
  /\ IsOption(q.params)
  /\ q.params # None /\ q.params[1].type = "array" => IsSeq(q.params[1].items)

ASSUME ExchangeAssumption ==
  /\ Caller \in [Calls -> Sides] /\ \E s, t \in Sides : s # t /\ Sides = {s, t}
  /\ \A c \in Calls : \A q \in Questions[c] : IsQuestion(q)
  /\ \A q \in Notices : IsQuestion(q)
  /\ MaxOthers \in Nat

ASSUME ChainsAssumption ==
  \A side \in Sides : \A servers \in Chains[side] :
    /\ IsSeq(servers)
    /\ \A i \in DOMAIN servers : \A method \in DOMAIN servers[i].methods :
         IsDefinition(servers[i].methods[method])

VARIABLES
  chain,  \* the servers of each endpoint
  calls,  \* what each call asks, and what came of it
  wire,   \* what travels to each endpoint: texts, and as what they were written
  others  \* how many notifications and foreign texts were sent

vars == <<chain, calls, wire, others>>

Other(side) == CHOOSE s \in Sides : s # side

First(S) == CHOOSE i \in S : \A j \in S : i <= j

-----------------------------------------------------------------------------
(* Texts, messages, and the parts of batches.                              *)

Root == 1
Alone(x) == [place \in {Root} |-> [holds |-> x, inside |-> {}]]

\* What is no JSON, and an array that is none of the structures: its items have
\* places of their own.
Garbage == [type |-> "garbage"]
List == [type |-> "list"]

\* A broken text is known by the error it is answered with.
Broken(error) == [kind |-> "broken", error |-> error]

Each(Op(_), m) ==
  [place \in DOMAIN m |-> [holds |-> Op(m[place].holds), inside |-> m[place].inside]]

\* A batch is tried after all that is not one, and takes any array.
ReadPart(v) == IF v = List THEN Batch ELSE ReadSingle(v)

Parse(text) ==
  LET read == Each(ReadPart, text)
      root == IF text[Root].holds = Garbage THEN Broken(ParseError)
              ELSE IF read[Root].holds.kind = "unmatched" THEN Broken(InvalidRequest)
              ELSE read[Root].holds
  IN  [read EXCEPT ![Root].holds = root]

WritePart(m) == IF m = Batch THEN List ELSE WriteSingle(m)
Write(m) == Each(WritePart, m)

\* What a text is.  An array with a place of its own is one of the structures, and a
\* list is none: these have three or four items, the version first.
IsText(text) ==
  LET lists == {place \in DOMAIN text : text[place].holds = List}
      items(list) == {place \in DOMAIN text :
                        text[place].inside = text[list].inside \cup {list}}
  IN  /\ DOMAIN text \subseteq Nat /\ Root \in DOMAIN text
      /\ \A place \in DOMAIN text :
           /\ text[place].inside \subseteq {list \in lists : list < place}
           /\ place # Root => Root \in text[place].inside
           /\ \A list \in text[place].inside :
                text[list].inside \subseteq text[place].inside
           /\ text[place].holds.type = "array" =>
                ReadSingle(text[place].holds).kind # "unmatched"
      /\ \A list \in lists : Cardinality(items(list)) \in {3, 4} =>
           text[First(items(list))].holds # Version

\* Another peer does not happen on the ids of the calls.
ASSUME ForeignAssumption ==
  \A text \in Foreign :
    /\ IsText(text)
    /\ \A place \in DOMAIN text :
         Parse(text)[place].holds.kind \in {"request", "response"} =>
           Parse(text)[place].holds.id \notin {String(c) : c \in Calls}

-----------------------------------------------------------------------------
(* Servers.                                                                *)

\* An Empty server among others terminates the endpoint of all of them when the
\* chain is initialised.
Stopped(side) == \E i \in DOMAIN chain[side] : chain[side][i].empty

Knows(side, method) ==
  {i \in DOMAIN chain[side] : method \in DOMAIN chain[side][i].methods}

\* The first server of the chain that knows the method answers.
Definition(side, method) ==
  chain[side][First(Knows(side, method))].methods[method]

\* What a server of the application makes of its parameters.
Answer(decoded) ==
  IF decoded = Refused THEN Err(InvalidParams)
  ELSE Ok(IF decoded[1] = <<>> THEN Null ELSE Array(decoded[1]))

Serve(side, method, params) ==
  IF Knows(side, method) = {} THEN Err(MethodNotFound(method))
  ELSE Answer(Decode(Definition(side, method), params))

-----------------------------------------------------------------------------
(* Dispatch.                                                               *)

\* What a message that is no batch is answered with.
Answered(side, m) ==
  CASE m.kind = "request" -> Some(Response(Serve(side, m.method, m.params), m.id))
    [] m.kind = "broken" -> Some(TopLevel(m.error))
    [] m.kind = "unmatched" -> Some(TopLevel(InvalidRequest))
    [] OTHER -> None

\* What is sent for a message: a batch for each with an answer inside, or nothing.
Reply(side, m) ==
  LET answered == {place \in DOMAIN m : Answered(side, m[place].holds) # None}
      around == UNION {m[place].inside : place \in answered}
  IN  [place \in answered \cup around |->
         [holds  |-> IF place \in answered THEN Answered(side, m[place].holds)[1] ELSE Batch,
          inside |-> m[place].inside]]

\* do_response: an id that is a string and in the idmap.
Resolves_Any(response, c) == response.id.type = "string"
Resolves(response, c) == response.id = String(c)

Waits(side, c) == Caller[c] = side /\ calls[c].status = "waiting"

\* The first of several responses takes the call out of the idmap.
Resolved(side, m) ==
  [c \in Calls |->
     LET mine == {place \in DOMAIN m :
                    m[place].holds.kind = "response" /\ Resolves(m[place].holds, c)}
     IN  IF Waits(side, c) /\ mine # {}
         THEN [status |-> "done", asks |-> calls[c].asks,
               result |-> Some(m[First(mine)].holds.result)]
         ELSE calls[c]]

Written(m) == [text |-> Write(m), from |-> Some(m)]

\* do_msg for a text, and the answer if there is one.
Handle(side, m) ==
  /\ \E sent \in {IF Stopped(side) THEN <<>> ELSE Reply(side, m)} :
       wire' = [s \in Sides |->
                  IF s = side THEN Tail(wire[s])
                  ELSE IF DOMAIN sent = {} THEN wire[s]
                  ELSE Append(wire[s], Written(sent))]
  /\ calls' = IF Stopped(side) /\ m[Root].holds.kind # "response" THEN calls
              ELSE Resolved(side, m)

Receive(side) ==
  /\ wire[side] # <<>>
  /\ \E m \in {Parse(Head(wire[side]).text)} : Handle(side, m)
  /\ UNCHANGED <<chain, others>>

-----------------------------------------------------------------------------
(* The applications, and the peer of another make.                         *)

SendTo(side, entry) == wire' = [wire EXCEPT ![side] = Append(@, entry)]

Call(c, q) ==
  /\ calls[c].status = "idle"
  /\ calls' = [calls EXCEPT ![c] = [status |-> "waiting", asks |-> Some(q), result |-> None]]
  /\ SendTo(Other(Caller[c]), Written(Alone(Request(q.method, q.params, String(c)))))
  /\ UNCHANGED <<chain, others>>

Notify(side, q) ==
  /\ others < MaxOthers /\ others' = others + 1
  /\ SendTo(Other(side), Written(Alone(Notification(q.method, q.params))))
  /\ UNCHANGED <<chain, calls>>

Inject(side, text) ==
  /\ others < MaxOthers /\ others' = others + 1
  /\ SendTo(side, [text |-> text, from |-> None])
  /\ UNCHANGED <<chain, calls>>

Init ==
  /\ chain \in {f \in [Sides -> UNION {Chains[s] : s \in Sides}] : \A s \in Sides : f[s] \in Chains[s]}
  /\ calls = [c \in Calls |-> [status |-> "idle", asks |-> None, result |-> None]]
  /\ wire = [s \in Sides |-> <<>>]
  /\ others = 0

Next ==
  \/ \E c \in Calls : \E q \in Questions[c] : Call(c, q)
  \/ \E side \in Sides :
       \/ Receive(side)
       \/ \E q \in Notices : Notify(side, q)
       \/ \E text \in Foreign : Inject(side, text)

Spec == Init /\ [][Next]_vars

\* Each endpoint reads what comes, until the end.
FairSpec == Spec /\ \A side \in Sides : WF_vars(Receive(side))

-----------------------------------------------------------------------------
(* Properties.                                                             *)

SettlePart(m) == IF m = Batch THEN Batch ELSE SettleSingle(m)
Settled(m) == Each(SettlePart, m)

\* What an endpoint of this crate writes, batches of answers included, the other
\* one reads as the message that was written, but that null for Option is nothing.
ReadsBack ==
  \A side \in Sides : \A i \in DOMAIN wire[side] :
    LET entry == wire[side][i]
    IN  entry.from # None => Parse(entry.text) = Settled(entry.from[1])

Callee(c) == Other(Caller[c])
Asked(c) == calls[c].asks[1]

\* A call gets the answer to what it asked, and no other, whatever else is under
\* way; null for parameters is no parameters.
AnswersAreTrue ==
  \A c \in Calls :
    calls[c].status = "done" =>
      calls[c].result = Some(Serve(Callee(c), Asked(c).method, Settle(Asked(c).params)))

\* A call with the right arguments for the first server that knows the method, in
\* the order of its parameters or by their names, is answered with these arguments.
\* But a single parameter whose type accepts the array or object the argument comes
\* in gets that instead, which may lose the argument.
Arguments(def, params) ==
  LET v == params[1]
      byPosition == v.type = "array" /\ def.style # "named"
      byName == v.type = "object" /\ def.style # "positional"
      values == IF byPosition THEN v.items
                ELSE [i \in DOMAIN def.names |-> v.fields[def.names[i]]]
  IN  IF /\ def.style # "nothing"
         /\ IF v.type = "object" THEN byName /\ DOMAIN v.fields = {def.names[i] : i \in DOMAIN def.names}
            ELSE byPosition /\ Len(v.items) = Len(def.types)
         /\ \A i \in DOMAIN def.types : Convert(def.types[i], values[i]) = Some(values[i])
      THEN Some(values) ELSE None

TakenWhole(def, params) ==
  def.style = "decide" /\ Len(def.types) = 1 /\ Whole(def.types[1], params) # Refused

Received(def, params) ==
  IF TakenWhole(def, params) THEN Some(Whole(def.types[1], params)) ELSE Arguments(def, params)

ArgumentsArrive ==
  \A c \in Calls :
    /\ calls[c].status = "done" /\ Asked(c).params # None
    /\ Knows(Callee(c), Asked(c).method) # {}
    => LET servers == chain[Callee(c)]
           first == CHOOSE i \in Knows(Callee(c), Asked(c).method) :
                      \A j \in 1 .. i - 1 : Asked(c).method \notin DOMAIN servers[j].methods
           def == servers[first].methods[Asked(c).method]
       IN  Arguments(def, Asked(c).params) # None =>
             calls[c].result = Some(Ok(Array(Received(def, Asked(c).params)[1])))

\* Every call to an endpoint that serves is answered, with null too.
CallsAnswered ==
  \A c \in Calls :
    calls[c].status = "waiting" /\ ~Stopped(Callee(c)) ~> calls[c].status = "done"

\* Answers are never answered: once nobody says anything new there is silence, also
\* when what was said could not be understood.
Silence == <>[](\A side \in Sides : wire[side] = <<>>)
=============================================================================
