--------------------------- MODULE ExchangeProofs ---------------------------
(***************************************************************************)
(* Proofs about jsonrpc_params!, for all parameters, types and values, and *)
(* about Exchange, for all calls, chains of servers and foreign texts.     *)
(***************************************************************************)
EXTENDS Exchange, MessageFormatProofs, FiniteSetTheorems, WellFoundedInduction

\* The elements of two sequences are converted alike if they are the same.
LEMMA SameValues ==
  ASSUME NEW S, NEW types \in Seq(S), NEW v, NEW w,
         \A i \in DOMAIN types : v[i] = w[i]
  PROVE  ConvertAll(types, v) = ConvertAll(types, w)
<1>1. [i \in DOMAIN types |-> Convert(types[i], v[i])]
      = [i \in DOMAIN types |-> Convert(types[i], w[i])]
  OBVIOUS
<1> QED
  BY <1>1 DEF ConvertAll

\* Arguments in an object, each under the name of its parameter and with whatever
\* else the object holds, are decoded as the same arguments in an array are.
THEOREM NameOrPosition ==
  ASSUME NEW S, NEW types \in Seq(S), NEW T, NEW values \in Seq(T),
         Len(types) = Len(values),
         NEW names, DOMAIN names = DOMAIN types,
         NEW fields,
         \A i \in DOMAIN names : names[i] \in DOMAIN fields /\ fields[names[i]] = values[i]
  PROVE  Decide(names, types, Some(Object(fields))) = Decide(names, types, Some(Array(values)))
<1>1. /\ Some(Object(fields)) # None /\ Some(Object(fields))[1] = Object(fields)
      /\ Some(Array(values)) # None /\ Some(Array(values))[1] = Array(values)
  BY DEF Some, None
<1>2. /\ Object(fields).type = "object" /\ Object(fields).fields = fields
      /\ Array(values).type = "array" /\ Array(values).items = values
  BY DEF Object, Array
<1> DEFINE found == [i \in DOMAIN names |->
                       IF names[i] \in DOMAIN fields THEN fields[names[i]] ELSE Null]
<1>3. Decide(names, types, Some(Object(fields))) = ConvertAll(types, found)
  BY <1>1, <1>2 DEF Decide, Named
<1>4. Decide(names, types, Some(Array(values))) = ConvertAll(types, values)
  BY <1>1, <1>2 DEF Decide, Positional, Arity
<1>5. \A i \in DOMAIN types : found[i] = values[i]
  OBVIOUS
<1> HIDE DEF found
<1>6. ConvertAll(types, found) = ConvertAll(types, values)
  BY <1>5, SameValues
<1> QED
  BY <1>3, <1>4, <1>6

\* A sequence is one of its elements.
LEMMA Itself ==
  ASSUME NEW S, NEW s \in Seq(S)
  PROVE  IsSeq(s)
  BY DEF IsSeq

\* All arguments that are right are taken as they are.
LEMMA Converted ==
  ASSUME NEW S, NEW types \in Seq(S), NEW values,
         \A i \in DOMAIN types : Convert(types[i], values[i]) = Some(values[i])
  PROVE  ConvertAll(types, values) = Some([i \in DOMAIN types |-> values[i]])
<1> DEFINE converted == [i \in DOMAIN types |-> Convert(types[i], values[i])]
<1>1. \A i \in DOMAIN types :
        converted[i] = Some(values[i]) /\ converted[i] # Refused /\ converted[i][1] = values[i]
  BY DEF Some, Refused, None
<1>2. ConvertAll(types, values) =
        IF \E i \in DOMAIN types : converted[i] = Refused THEN Refused
        ELSE Some([i \in DOMAIN types |-> converted[i][1]])
  BY DEF ConvertAll
<1> HIDE DEF converted
<1>3. [i \in DOMAIN types |-> converted[i][1]] = [i \in DOMAIN types |-> values[i]]
  BY <1>1
<1> QED
  BY <1>1, <1>2, <1>3

\* Types no value of which is one again in an array or object of its own.
Unmistakable == {"bool", "option", "list", "struct"}

\* An argument of such a type in an array or object of its own is not taken for one.
LEMMA Wrapped ==
  ASSUME NEW type \in Unmistakable, NEW a, Convert(type, a) = Some(a), NEW v,
         \/ v.type = "array" /\ Len(v.items) = 1 /\ DOMAIN v.items = {1} /\ v.items[1] = a
         \/ \E name : v.type = "object" /\ DOMAIN v.fields = {name} /\ v.fields[name] = a
  PROVE  Convert(type, v) = Refused
<1>1. Some(a) # Refused
  BY DEF Some, Refused, None
<1>2. v.type # "bool" /\ v # Null
  BY DEF Null
<1>3. CASE type \in {"bool", "option"}
  BY <1>2, <1>3 DEF Convert, IsBool
<1>4. CASE type = "list"
  <2>1. a.type = "array"
    BY <1>1, <1>4 DEF Convert, IsBool
  <2> QED
    BY <1>4, <2>1 DEF Convert, IsBool
<1>5. CASE type = "struct"
  <2>1. PICK w : Some(a) = Some(Object([x |-> w]))
    BY <1>1, <1>5 DEF Convert, Structure, IsBool
  <2>2. a.type = "object"
    BY <2>1 DEF Some, Object
  <2> QED
    BY <1>2, <1>5, <2>2 DEF Convert, Structure, IsBool, Null
<1> QED
  BY <1>3, <1>4, <1>5 DEF Unmistakable

\* A sequence is a function from 1 to its length.
LEMMA Entries ==
  ASSUME NEW s, IsSeq(s)
  PROVE  s = [i \in 1 .. Len(s) |-> s[i]] /\ DOMAIN s = 1 .. Len(s) /\ Len(s) \in Nat
  BY DEF IsSeq

\* The right arguments in an array.
LEMMA ByPosition ==
  ASSUME NEW types \in Seq(Types), NEW v, v.type = "array",
         IsSeq(v.items), Len(v.items) = Len(types),
         \A i \in DOMAIN types : Convert(types[i], v.items[i]) = Some(v.items[i])
  PROVE  Positional(types, Some(v)) = Some(v.items)
<1>1. ConvertAll(types, v.items) = Some([i \in DOMAIN types |-> v.items[i]])
  BY Converted
<1>2. v.items = [i \in DOMAIN types |-> v.items[i]]
  BY Entries
<1>3. Some(v) # None /\ Some(v)[1] = v
  BY DEF Some, None
<1> QED
  BY <1>1, <1>2, <1>3 DEF Positional, Arity

\* The right arguments in an object.
LEMMA ByName ==
  ASSUME NEW types \in Seq(Types), NEW names, DOMAIN names = DOMAIN types,
         NEW v, v.type = "object",
         \A i \in DOMAIN names :
           /\ names[i] \in DOMAIN v.fields
           /\ Convert(types[i], v.fields[names[i]]) = Some(v.fields[names[i]])
  PROVE  Named(names, types, Some(v)) = Some([i \in DOMAIN names |-> v.fields[names[i]]])
<1> DEFINE found == [i \in DOMAIN names |->
                       IF names[i] \in DOMAIN v.fields THEN v.fields[names[i]] ELSE Null]
<1>1. found = [i \in DOMAIN names |-> v.fields[names[i]]]
  OBVIOUS
<1>2. Some(v) # None /\ Some(v)[1] = v
  BY DEF Some, None
<1>3. Named(names, types, Some(v)) = ConvertAll(types, found)
  BY <1>2 DEF Named
<1>4. \A i \in DOMAIN types : Convert(types[i], found[i]) = Some(found[i])
  BY <1>1
<1> HIDE DEF found
<1>5. ConvertAll(types, found) = Some([i \in DOMAIN types |-> found[i]])
  BY <1>4, Converted
<1>6. [i \in DOMAIN types |-> found[i]] = found
  BY <1>1
<1> QED
  BY <1>1, <1>3, <1>5, <1>6

\* Parameters that are not taken as a whole are taken one by one.
LEMMA OneByOne ==
  ASSUME NEW def, IsDefinition(def), def.style = "decide", NEW params,
         ~TakenWhole(def, params)
  PROVE  Decode(def, params) = Decide(def.names, def.types, params)
<1>1. CASE Len(def.types) = 1
  <2>1. def.types \in Seq(Types) /\ IsSeq(def.names) /\ Len(def.names) = 1
    BY <1>1 DEF IsDefinition
  <2>2. def.types = <<def.types[1]>>
    BY <1>1, <2>1
  <2>3. def.names = <<def.names[1]>>
    <3>1. PICK names, S : names = def.names /\ names \in Seq(S)
      BY <2>1 DEF IsSeq
    <3> QED
      BY <2>1, <3>1
  <2>4. Whole(def.types[1], params) = Refused
    BY <1>1 DEF TakenWhole
  <2> QED
    BY <1>1, <2>2, <2>3, <2>4 DEF Decode, Single
<1>2. CASE Len(def.types) # 1
  BY <1>2 DEF Decode
<1> QED
  BY <1>1, <1>2

\* The right arguments for a definition, by position or by name, arrive as they are, unless
\* there is one parameter and its type accepts the array or object that holds the argument:
\* then this arrives.  The types of Unmistakable never do.
THEOREM RightArguments ==
  ASSUME NEW def, IsDefinition(def), NEW params, IsOption(params), params # None,
         params[1].type = "array" => IsSeq(params[1].items),
         Arguments(def, params) # None
  PROVE  /\ Decode(def, Settle(params)) = Received(def, params)
         /\ \E values : Received(def, params) = Some(values) /\ values # <<>>
         /\ TakenWhole(def, params) => def.types[1] \notin Unmistakable
<1>1. PICK v : v = params[1] /\ params = Some(v) /\ params # None
  BY DEF IsOption
<1>2. PICK types, names, style :
        types = def.types /\ names = def.names /\ style = def.style
  OBVIOUS
<1> DEFINE byPosition == v.type = "array" /\ style # "named"
           byName == v.type = "object" /\ style # "positional"
           values == IF byPosition THEN v.items
                     ELSE [i \in DOMAIN names |-> v.fields[names[i]]]
<1>3. /\ style # "nothing"
      /\ IF v.type = "object"
         THEN byName /\ DOMAIN v.fields = {names[i] : i \in DOMAIN names}
         ELSE byPosition /\ Len(v.items) = Len(types)
      /\ \A i \in DOMAIN types : Convert(types[i], values[i]) = Some(values[i])
      /\ Arguments(def, params) = Some(values)
  BY <1>1, <1>2 DEF Arguments
<1>4. /\ types \in Seq(Types) /\ types # <<>> /\ style \in {"positional", "named", "decide"}
      /\ IsSeq(names) /\ Len(names) = Len(types)
  BY <1>2, <1>3 DEF IsDefinition
<1>5. /\ DOMAIN types = 1 .. Len(types) /\ Len(types) \in Nat \ {0}
      /\ names = [i \in 1 .. Len(types) |-> names[i]] /\ DOMAIN names = DOMAIN types
  BY <1>4, Entries
<1>6. Settle(params) = params
  <2>1. v.type \in {"array", "object"}
    BY <1>3
  <2> QED
    BY <1>1, <2>1 DEF Settle, Some, Null
<1>7. /\ DOMAIN values = DOMAIN types /\ values # <<>>
      /\ style = "decide" => Decide(names, types, params) = Some(values)
      /\ style = "positional" => Positional(types, params) = Some(values)
      /\ style = "named" => Named(names, types, params) = Some(values)
  <2>1. CASE v.type = "array"
    <3>1. style # "named" /\ values = v.items /\ Len(v.items) = Len(types) /\ IsSeq(v.items)
      BY <1>1, <1>3, <2>1
    <3> HIDE DEF values
    <3>2. Positional(types, params) = Some(v.items)
      BY <1>1, <1>3, <1>4, <2>1, <3>1, ByPosition
    <3>3. Decide(names, types, params) = Some(v.items)
      BY <1>1, <2>1, <3>2 DEF Decide
    <3>4. DOMAIN v.items = DOMAIN types /\ v.items # <<>>
      BY <1>5, <3>1, Entries
    <3> QED
      BY <3>1, <3>2, <3>3, <3>4
  <2>2. CASE v.type = "object"
    <3> DEFINE found == [i \in DOMAIN names |-> v.fields[names[i]]]
    <3>1. /\ style # "positional" /\ values = found
          /\ DOMAIN v.fields = {names[i] : i \in DOMAIN names}
      BY <1>3, <2>2
    <3> HIDE DEF values
    <3>2. \A i \in DOMAIN names : Convert(types[i], found[i]) = Some(found[i])
      BY <1>3, <1>5, <3>1
    <3>3. Named(names, types, params) = Some(found)
      <4>1. \A i \in DOMAIN names :
              /\ names[i] \in DOMAIN v.fields
              /\ Convert(types[i], v.fields[names[i]]) = Some(v.fields[names[i]])
        BY <3>1, <3>2
      <4>2. types \in Seq(Types) /\ DOMAIN names = DOMAIN types
        BY <1>4, <1>5
      <4> HIDE DEF found, byName, byPosition
      <4>3. Named(names, types, Some(v)) = Some([i \in DOMAIN names |-> v.fields[names[i]]])
        BY <2>2, <4>1, <4>2, ByName
      <4> QED
        BY <1>1, <4>3 DEF found
    <3>4. Decide(names, types, params) = Some(found)
      BY <1>1, <2>2, <3>3 DEF Decide
    <3>5. found # <<>> /\ DOMAIN found = DOMAIN types
      <4>1. DOMAIN found = DOMAIN types /\ 1 \in DOMAIN types /\ DOMAIN <<>> = {}
        BY <1>5
      <4> QED
        BY <4>1
    <3> HIDE DEF found
    <3> QED
      BY <3>1, <3>3, <3>4, <3>5
  <2> HIDE DEF values
  <2> QED
    BY <1>3, <2>1, <2>2
<1>8. CASE ~TakenWhole(def, params)
  <2> HIDE DEF values
  <2>1. Decode(def, params) = Some(values)
    <3>1. CASE style = "decide"
      BY <1>2, <1>7, <1>8, <3>1, OneByOne
    <3>2. CASE style = "positional"
      BY <1>2, <1>7, <3>2 DEF Decode
    <3>3. CASE style = "named"
      BY <1>2, <1>7, <3>3 DEF Decode
    <3> QED
      BY <1>4, <3>1, <3>2, <3>3
  <2>2. Received(def, params) = Some(values)
    BY <1>3, <1>8 DEF Received
  <2> QED
    BY <1>6, <1>7, <1>8, <2>1, <2>2
<1>9. CASE TakenWhole(def, params)
  <2>1. style = "decide" /\ Len(types) = 1 /\ Whole(types[1], params) # Refused
    BY <1>2, <1>9 DEF TakenWhole
  <2>2. Received(def, params) = Some(Whole(types[1], params))
    BY <1>2, <1>9 DEF Received
  <2>3. Decode(def, params) = Some(Whole(types[1], params))
    BY <1>2, <2>1 DEF Decode, Single
  <2>4. Whole(types[1], params) # <<>>
    BY <2>1 DEF Refused, None
  <2>5. types[1] \notin Unmistakable
    <3> SUFFICES ASSUME types[1] \in Unmistakable PROVE FALSE
      OBVIOUS
    <3>1. Whole(types[1], params) = Convert(types[1], v)
      BY <1>1 DEF Whole
    <3>2. Convert(types[1], values[1]) = Some(values[1])
      BY <1>3, <1>5
    <3>3. \/ /\ v.type = "array" /\ Len(v.items) = 1 /\ DOMAIN v.items = {1}
             /\ v.items[1] = values[1]
          \/ \E name : v.type = "object" /\ DOMAIN v.fields = {name}
                      /\ v.fields[name] = values[1]
      <4>1. CASE v.type = "array"
        <5>1. Len(v.items) = 1 /\ IsSeq(v.items) /\ values = v.items
          BY <1>1, <1>3, <2>1, <4>1
        <5> HIDE DEF values
        <5> QED
          BY <4>1, <5>1, Entries
      <4>2. CASE v.type = "object"
        <5>1. DOMAIN names = {1}
          BY <1>5, <2>1
        <5>2. DOMAIN v.fields = {names[1]} /\ values[1] = v.fields[names[1]]
          BY <1>3, <4>2, <5>1
        <5> HIDE DEF values
        <5> QED
          BY <4>2, <5>2
      <4> QED
        BY <1>3, <4>1, <4>2
    <3> HIDE DEF values
    <3>4. Convert(types[1], v) = Refused
      BY <3>2, <3>3, Wrapped
    <3> QED
      BY <2>1, <3>1, <3>4
  <2> QED
    BY <1>2, <1>6, <2>2, <2>3, <2>4, <2>5
<1> QED
  BY <1>8, <1>9

-----------------------------------------------------------------------------
(* Operators.                                                              *)

\* A set of natural numbers has a least one, and First is it.
LEMMA FirstOf ==
  ASSUME NEW S \in SUBSET Nat, S # {}
  PROVE  First(S) \in S /\ \A k \in S : First(S) <= k
<1>1. PICK n \in S : \A k \in S : ~(<<k, n>> \in OpToRel(<, Nat))
  BY NatLessThanWellFounded, WFMin, Zenon
<1>2. \A k \in S : n <= k
  <2> SUFFICES ASSUME NEW k \in S, k < n PROVE FALSE
    BY SMT
  <2>1. <<k, n>> \in OpToRel(<, Nat)
    BY Zenon DEF OpToRel
  <2> QED
    BY <1>1, <2>1, Zenon
<1> QED
  BY <1>2 DEF First

\* What an endpoint of this crate writes: messages with options where these belong.
OwnPart(m) ==
  \/ m = Batch
  \/ \E method, params, id : IsOption(params) /\ m = Request(method, params, id)
  \/ \E method, params : IsOption(params) /\ m = Notification(method, params)
  \/ \E value, id : m = Response(Ok(value), id)
  \/ \E code, message, data, id :
       IsOption(data) /\ m = Response(Err(RpcError(code, message, data)), id)

\* Each part is written as a list or an object, and read as it was.
LEMMA PartReadsBack ==
  ASSUME NEW m, OwnPart(m)
  PROVE  /\ ReadPart(WritePart(m)) = SettlePart(m)
         /\ WritePart(m).type \in {"list", "object"}
         /\ (WritePart(m) = List) <=> (m = Batch)
         /\ SettlePart(m).kind = m.kind /\ m.kind # "unmatched"
<1>1. CASE m = Batch
  BY <1>1 DEF ReadPart, WritePart, SettlePart, List, Batch
<1>2. ASSUME m # Batch, m.kind \in {"request", "notification", "response"},
             WriteSingle(m).type = "object", ReadSingle(WriteSingle(m)) = SettleSingle(m),
             SettleSingle(m).kind = m.kind
      PROVE  /\ ReadPart(WritePart(m)) = SettlePart(m)
             /\ WritePart(m).type \in {"list", "object"}
             /\ (WritePart(m) = List) <=> (m = Batch)
             /\ SettlePart(m).kind = m.kind /\ m.kind # "unmatched"
  <2>1. List.type # "object"
    BY DEF List
  <2> QED
    BY <1>2, <2>1 DEF ReadPart, WritePart, SettlePart
<1>3. ASSUME NEW method, NEW params, NEW id, IsOption(params), m = Request(method, params, id)
      PROVE  /\ m # Batch /\ m.kind \in {"request", "notification", "response"}
             /\ WriteSingle(m).type = "object" /\ ReadSingle(WriteSingle(m)) = SettleSingle(m)
             /\ SettleSingle(m).kind = m.kind
  <2>1. m.kind = "request" /\ m # Batch
    BY <1>3 DEF Request, Batch
  <2>2. WriteSingle(m).type = "object"
    BY <2>1 DEF WriteSingle, WriteRequest, Object
  <2>3. SettleSingle(m).kind = m.kind
    BY <1>3, <2>1 DEF SettleSingle, Request
  <2> QED
    BY <1>3, <2>1, <2>2, <2>3, RequestReadsBack
<1>4. ASSUME NEW method, NEW params, IsOption(params), m = Notification(method, params)
      PROVE  /\ m # Batch /\ m.kind \in {"request", "notification", "response"}
             /\ WriteSingle(m).type = "object" /\ ReadSingle(WriteSingle(m)) = SettleSingle(m)
             /\ SettleSingle(m).kind = m.kind
  <2>1. m.kind = "notification" /\ m # Batch
    BY <1>4 DEF Notification, Batch
  <2>2. WriteSingle(m).type = "object"
    BY <2>1 DEF WriteSingle, WriteNotification, Object
  <2>3. SettleSingle(m).kind = m.kind
    BY <1>4, <2>1 DEF SettleSingle, Notification
  <2> QED
    BY <1>4, <2>1, <2>2, <2>3, NotificationReadsBack
<1>5. ASSUME NEW value, NEW id, m = Response(Ok(value), id)
      PROVE  /\ m # Batch /\ m.kind \in {"request", "notification", "response"}
             /\ WriteSingle(m).type = "object" /\ ReadSingle(WriteSingle(m)) = SettleSingle(m)
             /\ SettleSingle(m).kind = m.kind
  <2>1. m.kind = "response" /\ m # Batch /\ "ok" \in DOMAIN m.result
    BY <1>5 DEF Response, Batch, Ok
  <2>2. WriteSingle(m).type = "object"
    BY <2>1 DEF WriteSingle, WriteResponse, Object
  <2>3. SettleSingle(m) = m
    BY <2>1 DEF SettleSingle
  <2> QED
    BY <1>5, <2>1, <2>2, <2>3, ResultReadsBack
<1>6. ASSUME NEW code, NEW message, NEW data, NEW id, IsOption(data),
             m = Response(Err(RpcError(code, message, data)), id)
      PROVE  /\ m # Batch /\ m.kind \in {"request", "notification", "response"}
             /\ WriteSingle(m).type = "object" /\ ReadSingle(WriteSingle(m)) = SettleSingle(m)
             /\ SettleSingle(m).kind = m.kind
  <2>1. m.kind = "response" /\ m # Batch /\ "ok" \notin DOMAIN m.result
    BY <1>6 DEF Response, Batch, Err
  <2>2. WriteSingle(m).type = "object"
    BY <2>1 DEF WriteSingle, WriteResponse, Object
  <2>3. SettleSingle(m) = Response(Err(RpcError(code, message, Settle(data))), id)
    BY <1>6, <2>1 DEF SettleSingle, Response, Err, RpcError
  <2>4. SettleSingle(m).kind = m.kind
    BY <2>1, <2>3 DEF Response
  <2> QED
    BY <1>6, <2>1, <2>2, <2>3, <2>4, ErrorResponseReadsBack
<1> QED
  BY <1>1, <1>2, <1>3, <1>4, <1>5, <1>6 DEF OwnPart

\* What a message of parts written by an endpoint of this crate is.
OwnMessage(m) ==
  /\ Root \in DOMAIN m
  /\ m = [place \in DOMAIN m |-> [holds |-> m[place].holds, inside |-> m[place].inside]]
  /\ \A place \in DOMAIN m : OwnPart(m[place].holds)

\* The parts of a message that was read, each at the place of its value.
LEMMA Parsed ==
  ASSUME NEW text, Root \in DOMAIN text
  PROVE  /\ DOMAIN Parse(text) = DOMAIN text
         /\ \A place \in DOMAIN text :
              /\ Parse(text)[place].inside = text[place].inside
              /\ place # Root => Parse(text)[place].holds = ReadPart(text[place].holds)
              /\ text[place].holds = List => Parse(text)[place].holds = Batch
<1> DEFINE read == Each(ReadPart, text)
           root == IF text[Root].holds = Garbage THEN Broken(ParseError)
                   ELSE IF read[Root].holds.kind = "unmatched" THEN Broken(InvalidRequest)
                   ELSE read[Root].holds
<1>1. /\ DOMAIN read = DOMAIN text
      /\ \A place \in DOMAIN text :
           read[place] = [holds |-> ReadPart(text[place].holds), inside |-> text[place].inside]
  BY DEF Each
<1>2. ReadPart(List) = Batch /\ List # Garbage /\ Batch.kind # "unmatched"
  BY DEF ReadPart, List, Garbage, Batch
<1>3. Parse(text) = [read EXCEPT ![Root].holds = root]
  BY DEF Parse
<1> HIDE DEF read
<1>4. text[Root].holds = List => root = Batch
  BY <1>1, <1>2
<1> HIDE DEF root
<1>5. /\ DOMAIN Parse(text) = DOMAIN text
      /\ \A place \in DOMAIN text :
           Parse(text)[place] =
             IF place = Root THEN [holds |-> root, inside |-> text[place].inside] ELSE read[place]
  <2>1. [read[Root] EXCEPT !.holds = root] = [holds |-> root, inside |-> text[Root].inside]
    BY <1>1
  <2> QED
    BY <1>1, <1>3, <2>1
<1> QED
  BY <1>1, <1>2, <1>4, <1>5

\* What an endpoint of this crate writes is read as it was.
LEMMA MessageReadsBack ==
  ASSUME NEW m, OwnMessage(m)
  PROVE  /\ Parse(Write(m)) = Settled(m)
         /\ DOMAIN Write(m) = DOMAIN m
         /\ \A place \in DOMAIN m :
              /\ Write(m)[place].inside = m[place].inside
              /\ Write(m)[place].holds = WritePart(m[place].holds)
<1> DEFINE text == Write(m)
           read == Each(ReadPart, text)
<1>1. /\ DOMAIN text = DOMAIN m
      /\ \A place \in DOMAIN m :
           text[place] = [holds |-> WritePart(m[place].holds), inside |-> m[place].inside]
  BY DEF Write, Each
<1> HIDE DEF text
<1>2. /\ DOMAIN read = DOMAIN m
      /\ \A place \in DOMAIN m :
           read[place] = [holds |-> ReadPart(WritePart(m[place].holds)), inside |-> m[place].inside]
      /\ read = [place \in DOMAIN read |-> read[place]]
  BY <1>1 DEF Each
<1>3. \A place \in DOMAIN m :
        /\ ReadPart(WritePart(m[place].holds)) = SettlePart(m[place].holds)
        /\ WritePart(m[place].holds) # Garbage
        /\ SettlePart(m[place].holds).kind # "unmatched"
  BY PartReadsBack DEF OwnMessage, Garbage
<1>4. read = Settled(m)
  BY <1>2, <1>3 DEF Settled, Each
<1>5. Root \in DOMAIN m
  BY DEF OwnMessage
<1> HIDE DEF read
<1>6. text[Root].holds # Garbage /\ read[Root].holds.kind # "unmatched"
  BY <1>1, <1>2, <1>3, <1>5
<1>7. Parse(text) = [read EXCEPT ![Root].holds = read[Root].holds]
  BY <1>6 DEF Parse, read
<1>8. [read EXCEPT ![Root].holds = read[Root].holds] = read
  <2>1. PICK h, k : read[Root] = [holds |-> h, inside |-> k]
    BY <1>2, <1>5
  <2>2. [read[Root] EXCEPT !.holds = read[Root].holds] = read[Root]
    BY <2>1
  <2> QED
    BY <1>2, <2>2
<1> QED
  BY <1>1, <1>4, <1>7, <1>8 DEF text

\* An error of this crate: it has no null for data.
IsOwnError(e) ==
  /\ e = RpcError(e.code, e.message, e.data)
  /\ IsOption(e.data) /\ Settle(e.data) = e.data

\* The errors the crate makes are such errors.
LEMMA OwnErrors ==
  /\ IsOwnError(ParseError) /\ IsOwnError(InvalidRequest) /\ IsOwnError(InvalidParams)
  /\ \A method : IsOwnError(MethodNotFound(method))
<1>1. ASSUME NEW v
      PROVE  IsOption(Some(String(v))) /\ Settle(Some(String(v))) = Some(String(v))
  BY DEF IsOption, Some, Settle, None, String, Null
<1>2. IsOption(None) /\ Settle(None) = None
  BY DEF IsOption, Settle
<1>3. /\ ParseError.data = Some(String("why")) /\ InvalidParams.data = Some(String("why"))
      /\ InvalidRequest.data = None
      /\ \A method : MethodNotFound(method).data = Some(String(method))
  BY DEF ParseError, InvalidParams, InvalidRequest, MethodNotFound, RpcError
<1>4. /\ ParseError = RpcError(ParseError.code, ParseError.message, ParseError.data)
      /\ InvalidRequest = RpcError(InvalidRequest.code, InvalidRequest.message, InvalidRequest.data)
      /\ InvalidParams = RpcError(InvalidParams.code, InvalidParams.message, InvalidParams.data)
  BY DEF ParseError, InvalidParams, InvalidRequest, RpcError
<1>5. ASSUME NEW method
      PROVE  LET e == MethodNotFound(method) IN e = RpcError(e.code, e.message, e.data)
  BY DEF MethodNotFound, RpcError
<1> QED
  BY <1>1, <1>2, <1>3, <1>4, <1>5 DEF IsOwnError

\* A response with such an error is read as it was written.
LEMMA ErrorPart ==
  ASSUME NEW e, IsOwnError(e), NEW id
  PROVE  LET m == Response(Err(e), id)
         IN  OwnPart(m) /\ m.kind = "response" /\ m.id = id /\ SettlePart(m) = m
<1> DEFINE m == Response(Err(e), id)
<1>1. m.kind = "response" /\ m # Batch /\ m.id = id /\ "ok" \notin DOMAIN m.result
  BY DEF Response, Batch, Err
<1>2. [m EXCEPT !.result.err.data = Settle(@)] = m
  BY DEF IsOwnError, Response, Err, RpcError
<1>3. m = Response(Err(RpcError(e.code, e.message, e.data)), id)
  BY DEF IsOwnError
<1>4. OwnPart(m)
  BY <1>3 DEF OwnPart, IsOwnError
<1> QED
  BY <1>1, <1>2, <1>4 DEF SettlePart, SettleSingle

\* Serving gives a result or an error that is read as it was written.
LEMMA Served ==
  ASSUME NEW side, NEW method, NEW params, NEW id
  PROVE  LET m == Response(Serve(side, method, params), id)
         IN  OwnPart(m) /\ m.kind = "response" /\ m.id = id /\ SettlePart(m) = m
<1> DEFINE result == Serve(side, method, params)
           m == Response(result, id)
<1>1. result = Err(MethodNotFound(method)) \/ \E decoded : result = Answer(decoded)
  BY DEF Serve
<1> HIDE DEF result
<1>2. ASSUME NEW e, IsOwnError(e), result = Err(e)
      PROVE  OwnPart(m) /\ m.kind = "response" /\ m.id = id /\ SettlePart(m) = m
  BY <1>2, ErrorPart
<1>3. ASSUME NEW decoded, result = Answer(decoded)
      PROVE  result = Err(InvalidParams) \/ \E value : result = Ok(value)
  BY <1>3 DEF Answer
<1>4. ASSUME NEW value, result = Ok(value)
      PROVE  OwnPart(m) /\ m.kind = "response" /\ m.id = id /\ SettlePart(m) = m
  <2>1. m.kind = "response" /\ m # Batch /\ m.id = id /\ "ok" \in DOMAIN m.result
    BY <1>4 DEF Response, Batch, Ok
  <2> QED
    BY <1>4, <2>1 DEF OwnPart, SettlePart, SettleSingle
<1>5. OwnPart(m) /\ m.kind = "response" /\ m.id = id /\ SettlePart(m) = m
  BY <1>1, <1>2, <1>3, <1>4, OwnErrors
<1> QED
  BY <1>5 DEF result

\* The kinds of what is read; what is broken is a whole text.
LEMMA Kinds ==
  /\ \A v : ReadPart(v).kind \in {"batch", "request", "response", "notification", "unmatched"}
  /\ \A text : Root \in DOMAIN text =>
       LET m == Parse(text)[Root].holds
       IN  m.kind = "broken" => m \in {Broken(ParseError), Broken(InvalidRequest)}
<1>1. ASSUME NEW v
      PROVE  ReadPart(v).kind \in {"batch", "request", "response", "notification", "unmatched"}
  <2>1. CASE v = List
    BY <2>1 DEF ReadPart, Batch
  <2>2. CASE v # List
    <3>1. ReadSingle(v) \in {ReadRequest(v), ReadResponse(v), ReadNotification(v), UnmatchedSub(v)}
      BY DEF ReadSingle
    <3>2. /\ ReadRequest(v).kind = "request" /\ ReadResponse(v).kind = "response"
          /\ ReadNotification(v).kind = "notification" /\ UnmatchedSub(v).kind = "unmatched"
      BY DEF ReadRequest, ReadResponse, ReadNotification, UnmatchedSub,
             Request, Response, Notification
    <3> QED
      BY <2>2, <3>1, <3>2 DEF ReadPart
  <2> QED
    BY <2>1, <2>2
<1>2. ASSUME NEW text, Root \in DOMAIN text
      PROVE  Parse(text)[Root].holds \in
               {Broken(ParseError), Broken(InvalidRequest), ReadPart(text[Root].holds)}
  <2> DEFINE read == Each(ReadPart, text)
  <2>1. /\ DOMAIN read = DOMAIN text
        /\ read[Root] = [holds |-> ReadPart(text[Root].holds), inside |-> text[Root].inside]
    BY <1>2 DEF Each
  <2>2. PICK root \in {Broken(ParseError), Broken(InvalidRequest), read[Root].holds} :
          Parse(text) = [read EXCEPT ![Root].holds = root]
    BY DEF Parse
  <2> HIDE DEF read
  <2>3. Parse(text)[Root].holds = root
    <3>1. [read[Root] EXCEPT !.holds = root].holds = root
      BY <2>1
    <3> QED
      BY <1>2, <2>1, <2>2, <3>1
  <2> QED
    BY <2>1, <2>2, <2>3
<1> QED
  BY <1>1, <1>2

\* An answer is a response, read as it was written: to a request with its id and what
\* serving it gives, and to what could not be understood without an id.
LEMMA AnswerOf ==
  ASSUME NEW side, NEW m, Answered(side, m) # None,
         m.kind = "broken" => m \in {Broken(ParseError), Broken(InvalidRequest)}
  PROVE  LET r == Answered(side, m)[1]
         IN  /\ OwnPart(r) /\ SettlePart(r) = r /\ r.kind = "response"
             /\ m.kind = "request" =>
                  r.id = m.id /\ r.result = Serve(side, m.method, m.params)
             /\ m.kind # "request" => r.id = Null
<1>1. \A x : Some(x)[1] = x
  BY DEF Some
<1>2. CASE m.kind = "request"
  <2>1. Answered(side, m)[1] = Response(Serve(side, m.method, m.params), m.id)
    BY <1>1, <1>2 DEF Answered
  <2>2. Response(Serve(side, m.method, m.params), m.id).result = Serve(side, m.method, m.params)
    BY DEF Response
  <2> QED
    BY <1>2, <2>1, <2>2, Served
<1>3. CASE m.kind # "request"
  <2>1. Broken(ParseError).error = ParseError /\ Broken(InvalidRequest).error = InvalidRequest
    BY DEF Broken
  <2>2. PICK e \in {ParseError, InvalidRequest} : Answered(side, m) = Some(TopLevel(e))
    <3>1. CASE m.kind = "broken"
      BY <1>3, <2>1, <3>1 DEF Answered
    <3>2. CASE m.kind = "unmatched"
      BY <1>3, <3>2 DEF Answered
    <3> QED
      BY <1>3, <3>1, <3>2 DEF Answered
  <2>3. Answered(side, m)[1] = Response(Err(e), Null)
    BY <1>1, <2>2 DEF TopLevel
  <2> QED
    BY <1>3, <2>3, OwnErrors, ErrorPart
<1> QED
  BY <1>2, <1>3

\* Three or four places have a first among them.
LEMMA SomeFirst ==
  ASSUME NEW S, S \subseteq Nat, Cardinality(S) \in {3, 4}
  PROVE  First(S) \in S
<1>1. S # {}
  BY FS_EmptySet
<1> QED
  BY <1>1, FirstOf

\* A reply is made of answers and of the batches around them, and it is a text once it
\* is written.
LEMMA ReplyRight ==
  ASSUME NEW side, NEW text, IsText(text), DOMAIN Reply(side, Parse(text)) # {}
  PROVE  LET m == Parse(text)
             r == Reply(side, m)
         IN  /\ OwnMessage(r) /\ IsText(Write(r))
             /\ DOMAIN r \subseteq DOMAIN m
             /\ \A place \in DOMAIN r :
                  \/ r[place].holds = Batch
                  \/ /\ Answered(side, m[place].holds) # None
                     /\ r[place].holds = Answered(side, m[place].holds)[1]
<1> DEFINE m == Parse(text)
           r == Reply(side, m)
           answered == {place \in DOMAIN m : Answered(side, m[place].holds) # None}
           around == UNION {m[place].inside : place \in answered}
           items(t, list) == {place \in DOMAIN t :
                                t[place].inside = t[list].inside \cup {list}}
<1>1. /\ DOMAIN text \subseteq Nat /\ Root \in DOMAIN text
      /\ \A place \in DOMAIN text :
           /\ \A list \in text[place].inside :
                /\ list \in DOMAIN text /\ text[list].holds = List /\ list < place
                /\ text[list].inside \subseteq text[place].inside
           /\ place # Root => Root \in text[place].inside
  BY DEF IsText
<1>2. /\ DOMAIN m = DOMAIN text
      /\ \A place \in DOMAIN text :
           /\ m[place].inside = text[place].inside
           /\ place # Root => m[place].holds = ReadPart(text[place].holds)
           /\ text[place].holds = List => m[place].holds = Batch
  BY <1>1, Parsed
<1>3. \A place \in DOMAIN m : m[place].holds.kind = "broken" =>
        m[place].holds \in {Broken(ParseError), Broken(InvalidRequest)}
  BY <1>1, <1>2, Kinds
<1>4. \A place \in answered : OwnPart(Answered(side, m[place].holds)[1])
  BY <1>3, AnswerOf
<1>5. r = [place \in answered \cup around |->
             [holds  |-> IF place \in answered THEN Answered(side, m[place].holds)[1] ELSE Batch,
              inside |-> m[place].inside]]
  BY DEF Reply
<1>6. DOMAIN r # {}
  OBVIOUS
<1> HIDE DEF m, r
<1>7. \A place \in around : text[place].holds = List /\ place \in DOMAIN m /\ place \notin answered
  <2>1. Answered(side, Batch) = None
    BY DEF Answered, Batch
  <2> QED
    BY <1>1, <1>2, <2>1
<1>8. Root \in answered \cup around
  <2>1. answered # {}
    BY <1>5, <1>6
  <2>2. PICK place \in answered : TRUE
    BY <2>1
  <2> QED
    BY <1>1, <1>2, <2>2
<1>9. \A place \in answered \cup around : m[place].inside \subseteq around
  BY <1>1, <1>2, <1>7
<1>10. OwnMessage(r)
  <2>1. OwnPart(Batch)
    BY DEF OwnPart
  <2> QED
    BY <1>4, <1>5, <1>8, <2>1 DEF OwnMessage
<1>11. /\ DOMAIN Write(r) = DOMAIN r
       /\ \A place \in DOMAIN r :
            /\ Write(r)[place].inside = r[place].inside
            /\ Write(r)[place].holds = WritePart(r[place].holds)
  BY <1>10, MessageReadsBack
<1>12. \A place \in DOMAIN r :
         /\ WritePart(r[place].holds).type \in {"list", "object"}
         /\ (WritePart(r[place].holds) = List) <=> (r[place].holds = Batch)
  BY <1>10, PartReadsBack DEF OwnMessage
<1>13. \A place \in DOMAIN r :
         /\ r[place].inside \subseteq {list \in DOMAIN r : r[list].holds = Batch /\ list < place}
         /\ place # Root => Root \in r[place].inside
         /\ \A list \in r[place].inside : r[list].inside \subseteq r[place].inside
  BY <1>1, <1>2, <1>5, <1>7, <1>9
<1>14. IsText(Write(r))
  <2> DEFINE t == Write(r)
  <2>1. DOMAIN t \subseteq Nat /\ Root \in DOMAIN t
    BY <1>1, <1>2, <1>5, <1>7, <1>8, <1>11
  <2>2. \A place \in DOMAIN t :
          /\ t[place].holds.type \in {"list", "object"}
          /\ (t[place].holds = List) <=> (r[place].holds = Batch)
          /\ t[place].inside = r[place].inside
    BY <1>11, <1>12
  <2>3. \A place \in DOMAIN t : t[place].holds.type # "array" /\ t[place].holds # Version
    BY <2>2 DEF Version, String
  <2>4. \A list : Cardinality(items(t, list)) \in {3, 4} => First(items(t, list)) \in DOMAIN t
    <3>1. \A list : items(t, list) \subseteq DOMAIN t
      OBVIOUS
    <3> HIDE DEF items, t
    <3>2. ASSUME NEW list, Cardinality(items(t, list)) \in {3, 4}
          PROVE  First(items(t, list)) \in DOMAIN t
      <4>1. items(t, list) \subseteq Nat
        BY <2>1, <3>1
      <4>2. First(items(t, list)) \in items(t, list)
        BY <3>2, <4>1, SomeFirst
      <4> QED
        BY <3>1, <4>2
    <3> QED
      BY <3>2
  <2>5. \A place \in DOMAIN t :
          /\ t[place].inside \subseteq
               {list \in {p \in DOMAIN t : t[p].holds = List} : list < place}
          /\ place # Root => Root \in t[place].inside
          /\ \A list \in t[place].inside : t[list].inside \subseteq t[place].inside
    BY <1>11, <1>13, <2>2
  <2> HIDE DEF t
  <2> QED
    BY <2>1, <2>3, <2>4, <2>5 DEF IsText, t
<1> QED
  BY <1>5, <1>7, <1>10, <1>14 DEF m, r

-----------------------------------------------------------------------------
(* The invariant.                                                          *)

\* What serving makes of a question.
Truth(c, q) == Serve(Callee(c), q.method, Settle(q.params))

\* A call is idle, waits for the answer to what it asks, or has it.
CallRight(c) ==
  \/ calls[c] = [status |-> "idle", asks |-> None, result |-> None]
  \/ \E q \in Questions[c] :
       \/ calls[c] = [status |-> "waiting", asks |-> Some(q), result |-> None]
       \/ calls[c] = [status |-> "done", asks |-> Some(q), result |-> Some(Truth(c, q))]

\* A part with the id of a call, on its way to a side, is the question of this call
\* to the side that serves it, or else the true answer.
PartTrue(side, m) ==
  \A c \in Calls :
    m.kind \in {"request", "response"} /\ m.id = String(c) =>
      /\ calls[c].status # "idle"
      /\ m.kind = "request" =>
           /\ side = Callee(c)
           /\ m.method = Asked(c).method /\ m.params = Settle(Asked(c).params)
      /\ m.kind = "response" => m.result = Truth(c, Asked(c))

EntryRight(side, entry) ==
  /\ IsText(entry.text)
  /\ entry.from # None => Parse(entry.text) = Settled(entry.from[1])
  /\ \A place \in DOMAIN entry.text : PartTrue(side, Parse(entry.text)[place].holds)

Shape ==
  /\ \A side \in Sides : chain[side] \in Chains[side]
  /\ DOMAIN calls = Calls /\ DOMAIN wire = Sides
  /\ \A side \in Sides : IsSeq(wire[side])

OnWire(side) == {wire[side][i] : i \in DOMAIN wire[side]}

ExchangeInv ==
  /\ Shape
  /\ \A c \in Calls : CallRight(c)
  /\ \A side \in Sides : \A entry \in OnWire(side) : EntryRight(side, entry)

\* Strings differ as what they hold does, and none is null.
LEMMA Ids == \A s, t : String(s) # Null /\ (String(s) = String(t) => s = t)
  BY DEF String, Null

\* Taking the first element off a sequence and adding a last one.
LEMMA Queue ==
  ASSUME NEW s, IsSeq(s)
  PROVE  /\ s # <<>> =>
              /\ 1 \in DOMAIN s /\ Head(s) = s[1] /\ IsSeq(Tail(s))
              /\ \A i \in DOMAIN Tail(s) : \E j \in DOMAIN s : Tail(s)[i] = s[j]
         /\ \A e :
              /\ IsSeq(Append(s, e))
              /\ \A i \in DOMAIN Append(s, e) :
                   Append(s, e)[i] = e \/ \E j \in DOMAIN s : Append(s, e)[i] = s[j]
<1> DEFINE S == {s[i] : i \in DOMAIN s}
<1>1. s \in Seq(S)
  BY DEF IsSeq
<1>2. ASSUME s # <<>>
      PROVE  /\ 1 \in DOMAIN s /\ Head(s) = s[1] /\ IsSeq(Tail(s))
             /\ \A i \in DOMAIN Tail(s) : \E j \in DOMAIN s : Tail(s)[i] = s[j]
  <2>1. /\ 1 \in DOMAIN s /\ Head(s) = s[1]
        /\ Len(Tail(s)) = Len(s) - 1 /\ Tail(s) \in Seq(S)
        /\ \A i \in 1 .. Len(s) - 1 : Tail(s)[i] = s[i + 1] /\ i + 1 \in DOMAIN s
    BY <1>1, <1>2
  <2>2. \A i \in DOMAIN Tail(s) : \E j \in DOMAIN s : Tail(s)[i] = s[j]
    BY <1>1, <2>1
  <2> QED
    BY <2>1, <2>2, Itself
<1>3. ASSUME NEW e
      PROVE  /\ IsSeq(Append(s, e))
             /\ \A i \in DOMAIN Append(s, e) :
                  Append(s, e)[i] = e \/ \E j \in DOMAIN s : Append(s, e)[i] = s[j]
  <2>1. /\ Append(s, e) \in Seq(S \cup {e}) /\ Len(Append(s, e)) = Len(s) + 1
        /\ Append(s, e)[Len(s) + 1] = e
        /\ \A i \in 1 .. Len(s) : Append(s, e)[i] = s[i] /\ i \in DOMAIN s
    <3>1. s \in Seq(S \cup {e})
      BY <1>1
    <3> QED
      BY <3>1
  <2>2. \A i \in DOMAIN Append(s, e) :
          Append(s, e)[i] = e \/ \E j \in DOMAIN s : Append(s, e)[i] = s[j]
    BY <1>1, <2>1
  <2> QED
    BY <2>1, <2>2, Itself
<1> QED
  BY <1>2, <1>3

\* No step changes the servers, nor what a call asks once it was made.
Steady ==
  /\ chain' = chain
  /\ \A c \in Calls : calls[c].status # "idle" =>
       calls'[c].status # "idle" /\ calls'[c].asks = calls[c].asks

\* So what is true stays true.
LEMMA StillTrue ==
  ASSUME Steady
  PROVE  /\ \A c, q : Truth(c, q)' = Truth(c, q)
         /\ \A side, m : PartTrue(side, m) => PartTrue(side, m)'
         /\ \A side, entry : EntryRight(side, entry) => EntryRight(side, entry)'
<1>1. \A c, q : Truth(c, q)' = Truth(c, q)
  BY DEF Steady, Truth, Serve, Knows, Definition
<1>2. ASSUME NEW side, NEW m, PartTrue(side, m) PROVE PartTrue(side, m)'
  <2> SUFFICES ASSUME NEW c \in Calls, m.kind \in {"request", "response"}, m.id = String(c)
               PROVE  /\ calls'[c].status # "idle"
                      /\ m.kind = "request" =>
                           /\ side = Callee(c)
                           /\ m.method = Asked(c)'.method /\ m.params = Settle(Asked(c)'.params)
                      /\ m.kind = "response" => m.result = Truth(c, Asked(c))'
    BY DEF PartTrue
  <2>1. calls[c].status # "idle" /\ Asked(c)' = Asked(c)
    BY <1>2 DEF PartTrue, Steady, Asked
  <2> QED
    BY <1>1, <1>2, <2>1 DEF PartTrue, Steady
<1>3. ASSUME NEW side, NEW entry, EntryRight(side, entry) PROVE EntryRight(side, entry)'
  BY <1>2, <1>3 DEF EntryRight
<1> QED
  BY <1>1, <1>2, <1>3

\* The queues stay as they should be when entries that are right are added to them and
\* others taken from their front.
LEMMA WireRight ==
  ASSUME ExchangeInv, Steady, DOMAIN wire' = Sides,
         \A side \in Sides :
           \/ wire'[side] = wire[side]
           \/ wire[side] # <<>> /\ wire'[side] = Tail(wire[side])
           \/ \E entry : wire'[side] = Append(wire[side], entry) /\ EntryRight(side, entry)'
  PROVE  /\ \A side \in Sides : IsSeq(wire'[side])
         /\ \A side \in Sides : \A entry \in OnWire(side)' : EntryRight(side, entry)'
<1> SUFFICES ASSUME NEW side \in Sides
             PROVE  /\ IsSeq(wire'[side])
                    /\ \A entry \in OnWire(side)' : EntryRight(side, entry)'
  OBVIOUS
<1>1. IsSeq(wire[side])
  BY DEF ExchangeInv, Shape
<1>2. \A entry \in OnWire(side) : EntryRight(side, entry)'
  BY StillTrue DEF ExchangeInv
<1>3. CASE wire'[side] = wire[side]
  BY <1>1, <1>2, <1>3 DEF OnWire
<1>4. CASE wire[side] # <<>> /\ wire'[side] = Tail(wire[side])
  <2>1. IsSeq(wire'[side]) /\ OnWire(side)' \subseteq OnWire(side)
    BY <1>1, <1>4, Queue DEF OnWire
  <2> QED
    BY <1>2, <2>1
<1>5. ASSUME NEW entry, wire'[side] = Append(wire[side], entry), EntryRight(side, entry)'
      PROVE  /\ IsSeq(wire'[side])
             /\ \A e \in OnWire(side)' : EntryRight(side, e)'
  <2>1. IsSeq(wire'[side]) /\ OnWire(side)' \subseteq OnWire(side) \cup {entry}
    BY <1>1, <1>5, Queue DEF OnWire
  <2> QED
    BY <1>2, <1>5, <2>1
<1> QED
  BY <1>3, <1>4, <1>5

\* A message of an endpoint of this crate is right once its parts are true.
LEMMA OwnRight ==
  ASSUME NEW side, NEW m, OwnMessage(m), IsText(Write(m)),
         \A place \in DOMAIN m : PartTrue(side, SettlePart(m[place].holds))'
  PROVE  EntryRight(side, Written(m))'
<1>1. Written(m).text = Write(m) /\ Written(m).from = Some(m) /\ Some(m)[1] = m
  BY DEF Written, Some
<1>2. Parse(Write(m)) = Settled(m) /\ DOMAIN Write(m) = DOMAIN m
  BY MessageReadsBack
<1>3. \A place \in DOMAIN m : Settled(m)[place].holds = SettlePart(m[place].holds)
  BY DEF Settled, Each
<1> QED
  BY <1>1, <1>2, <1>3 DEF EntryRight

\* A message that is no batch stands alone.
LEMMA AloneRight ==
  ASSUME NEW side, NEW m, OwnPart(m), m # Batch, PartTrue(side, SettlePart(m))'
  PROVE  EntryRight(side, Written(Alone(m)))'
<1>1. /\ DOMAIN Alone(m) = {Root} /\ Alone(m)[Root].holds = m /\ Alone(m)[Root].inside = {}
      /\ Alone(m) = [place \in {Root} |-> [holds |-> m, inside |-> {}]]
  BY DEF Alone
<1>2. OwnMessage(Alone(m))
  BY <1>1 DEF OwnMessage
<1>3. /\ DOMAIN Write(Alone(m)) = {Root} /\ Write(Alone(m))[Root].inside = {}
      /\ Write(Alone(m))[Root].holds = WritePart(m)
  BY <1>1, <1>2, MessageReadsBack
<1>4. WritePart(m).type \in {"list", "object"} /\ WritePart(m) # List
  BY PartReadsBack
<1>5. IsText(Write(Alone(m)))
  BY <1>3, <1>4 DEF IsText, Root
<1>6. \A place \in DOMAIN Alone(m) : PartTrue(side, SettlePart(Alone(m)[place].holds))'
  BY <1>1
<1> HIDE DEF Alone
<1> QED
  BY <1>2, <1>5, <1>6, OwnRight

\* The responses in a message that is true resolve calls with their true answers.
LEMMA Resolving ==
  ASSUME ExchangeInv, NEW side \in Sides, NEW m, DOMAIN m \subseteq Nat,
         \A place \in DOMAIN m : PartTrue(side, m[place].holds)
  PROVE  /\ DOMAIN Resolved(side, m) = Calls
         /\ \A c \in Calls :
              \/ Resolved(side, m)[c] = calls[c]
              \/ \E q \in Questions[c] :
                   /\ calls[c] = [status |-> "waiting", asks |-> Some(q), result |-> None]
                   /\ Resolved(side, m)[c] =
                        [status |-> "done", asks |-> Some(q), result |-> Some(Truth(c, q))]
<1>1. DOMAIN Resolved(side, m) = Calls
  BY DEF Resolved
<1>2. ASSUME NEW c \in Calls, Resolved(side, m)[c] # calls[c]
      PROVE  \E q \in Questions[c] :
               /\ calls[c] = [status |-> "waiting", asks |-> Some(q), result |-> None]
               /\ Resolved(side, m)[c] =
                    [status |-> "done", asks |-> Some(q), result |-> Some(Truth(c, q))]
  <2> DEFINE mine == {place \in DOMAIN m :
                        m[place].holds.kind = "response" /\ Resolves(m[place].holds, c)}
             r == m[First(mine)].holds
  <2>1. /\ Waits(side, c) /\ mine # {}
        /\ Resolved(side, m)[c] =
             [status |-> "done", asks |-> calls[c].asks, result |-> Some(r.result)]
    BY <1>2 DEF Resolved
  <2>2. First(mine) \in mine
    BY <2>1, FirstOf
  <2>3. r.kind = "response" /\ r.id = String(c) /\ PartTrue(side, r)
    BY <2>2 DEF Resolves
  <2> HIDE DEF r, mine
  <2>4. PICK q \in Questions[c] :
          calls[c] = [status |-> "waiting", asks |-> Some(q), result |-> None]
    <3>1. CallRight(c) /\ calls[c].status = "waiting"
      BY <2>1 DEF ExchangeInv, Waits
    <3>2. calls[c] # [status |-> "idle", asks |-> None, result |-> None]
      BY <3>1
    <3>3. ASSUME NEW q \in Questions[c]
          PROVE  calls[c] # [status |-> "done", asks |-> Some(q), result |-> Some(Truth(c, q))]
      BY <3>1
    <3> QED
      BY <3>1, <3>2, <3>3 DEF CallRight
  <2>5. Asked(c) = q
    BY <2>4 DEF Asked, Some
  <2>6. r.result = Truth(c, q)
    BY <2>3, <2>5 DEF PartTrue
  <2>7. Resolved(side, m)[c] = [status |-> "done", asks |-> Some(q), result |-> Some(Truth(c, q))]
    BY <2>1, <2>4, <2>6
  <2> QED
    BY <2>4, <2>7
<1> QED
  BY <1>1, <1>2

\* An endpoint that reads what is true answers with what is true.
LEMMA ReplyTrue ==
  ASSUME NEW side, NEW text, IsText(text),
         \A place \in DOMAIN text : PartTrue(side, Parse(text)[place].holds),
         DOMAIN Reply(side, Parse(text)) # {}
  PROVE  LET r == Reply(side, Parse(text))
         IN  \A other : \A place \in DOMAIN r : PartTrue(other, SettlePart(r[place].holds))
<1> DEFINE m == Parse(text)
           r == Reply(side, m)
<1>1. /\ Root \in DOMAIN text /\ DOMAIN m = DOMAIN text
      /\ \A place \in DOMAIN text : place # Root => m[place].holds = ReadPart(text[place].holds)
  BY Parsed DEF IsText
<1>2. \A place \in DOMAIN m : m[place].holds.kind = "broken" =>
        m[place].holds \in {Broken(ParseError), Broken(InvalidRequest)}
  BY <1>1, Kinds
<1>3. /\ DOMAIN r \subseteq DOMAIN m
      /\ \A place \in DOMAIN r :
           \/ r[place].holds = Batch
           \/ /\ Answered(side, m[place].holds) # None
              /\ r[place].holds = Answered(side, m[place].holds)[1]
  BY ReplyRight
<1> HIDE DEF m, r
<1>4. ASSUME NEW other, NEW place \in DOMAIN r
      PROVE  PartTrue(other, SettlePart(r[place].holds))
  <2>1. CASE r[place].holds = Batch
    BY <2>1 DEF SettlePart, PartTrue, Batch
  <2>2. CASE /\ Answered(side, m[place].holds) # None
             /\ r[place].holds = Answered(side, m[place].holds)[1]
    <3> DEFINE p == m[place].holds
               a == r[place].holds
    <3>1. /\ SettlePart(a) = a /\ a.kind = "response"
          /\ p.kind = "request" => a.id = p.id /\ a.result = Serve(side, p.method, p.params)
          /\ p.kind # "request" => a.id = Null
      BY <1>2, <1>3, <2>2, AnswerOf
    <3>2. PartTrue(side, p)
      BY <1>1, <1>3 DEF m
    <3> HIDE DEF a, p
    <3>3. PartTrue(other, a)
      <4> SUFFICES ASSUME NEW c \in Calls, a.id = String(c)
                   PROVE  calls[c].status # "idle" /\ a.result = Truth(c, Asked(c))
        BY <3>1 DEF PartTrue
      <4>1. p.kind = "request" /\ p.id = String(c) /\ a.result = Serve(side, p.method, p.params)
        BY <3>1, Ids
      <4> QED
        BY <3>2, <4>1 DEF PartTrue, Truth
    <3> QED
      BY <3>1, <3>3 DEF a
  <2> QED
    BY <1>3, <2>1, <2>2
<1> QED
  BY <1>4 DEF m, r

\* Reading a text, and answering it.
LEMMA ReceiveStep ==
  ASSUME ExchangeInv, NEW side \in Sides, Receive(side)
  PROVE  ExchangeInv'
<1>1. PICK text : text = Head(wire[side]).text /\ Handle(side, Parse(text))
  BY DEF Receive
<1> DEFINE m == Parse(text)
<1>2. wire[side] # <<>> /\ chain' = chain
  BY DEF Receive
<1>3. Head(wire[side]) \in OnWire(side)
  BY <1>2, Queue DEF ExchangeInv, Shape, OnWire
<1>4. EntryRight(side, Head(wire[side]))
  BY <1>3 DEF ExchangeInv
<1>5. IsText(text) /\ \A place \in DOMAIN text : PartTrue(side, m[place].holds)
  BY <1>1, <1>4 DEF EntryRight
<1>6. DOMAIN m = DOMAIN text /\ DOMAIN m \subseteq Nat
  BY <1>5, Parsed DEF IsText
<1>7. PICK sent : /\ sent = IF Stopped(side) THEN <<>> ELSE Reply(side, m)
                  /\ wire' = [s \in Sides |->
                               IF s = side THEN Tail(wire[s])
                               ELSE IF DOMAIN sent = {} THEN wire[s]
                               ELSE Append(wire[s], Written(sent))]
  BY <1>1 DEF Handle
<1>8. calls' = calls \/ calls' = Resolved(side, m)
  BY <1>1 DEF Handle
<1> HIDE DEF m
<1>9. /\ DOMAIN calls' = Calls
      /\ \A c \in Calls :
           \/ calls'[c] = calls[c]
           \/ \E q \in Questions[c] :
                /\ calls[c] = [status |-> "waiting", asks |-> Some(q), result |-> None]
                /\ calls'[c] = [status |-> "done", asks |-> Some(q), result |-> Some(Truth(c, q))]
  <2>1. CASE calls' = calls
    BY <2>1 DEF ExchangeInv, Shape
  <2>2. CASE calls' = Resolved(side, m)
    BY <1>5, <1>6, <2>2, Resolving
  <2> QED
    BY <1>8, <2>1, <2>2
<1>10. Steady
  <2>1. ASSUME NEW c \in Calls, calls[c].status # "idle"
        PROVE  calls'[c].status # "idle" /\ calls'[c].asks = calls[c].asks
    <3>1. CASE calls'[c] = calls[c]
      BY <2>1, <3>1
    <3>2. ASSUME NEW q,
                 calls[c] = [status |-> "waiting", asks |-> Some(q), result |-> None],
                 calls'[c] = [status |-> "done", asks |-> Some(q), result |-> Some(Truth(c, q))]
          PROVE  calls'[c].status # "idle" /\ calls'[c].asks = calls[c].asks
      BY <3>2
    <3> QED
      BY <1>9, <3>1, <3>2
  <2> QED
    BY <1>2, <2>1 DEF Steady
<1>11. ASSUME NEW c \in Calls PROVE CallRight(c)'
  <2>1. CallRight(c)
    BY DEF ExchangeInv
  <2>2. \A q : Truth(c, q)' = Truth(c, q)
    BY <1>10, StillTrue
  <2> QED
    BY <1>9, <2>1, <2>2 DEF CallRight
<1>12. ASSUME NEW s \in Sides, DOMAIN sent # {}
       PROVE  EntryRight(s, Written(sent))'
  <2>1. sent = Reply(side, m)
    BY <1>7, <1>12
  <2>2. OwnMessage(sent) /\ IsText(Write(sent))
    BY <1>5, <1>12, <2>1, ReplyRight DEF m
  <2>3. \A place \in DOMAIN sent : PartTrue(s, SettlePart(sent[place].holds))
    BY <1>5, <1>12, <2>1, ReplyTrue DEF m
  <2>4. \A place \in DOMAIN sent : PartTrue(s, SettlePart(sent[place].holds))'
    BY <1>10, <2>3, StillTrue
  <2> QED
    BY <2>2, <2>4, OwnRight
<1>13. /\ \A s \in Sides : IsSeq(wire'[s])
       /\ \A s \in Sides : \A entry \in OnWire(s)' : EntryRight(s, entry)'
  BY <1>2, <1>7, <1>10, <1>12, WireRight
<1> QED
  BY <1>2, <1>7, <1>9, <1>11, <1>13 DEF ExchangeInv, Shape

\* An entry for one side is added to what is there for it, and leaves the other alone.
LEMMA Sending ==
  ASSUME ExchangeInv, Steady, NEW to, NEW entry, SendTo(to, entry), EntryRight(to, entry)'
  PROVE  /\ DOMAIN wire' = Sides
         /\ \A side \in Sides : IsSeq(wire'[side])
         /\ \A side \in Sides : \A e \in OnWire(side)' : EntryRight(side, e)'
<1>1. /\ DOMAIN wire' = Sides
      /\ \A side \in Sides :
           wire'[side] = IF side = to THEN Append(wire[side], entry) ELSE wire[side]
  BY DEF SendTo, ExchangeInv, Shape
<1> QED
  BY <1>1, WireRight

\* A call asks its question.
LEMMA CallStep ==
  ASSUME ExchangeInv, NEW c \in Calls, NEW q \in Questions[c], Call(c, q)
  PROVE  ExchangeInv'
<1> DEFINE m == Request(q.method, q.params, String(c))
<1>1. /\ calls[c].status = "idle" /\ chain' = chain
      /\ DOMAIN calls' = Calls
      /\ calls'[c] = [status |-> "waiting", asks |-> Some(q), result |-> None]
      /\ \A d \in Calls : d # c => calls'[d] = calls[d]
  BY DEF Call, ExchangeInv, Shape
<1>2. Steady
  BY <1>1 DEF Steady
<1>3. ASSUME NEW d \in Calls PROVE CallRight(d)'
  <2>1. CallRight(d)
    BY DEF ExchangeInv
  <2>2. \A p : Truth(d, p)' = Truth(d, p)
    BY <1>2, StillTrue
  <2>3. CASE d = c
    BY <1>1, <2>3 DEF CallRight
  <2>4. CASE d # c
    BY <1>1, <2>1, <2>2, <2>4 DEF CallRight
  <2> QED
    BY <2>3, <2>4
<1>4. IsOption(q.params) /\ m.kind = "request" /\ OwnPart(m) /\ m # Batch
  BY ExchangeAssumption DEF IsQuestion, OwnPart, Request, Batch
<1>5. SettlePart(m) = Request(q.method, Settle(q.params), String(c))
  BY <1>4 DEF SettlePart, SettleSingle, Request
<1>6. PartTrue(Callee(c), SettlePart(m))'
  <2>1. Asked(c)' = q
    BY <1>1 DEF Asked, Some
  <2>2. calls'[c].status # "idle"
    BY <1>1
  <2>3. LET r == Request(q.method, Settle(q.params), String(c))
        IN  /\ r.kind = "request" /\ r.id = String(c)
            /\ r.method = q.method /\ r.params = Settle(q.params)
    BY DEF Request
  <2> QED
    BY <1>5, <2>1, <2>2, <2>3, Ids DEF PartTrue
<1>7. EntryRight(Callee(c), Written(Alone(m)))'
  BY <1>4, <1>6, AloneRight
<1>8. SendTo(Callee(c), Written(Alone(m)))
  BY DEF Call, Callee
<1> HIDE DEF m
<1>9. /\ DOMAIN wire' = Sides
      /\ \A side \in Sides : IsSeq(wire'[side])
      /\ \A side \in Sides : \A e \in OnWire(side)' : EntryRight(side, e)'
  BY <1>2, <1>7, <1>8, Sending
<1> QED
  BY <1>1, <1>3, <1>9 DEF ExchangeInv, Shape

\* What leaves the calls alone and sends what is right.
LEMMA OtherStep ==
  ASSUME ExchangeInv, NEW to, NEW entry, SendTo(to, entry), UNCHANGED <<chain, calls>>,
         EntryRight(to, entry)'
  PROVE  ExchangeInv'
<1>1. Steady
  BY DEF Steady
<1>2. ASSUME NEW c \in Calls PROVE CallRight(c)'
  <2>1. CallRight(c)
    BY DEF ExchangeInv
  <2>2. \A q : Truth(c, q)' = Truth(c, q)
    BY <1>1, StillTrue
  <2> QED
    BY <2>1, <2>2 DEF CallRight
<1>3. /\ DOMAIN wire' = Sides
      /\ \A side \in Sides : IsSeq(wire'[side])
      /\ \A side \in Sides : \A e \in OnWire(side)' : EntryRight(side, e)'
  BY <1>1, Sending
<1> QED
  BY <1>2, <1>3 DEF ExchangeInv, Shape

\* A notification has no id.
LEMMA NotifyStep ==
  ASSUME ExchangeInv, NEW side \in Sides, NEW q \in Notices, Notify(side, q)
  PROVE  ExchangeInv'
<1> DEFINE m == Notification(q.method, q.params)
<1>1. IsOption(q.params) /\ m.kind = "notification" /\ OwnPart(m) /\ m # Batch
  BY ExchangeAssumption DEF IsQuestion, OwnPart, Notification, Batch
<1>2. SettlePart(m).kind = "notification"
  BY <1>1, PartReadsBack
<1>3. PartTrue(Other(side), SettlePart(m))'
  BY <1>2 DEF PartTrue
<1>4. EntryRight(Other(side), Written(Alone(m)))'
  BY <1>1, <1>3, AloneRight
<1>5. SendTo(Other(side), Written(Alone(m))) /\ UNCHANGED <<chain, calls>>
  BY DEF Notify
<1> HIDE DEF m
<1> QED
  BY <1>4, <1>5, OtherStep

\* A foreign text has no id of a call.
LEMMA InjectStep ==
  ASSUME ExchangeInv, NEW side \in Sides, NEW text \in Foreign, Inject(side, text)
  PROVE  ExchangeInv'
<1> DEFINE entry == [text |-> text, from |-> None]
<1>1. /\ IsText(text)
      /\ \A place \in DOMAIN text :
           Parse(text)[place].holds.kind \in {"request", "response"} =>
             Parse(text)[place].holds.id \notin {String(c) : c \in Calls}
  BY ForeignAssumption
<1>2. entry.text = text /\ entry.from = None
  OBVIOUS
<1>3. SendTo(side, entry) /\ UNCHANGED <<chain, calls>>
  BY DEF Inject
<1> HIDE DEF entry
<1>4. EntryRight(side, entry)'
  BY <1>1, <1>2 DEF EntryRight, PartTrue
<1> QED
  BY <1>3, <1>4, OtherStep

\* Nothing is under way at first.
LEMMA InitRight == Init => ExchangeInv
<1> SUFFICES ASSUME Init PROVE ExchangeInv
  OBVIOUS
<1>1. /\ \A side \in Sides : chain[side] \in Chains[side] /\ wire[side] = <<>>
      /\ DOMAIN wire = Sides /\ DOMAIN calls = Calls
      /\ \A c \in Calls : calls[c] = [status |-> "idle", asks |-> None, result |-> None]
  BY DEF Init
<1>2. IsSeq(<<>>)
  <2>1. <<>> \in Seq({})
    OBVIOUS
  <2> QED
    BY <2>1, Itself
<1> QED
  BY <1>1, <1>2 DEF ExchangeInv, Shape, CallRight, OnWire

\* The invariant holds throughout.
THEOREM ExchangeInvariant == Spec => []ExchangeInv
<1>1. ASSUME ExchangeInv, [Next]_vars PROVE ExchangeInv'
  <2>1. CASE UNCHANGED vars
    <3>1. Steady
      BY <2>1 DEF Steady, vars
    <3>2. \A c, q : Truth(c, q)' = Truth(c, q)
      BY <3>1, StillTrue
    <3>3. \A c \in Calls : CallRight(c)'
      BY <1>1, <2>1, <3>2 DEF ExchangeInv, CallRight, vars
    <3>4. /\ \A side \in Sides : IsSeq(wire'[side])
          /\ \A side \in Sides : \A e \in OnWire(side)' : EntryRight(side, e)'
      BY <1>1, <2>1, <3>1, WireRight DEF vars, ExchangeInv, Shape
    <3> QED
      BY <1>1, <2>1, <3>3, <3>4 DEF ExchangeInv, Shape, vars
  <2>2. ASSUME NEW c \in Calls, NEW q \in Questions[c], Call(c, q) PROVE ExchangeInv'
    BY <1>1, <2>2, CallStep
  <2>3. ASSUME NEW side \in Sides, Receive(side) PROVE ExchangeInv'
    BY <1>1, <2>3, ReceiveStep
  <2>4. ASSUME NEW side \in Sides, NEW q \in Notices, Notify(side, q) PROVE ExchangeInv'
    BY <1>1, <2>4, NotifyStep
  <2>5. ASSUME NEW side \in Sides, NEW text \in Foreign, Inject(side, text) PROVE ExchangeInv'
    BY <1>1, <2>5, InjectStep
  <2> QED
    BY <1>1, <2>1, <2>2, <2>3, <2>4, <2>5 DEF Next
<1> QED
  BY <1>1, InitRight, PTL DEF Spec

\* What an endpoint of this crate writes, answers in nested batches included, the other
\* one reads as it was.
THEOREM MessagesReadBack == Spec => []ReadsBack
<1>1. ExchangeInv => ReadsBack
  BY DEF ExchangeInv, EntryRight, OnWire, ReadsBack
<1> QED
  BY <1>1, ExchangeInvariant, PTL

\* A call that is done has asked and was answered.
LEMMA Done ==
  ASSUME NEW c, CallRight(c), calls[c].status = "done"
  PROVE  \E q \in Questions[c] :
           calls[c] = [status |-> "done", asks |-> Some(q), result |-> Some(Truth(c, q))]
<1>1. calls[c] # [status |-> "idle", asks |-> None, result |-> None]
  OBVIOUS
<1>2. \A q : calls[c] # [status |-> "waiting", asks |-> Some(q), result |-> None]
  OBVIOUS
<1> QED
  BY <1>1, <1>2 DEF CallRight

\* Every call that is done has the answer its callee gives to what it asked, whatever
\* else was under way.
THEOREM TrueAnswers == Spec => []AnswersAreTrue
<1>1. ASSUME ExchangeInv, NEW c \in Calls, calls[c].status = "done"
      PROVE  calls[c].result = Some(Truth(c, Asked(c)))
  <2>1. CallRight(c)
    BY <1>1 DEF ExchangeInv
  <2>2. PICK q \in Questions[c] :
          calls[c] = [status |-> "done", asks |-> Some(q), result |-> Some(Truth(c, q))]
    BY <1>1, <2>1, Done
  <2>3. Asked(c) = q
    BY <2>2 DEF Asked, Some
  <2> QED
    BY <2>2, <2>3
<1>2. ExchangeInv => AnswersAreTrue
  BY <1>1 DEF AnswersAreTrue, Truth
<1> QED
  BY <1>2, ExchangeInvariant, PTL

\* The first server that knows a method, found from either side.
LEMMA FirstServer ==
  ASSUME NEW servers, IsSeq(servers), NEW method,
         \E i \in DOMAIN servers : method \in DOMAIN servers[i].methods
  PROVE  LET known == {i \in DOMAIN servers : method \in DOMAIN servers[i].methods}
         IN  /\ First(known) \in known
             /\ First(known) = CHOOSE i \in known :
                  \A j \in 1 .. i - 1 : method \notin DOMAIN servers[j].methods
<1> DEFINE known == {i \in DOMAIN servers : method \in DOMAIN servers[i].methods}
           before(i) == \A j \in 1 .. i - 1 : method \notin DOMAIN servers[j].methods
<1>1. DOMAIN servers = 1 .. Len(servers) /\ Len(servers) \in Nat
  BY Entries
<1>2. known \in SUBSET Nat /\ known # {}
  BY <1>1
<1>3. First(known) \in known /\ \A k \in known : First(known) <= k
  <2> HIDE DEF known
  <2> QED
    BY <1>2, FirstOf
<1>4. before(First(known))
  <2> SUFFICES ASSUME NEW j \in 1 .. First(known) - 1, method \in DOMAIN servers[j].methods
               PROVE  FALSE
    OBVIOUS
  <2>1. First(known) \in 1 .. Len(servers)
    BY <1>1, <1>3
  <2>2. j \in DOMAIN servers /\ j < First(known) /\ j \in Int /\ First(known) \in Int
    BY <1>1, <2>1
  <2>3. j \in known
    BY <2>2
  <2> HIDE DEF known
  <2> QED
    BY <1>3, <2>2, <2>3
<1>5. ASSUME NEW i \in known, before(i) PROVE i = First(known)
  <2>1. i \in Nat /\ First(known) \in 1 .. Len(servers)
    BY <1>1, <1>2, <1>3
  <2>2. First(known) \notin 1 .. i - 1
    BY <1>3, <1>5
  <2>3. First(known) <= i
    BY <1>3
  <2> HIDE DEF known
  <2> QED
    BY <1>1, <2>1, <2>2, <2>3
<1> HIDE DEF before
<1>6. (CHOOSE i \in known : before(i)) = First(known)
  BY <1>3, <1>4, <1>5
<1> QED
  BY <1>3, <1>6 DEF before

\* Every call that is done and had the right arguments for the first server that knows
\* its method was answered with these arguments, or with what took their place.
THEOREM ArgumentsDoArrive == Spec => []ArgumentsArrive
<1>1. ASSUME ExchangeInv, AnswersAreTrue, NEW c \in Calls,
             calls[c].status = "done", Asked(c).params # None,
             Knows(Callee(c), Asked(c).method) # {}
      PROVE  LET servers == chain[Callee(c)]
                 first == CHOOSE i \in Knows(Callee(c), Asked(c).method) :
                            \A j \in 1 .. i - 1 : Asked(c).method \notin DOMAIN servers[j].methods
                 def == servers[first].methods[Asked(c).method]
             IN  Arguments(def, Asked(c).params) # None =>
                   calls[c].result = Some(Ok(Array(Received(def, Asked(c).params)[1])))
  <2>1. PICK side, q, known : side = Callee(c) /\ q = Asked(c) /\ known = Knows(side, q.method)
    OBVIOUS
  <2>2. side \in Sides
    BY <2>1, ExchangeAssumption DEF Callee, Other
  <2>3. IsQuestion(q)
    <3>1. CallRight(c)
      BY <1>1 DEF ExchangeInv
    <3>2. PICK p \in Questions[c] :
            calls[c] = [status |-> "done", asks |-> Some(p), result |-> Some(Truth(c, p))]
      BY <1>1, <3>1, Done
    <3>3. q = p
      BY <2>1, <3>2 DEF Asked, Some
    <3> QED
      BY <3>3, ExchangeAssumption
  <2>4. /\ IsSeq(chain[side])
        /\ \A i \in DOMAIN chain[side] : \A method \in DOMAIN chain[side][i].methods :
             IsDefinition(chain[side][i].methods[method])
    BY <1>1, <2>2, ChainsAssumption DEF ExchangeInv, Shape
  <2>5. /\ known = {i \in DOMAIN chain[side] : q.method \in DOMAIN chain[side][i].methods}
        /\ known # {}
    BY <1>1, <2>1 DEF Knows
  <2>6. /\ First(known) \in known
        /\ First(known) = CHOOSE i \in known :
             \A j \in 1 .. i - 1 : q.method \notin DOMAIN chain[side][j].methods
    <3>1. PICK servers, method : servers = chain[side] /\ method = q.method
      OBVIOUS
    <3>2. /\ known = {i \in DOMAIN servers : method \in DOMAIN servers[i].methods}
          /\ IsSeq(servers) /\ \E i \in DOMAIN servers : method \in DOMAIN servers[i].methods
      BY <2>4, <2>5, <3>1
    <3>3. /\ First(known) \in known
          /\ First(known) = CHOOSE i \in known :
               \A j \in 1 .. i - 1 : method \notin DOMAIN servers[j].methods
      BY <3>2, FirstServer
    <3> QED
      BY <3>1, <3>3
  <2>7. PICK def : def = chain[side][First(known)].methods[q.method]
    OBVIOUS
  <2>8. IsDefinition(def) /\ Definition(side, q.method) = def
    BY <2>1, <2>4, <2>5, <2>6, <2>7 DEF Definition
  <2>9. ASSUME Arguments(def, q.params) # None
        PROVE  calls[c].result = Some(Ok(Array(Received(def, q.params)[1])))
    <3>1. PICK values : /\ Received(def, q.params) = Some(values) /\ values # <<>>
                        /\ Decode(def, Settle(q.params)) = Some(values)
      <4>1. q.params # None
        BY <1>1, <2>1
      <4> QED
        BY <2>3, <2>8, <2>9, <4>1, RightArguments DEF IsQuestion
    <3>2. Some(values) # Refused /\ Some(values)[1] = values
      BY DEF Some, Refused, None
    <3>3. Serve(side, q.method, Settle(q.params)) = Answer(Some(values))
      BY <2>1, <2>5, <2>8, <3>1 DEF Serve
    <3>4. Answer(Some(values)) = Ok(Array(values))
      BY <3>1, <3>2 DEF Answer
    <3>5. calls[c].result = Some(Serve(side, q.method, Settle(q.params)))
      BY <1>1, <2>1 DEF AnswersAreTrue
    <3> QED
      BY <3>1, <3>2, <3>3, <3>4, <3>5
  <2> QED
    BY <2>1, <2>6, <2>7, <2>9
<1>2. ExchangeInv /\ AnswersAreTrue => ArgumentsArrive
  BY <1>1 DEF ArgumentsArrive
<1> QED
  BY <1>2, ExchangeInvariant, TrueAnswers, PTL

-----------------------------------------------------------------------------
(* What is left of CallsAnswered and Silence without fairness.             *)

\* An answer, read by whatever endpoint, is answered with nothing: neither results nor
\* errors, nor batches of them, go back and forth.
THEOREM AnswersEnd ==
  ASSUME NEW side, NEW other, NEW text, IsText(text), DOMAIN Reply(side, Parse(text)) # {}
  PROVE  DOMAIN Reply(other, Parse(Write(Reply(side, Parse(text))))) = {}
<1> DEFINE m == Parse(text)
           r == Reply(side, m)
<1>1. /\ Root \in DOMAIN text /\ DOMAIN m = DOMAIN text
      /\ \A place \in DOMAIN text : place # Root => m[place].holds = ReadPart(text[place].holds)
  BY Parsed DEF IsText
<1>2. \A place \in DOMAIN m : m[place].holds.kind = "broken" =>
        m[place].holds \in {Broken(ParseError), Broken(InvalidRequest)}
  BY <1>1, Kinds
<1>3. /\ DOMAIN r \subseteq DOMAIN m /\ OwnMessage(r)
      /\ \A place \in DOMAIN r :
           \/ r[place].holds = Batch
           \/ /\ Answered(side, m[place].holds) # None
              /\ r[place].holds = Answered(side, m[place].holds)[1]
  BY ReplyRight
<1> HIDE DEF m, r
<1>4. Parse(Write(r)) = Settled(r)
  BY <1>3, MessageReadsBack
<1>5. Settled(r) = [place \in DOMAIN r |-> [holds  |-> SettlePart(r[place].holds),
                                          inside |-> r[place].inside]]
  BY DEF Settled, Each
<1>6. ASSUME NEW place \in DOMAIN r PROVE Answered(other, SettlePart(r[place].holds)) = None
  <2>1. CASE r[place].holds = Batch
    BY <2>1 DEF SettlePart, Answered, Batch
  <2>2. CASE /\ Answered(side, m[place].holds) # None
             /\ r[place].holds = Answered(side, m[place].holds)[1]
    <3>1. SettlePart(r[place].holds) = r[place].holds /\ r[place].holds.kind = "response"
      BY <1>2, <1>3, <2>2, AnswerOf
    <3> QED
      BY <3>1 DEF Answered
  <2> QED
    BY <1>3, <2>1, <2>2
<1>7. {place \in DOMAIN Settled(r) : Answered(other, Settled(r)[place].holds) # None} = {}
  BY <1>5, <1>6
<1>8. DOMAIN Reply(other, Settled(r)) = {}
  BY <1>7 DEF Reply
<1> QED
  BY <1>4, <1>8 DEF r, m

\* A text for a side that is a request or a response, with the id of a call.
Carries(side, kind, c) ==
  \E entry \in OnWire(side) :
    LET whole == Parse(entry.text)[Root].holds IN whole.kind = kind /\ whole.id = String(c)

\* As long as a call to an endpoint that serves is waiting, its question is on its way
\* to the callee or a response to it on its way back.
NoneForgotten ==
  \A c \in Calls :
    calls[c].status = "waiting" /\ ~Stopped(Callee(c)) =>
      Carries(Callee(c), "request", c) \/ Carries(Caller[c], "response", c)

\* Only the first of a queue leaves it, and what is added is in it.
LEMMA QueueKeeps ==
  ASSUME NEW s, IsSeq(s)
  PROVE  /\ s # <<>> =>
              \A i \in DOMAIN s : s[i] = Head(s) \/ \E j \in DOMAIN Tail(s) : s[i] = Tail(s)[j]
         /\ \A e :
              /\ \E j \in DOMAIN Append(s, e) : Append(s, e)[j] = e
              /\ \A i \in DOMAIN s : \E j \in DOMAIN Append(s, e) : s[i] = Append(s, e)[j]
<1> DEFINE S == {s[i] : i \in DOMAIN s}
<1>1. s \in Seq(S)
  BY DEF IsSeq
<1>2. ASSUME s # <<>>, NEW i \in DOMAIN s, i # 1
      PROVE  \E j \in DOMAIN Tail(s) : s[i] = Tail(s)[j]
  <2>1. i - 1 \in DOMAIN Tail(s) /\ Tail(s)[i - 1] = s[i]
    BY <1>1, <1>2
  <2> QED
    BY <2>1
<1>3. ASSUME NEW e
      PROVE  /\ \E j \in DOMAIN Append(s, e) : Append(s, e)[j] = e
             /\ \A i \in DOMAIN s : \E j \in DOMAIN Append(s, e) : s[i] = Append(s, e)[j]
  <2>1. s \in Seq(S \cup {e})
    BY <1>1
  <2>2. /\ Len(s) + 1 \in DOMAIN Append(s, e) /\ Append(s, e)[Len(s) + 1] = e
        /\ \A i \in DOMAIN s : i \in DOMAIN Append(s, e) /\ Append(s, e)[i] = s[i]
    BY <2>1
  <2> QED
    BY <2>2
<1>4. Head(s) = s[1]
  OBVIOUS
<1> QED
  BY <1>2, <1>3, <1>4

\* Reading a text forgets no call: the question gives way to the answer, which alone
\* is a whole text, and the answer to the result.
LEMMA ReceiveForgetsNone ==
  ASSUME ExchangeInv, NoneForgotten, NEW side \in Sides, Receive(side)
  PROVE  NoneForgotten'
<1> SUFFICES ASSUME NEW c \in Calls, calls'[c].status = "waiting", ~Stopped(Callee(c))'
             PROVE  Carries(Callee(c), "request", c)' \/ Carries(Caller[c], "response", c)'
  BY DEF NoneForgotten
<1>1. PICK text : text = Head(wire[side]).text /\ Handle(side, Parse(text))
  BY DEF Receive
<1>2. wire[side] # <<>> /\ chain' = chain
  BY DEF Receive
<1>3. Head(wire[side]) \in OnWire(side)
  BY <1>2, Queue DEF ExchangeInv, Shape, OnWire
<1>4. IsText(text) /\ \A place \in DOMAIN text : PartTrue(side, Parse(text)[place].holds)
  BY <1>1, <1>3 DEF ExchangeInv, EntryRight
<1> DEFINE m == Parse(text)
           whole == m[Root].holds
<1>5. Root \in DOMAIN m /\ DOMAIN m = DOMAIN text
  BY <1>4, Parsed DEF IsText
<1>6. PICK sent : /\ sent = IF Stopped(side) THEN <<>> ELSE Reply(side, m)
                  /\ wire' = [s \in Sides |->
                               IF s = side THEN Tail(wire[s])
                               ELSE IF DOMAIN sent = {} THEN wire[s]
                               ELSE Append(wire[s], Written(sent))]
  BY <1>1 DEF Handle
<1>7. calls' = IF Stopped(side) /\ whole.kind # "response" THEN calls ELSE Resolved(side, m)
  BY <1>1 DEF Handle
<1>8. /\ PartTrue(side, whole)
      /\ whole.kind = "broken" => whole \in {Broken(ParseError), Broken(InvalidRequest)}
  BY <1>4, <1>5, Kinds
<1> HIDE DEF m, whole
<1>9. calls[c].status = "waiting" /\ ~Stopped(Callee(c))
  <2>1. calls'[c] = calls[c] \/ calls'[c].status = "done"
    BY <1>7 DEF Resolved
  <2> QED
    BY <1>2, <2>1 DEF Stopped
<1>10. \A s \in Sides : \A entry \in OnWire(s) :
         entry \in OnWire(s)' \/ (s = side /\ entry = Head(wire[side]))
  <2> SUFFICES ASSUME NEW s \in Sides, NEW i \in DOMAIN wire[s], s # side \/ wire[s][i] # Head(wire[side])
               PROVE  \E j \in DOMAIN wire'[s] : wire'[s][j] = wire[s][i]
    BY DEF OnWire
  <2>1. IsSeq(wire[s])
    BY DEF ExchangeInv, Shape
  <2>2. CASE wire'[s] = wire[s]
    BY <2>2
  <2>3. CASE s = side
    BY <1>2, <1>6, <2>1, <2>3, QueueKeeps
  <2>4. CASE s # side /\ DOMAIN sent # {}
    BY <1>6, <2>1, <2>4, QueueKeeps
  <2> QED
    BY <1>6, <2>2, <2>3, <2>4
<1>11. Caller[c] \in Sides /\ Callee(c) \in Sides /\ Callee(c) # Caller[c]
  BY ExchangeAssumption DEF Callee, Other
<1>12. ASSUME NEW s \in Sides, NEW kind, Carries(s, kind, c), ~Carries(s, kind, c)'
       PROVE  s = side /\ whole.kind = kind /\ whole.id = String(c)
  <2>1. PICK entry \in OnWire(s) : /\ Parse(entry.text)[Root].holds.kind = kind
                                   /\ Parse(entry.text)[Root].holds.id = String(c)
    BY <1>12 DEF Carries
  <2>2. entry \notin OnWire(s)'
    BY <1>12, <2>1 DEF Carries
  <2> QED
    BY <1>1, <1>10, <2>1, <2>2 DEF m, whole
<1>13. CASE Carries(Caller[c], "response", c)
  <2> SUFFICES ASSUME ~Carries(Caller[c], "response", c)' PROVE FALSE
    OBVIOUS
  <2>1. side = Caller[c] /\ whole.kind = "response" /\ whole.id = String(c)
    BY <1>11, <1>12, <1>13
  <2>2. /\ Waits(side, c)
        /\ Root \in {place \in DOMAIN m :
                      m[place].holds.kind = "response" /\ Resolves(m[place].holds, c)}
    BY <1>5, <1>9, <2>1 DEF Waits, Resolves, whole
  <2>3. Resolved(side, m)[c].status = "done"
    BY <2>2 DEF Resolved
  <2> QED
    BY <1>7, <2>1, <2>3
<1>14. CASE Carries(Callee(c), "request", c)
  <2> SUFFICES ASSUME ~Carries(Callee(c), "request", c)'
               PROVE  Carries(Caller[c], "response", c)'
    OBVIOUS
  <2>1. side = Callee(c) /\ whole.kind = "request" /\ whole.id = String(c)
    BY <1>11, <1>12, <1>14
  <2>2. Answered(side, whole) = Some(Response(Serve(side, whole.method, whole.params), whole.id))
    BY <2>1 DEF Answered
  <2>3. Answered(side, whole) # None
    BY <2>2 DEF Some, None
  <2>4. LET a == Answered(side, whole)[1]
        IN  SettlePart(a) = a /\ a.kind = "response" /\ a.id = String(c)
    BY <1>8, <2>1, <2>3, AnswerOf
  <2>5. sent = Reply(side, m)
    BY <1>6, <1>9, <2>1
  <2>6. Root \in DOMAIN sent /\ sent[Root].holds = Answered(side, whole)[1]
    BY <1>5, <2>3, <2>5 DEF Reply, whole
  <2>7. OwnMessage(sent)
    BY <1>4, <2>5, <2>6, ReplyRight DEF m
  <2>8. Parse(Write(sent)) = Settled(sent)
    BY <2>7, MessageReadsBack
  <2>9. Settled(sent)[Root].holds = SettlePart(sent[Root].holds)
    BY <2>6 DEF Settled, Each
  <2>10. Written(sent).text = Write(sent)
    BY DEF Written
  <2>11. Written(sent) \in OnWire(Caller[c])'
    <3>1. wire'[Caller[c]] = Append(wire[Caller[c]], Written(sent))
      BY <1>6, <1>11, <2>1, <2>6
    <3>2. IsSeq(wire[Caller[c]])
      BY <1>11 DEF ExchangeInv, Shape
    <3>3. \E j \in DOMAIN wire'[Caller[c]] : wire'[Caller[c]][j] = Written(sent)
      BY <3>1, <3>2, QueueKeeps
    <3> QED
      BY <3>3 DEF OnWire
  <2> QED
    BY <2>4, <2>6, <2>8, <2>9, <2>10, <2>11 DEF Carries
<1> QED
  BY <1>9, <1>13, <1>14 DEF NoneForgotten

\* Sending forgets no call, and a call that starts has sent its question.
LEMMA SendForgetsNone ==
  ASSUME ExchangeInv, NoneForgotten, NEW to \in Sides, NEW entry, SendTo(to, entry), chain' = chain,
         \A c \in Calls : \/ calls'[c] = calls[c]
                         \/ /\ to = Callee(c)
                            /\ Parse(entry.text)[Root].holds.kind = "request"
                            /\ Parse(entry.text)[Root].holds.id = String(c)
  PROVE  NoneForgotten'
<1>1. \A side \in Sides :
        wire'[side] = IF side = to THEN Append(wire[side], entry) ELSE wire[side]
  BY DEF SendTo, ExchangeInv, Shape
<1>2. /\ entry \in OnWire(to)'
      /\ \A side \in Sides : OnWire(side) \subseteq OnWire(side)'
  <2>1. \A side \in Sides : IsSeq(wire[side])
    BY DEF ExchangeInv, Shape
  <2>2. /\ \E j \in DOMAIN wire'[to] : wire'[to][j] = entry
        /\ \A side \in Sides : \A i \in DOMAIN wire[side] :
             \E j \in DOMAIN wire'[side] : wire'[side][j] = wire[side][i]
    <3>1. /\ \E j \in DOMAIN wire'[to] : wire'[to][j] = entry
          /\ \A i \in DOMAIN wire[to] :
               \E j \in DOMAIN wire'[to] : wire'[to][j] = wire[to][i]
      <4>1. PICK s : s = wire[to]
        OBVIOUS
      <4>2. IsSeq(s) /\ wire'[to] = Append(s, entry)
        BY <1>1, <2>1, <4>1
      <4>3. /\ \E j \in DOMAIN Append(s, entry) : Append(s, entry)[j] = entry
            /\ \A i \in DOMAIN s : \E j \in DOMAIN Append(s, entry) : Append(s, entry)[j] = s[i]
        BY <4>2, QueueKeeps
      <4> QED
        BY <4>1, <4>2, <4>3
    <3>2. \A side \in Sides : side # to => wire'[side] = wire[side]
      BY <1>1
    <3> QED
      BY <3>1, <3>2
  <2> QED
    BY <2>2 DEF OnWire
<1>3. \A side \in Sides : \A kind, c : Carries(side, kind, c) => Carries(side, kind, c)'
  BY <1>2 DEF Carries
<1>4. \A c \in Calls : Caller[c] \in Sides /\ Callee(c) \in Sides
  BY ExchangeAssumption DEF Callee, Other
<1>5. ASSUME NEW c \in Calls, calls'[c].status = "waiting", ~Stopped(Callee(c))'
      PROVE  Carries(Callee(c), "request", c)' \/ Carries(Caller[c], "response", c)'
  <2>1. CASE calls'[c] = calls[c]
    <3>1. ~Stopped(Callee(c))
      BY <1>5 DEF Stopped
    <3> QED
      BY <1>3, <1>4, <1>5, <2>1, <3>1 DEF NoneForgotten
  <2>2. CASE /\ to = Callee(c)
             /\ Parse(entry.text)[Root].holds.kind = "request"
             /\ Parse(entry.text)[Root].holds.id = String(c)
    BY <1>2, <2>2 DEF Carries
  <2> QED
    BY <2>1, <2>2
<1> QED
  BY <1>5 DEF NoneForgotten

\* A call to an endpoint that serves waits for something that is on its way, so that it
\* is answered once both sides go on reading, which is all that fairness has to add.
THEOREM CallsNotForgotten == Spec => []NoneForgotten
<1>1. Init => NoneForgotten
  BY DEF Init, NoneForgotten
<1>2. ASSUME ExchangeInv, NoneForgotten, [Next]_vars PROVE NoneForgotten'
  <2>1. CASE UNCHANGED vars
    BY <1>2, <2>1 DEF vars, NoneForgotten, Carries, OnWire, Stopped
  <2>2. ASSUME NEW c \in Calls, NEW q \in Questions[c], Call(c, q) PROVE NoneForgotten'
    <3> DEFINE m == Request(q.method, q.params, String(c))
    <3>1. IsOption(q.params) /\ m.kind = "request" /\ m.id = String(c) /\ OwnPart(m)
      BY ExchangeAssumption DEF IsQuestion, OwnPart, Request
    <3>2. SettlePart(m).kind = "request" /\ SettlePart(m).id = String(c)
      BY DEF SettlePart, SettleSingle, Request, Batch
    <3>3. SendTo(Callee(c), Written(Alone(m))) /\ chain' = chain
      BY <2>2 DEF Call, Callee
    <3>4. \A d \in Calls : d # c => calls'[d] = calls[d]
      BY <1>2, <2>2 DEF Call, ExchangeInv, Shape
    <3> HIDE DEF m
    <3>5. /\ DOMAIN Alone(m) = {Root} /\ Alone(m)[Root].holds = m
          /\ Alone(m) = [place \in {Root} |-> [holds |-> m, inside |-> {}]]
      BY DEF Alone
    <3>6. OwnMessage(Alone(m))
      BY <3>1, <3>5 DEF OwnMessage
    <3>7. Parse(Written(Alone(m)).text)[Root].holds = SettlePart(m)
      <4>1. Parse(Write(Alone(m))) = Settled(Alone(m))
        BY <3>6, MessageReadsBack
      <4>2. Settled(Alone(m))[Root].holds = SettlePart(m)
        BY <3>5 DEF Settled, Each
      <4> QED
        BY <4>1, <4>2 DEF Written
    <3>8. Callee(c) \in Sides
      BY ExchangeAssumption DEF Callee, Other
    <3> QED
      BY <1>2, <3>2, <3>3, <3>4, <3>7, <3>8, SendForgetsNone
  <2>3. ASSUME NEW side \in Sides, Receive(side) PROVE NoneForgotten'
    BY <1>2, <2>3, ReceiveForgetsNone
  <2>4. ASSUME NEW side \in Sides, NEW q \in Notices, Notify(side, q) PROVE NoneForgotten'
    <3>1. Other(side) \in Sides
      BY ExchangeAssumption DEF Other
    <3> QED
      BY <1>2, <2>4, <3>1, SendForgetsNone DEF Notify
  <2>5. ASSUME NEW side \in Sides, NEW text \in Foreign, Inject(side, text)
        PROVE  NoneForgotten'
    BY <1>2, <2>5, SendForgetsNone DEF Inject
  <2> QED
    BY <1>2, <2>1, <2>2, <2>3, <2>4, <2>5 DEF Next
<1> QED
  BY <1>1, <1>2, ExchangeInvariant, PTL DEF Spec
=============================================================================
