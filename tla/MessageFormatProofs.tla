------------------------ MODULE MessageFormatProofs ------------------------
(***************************************************************************)
(* Proofs about MessageFormat: what is written is read as it was, for all  *)
(* methods, parameters, results and ids.                                   *)
(***************************************************************************)
EXTENDS MessageFormat, TLAPS

\* The fields of an object with one that may be skipped.
LEMMA WithFields ==
  ASSUME NEW fields, NEW name, NEW option
  PROVE  DOMAIN With(fields, name, option) =
           IF option = None THEN DOMAIN fields ELSE DOMAIN fields \cup {name}
<1>1. CASE option = None
  BY <1>1 DEF With, None
<1>2. CASE option # None
  BY <1>2 DEF With
<1> QED
  BY <1>1, <1>2

\* The other fields are left alone.
LEMMA WithOthers ==
  ASSUME NEW fields, NEW name, NEW option, NEW k \in DOMAIN fields, k # name
  PROVE  With(fields, name, option)[k] = fields[k]
  BY DEF With

\* The field that may be skipped is read as it was written, but for null.
LEMMA WithOption ==
  ASSUME NEW fields, NEW name, NEW option, IsOption(option), name \notin DOMAIN fields
  PROVE  Option(With(fields, name, option), name) = Settle(option)
<1>1. CASE option = None
  BY <1>1 DEF With, Option, Settle, None, Some
<1>2. ASSUME option # None PROVE
         /\ option = Some(option[1]) /\ (option = Some(Null) <=> option[1] = Null)
  BY <1>2 DEF IsOption, Some
<1> QED
  BY <1>1, <1>2 DEF IsOption, With, Option, Settle, Some

\* The names of the fields of each structure.
LEMMA Names ==
  /\ {RequestFields[i] : i \in DOMAIN RequestFields} = {"jsonrpc", "method", "params", "id"}
  /\ {ResponseFields[i] : i \in DOMAIN ResponseFields} = {"jsonrpc", "result", "error", "id"}
  /\ {NotificationFields[i] : i \in DOMAIN NotificationFields} = {"jsonrpc", "method", "params"}
  /\ {ErrorFields[i] : i \in DOMAIN ErrorFields} = {"code", "message", "data"}
  BY DEF RequestFields, ResponseFields, NotificationFields, ErrorFields

\* What it takes to read an object as each structure.
LEMMA Objects ==
  ASSUME NEW f
  PROVE  LET v == Object(f)
         IN  /\ v.type = "object" /\ v.fields = f
             /\ Fits(v, RequestFields, {"params"}) <=>
                  /\ DOMAIN f \subseteq {"jsonrpc", "method", "params", "id"}
                  /\ {"jsonrpc", "method", "id"} \subseteq DOMAIN f
             /\ Fits(v, NotificationFields, {"params"}) <=>
                  /\ DOMAIN f \subseteq {"jsonrpc", "method", "params"}
                  /\ {"jsonrpc", "method"} \subseteq DOMAIN f
             /\ Fits(v, ResponseFields, {"result", "error"}) <=>
                  /\ DOMAIN f \subseteq {"jsonrpc", "result", "error", "id"}
                  /\ {"jsonrpc", "id"} \subseteq DOMAIN f
             /\ Fits(v, ErrorFields, {"data"}) <=>
                  /\ DOMAIN f \subseteq {"code", "message", "data"}
                  /\ {"code", "message"} \subseteq DOMAIN f
<1> DEFINE v == Object(f)
<1>1. v.type = "object" /\ v.fields = f /\ v.type # "array"
  BY DEF Object
<1> HIDE DEF v
<1>2. /\ {"jsonrpc", "method", "params", "id"} \ {"params"} = {"jsonrpc", "method", "id"}
      /\ {"jsonrpc", "method", "params"} \ {"params"} = {"jsonrpc", "method"}
      /\ {"jsonrpc", "result", "error", "id"} \ {"result", "error"} = {"jsonrpc", "id"}
      /\ {"code", "message", "data"} \ {"data"} = {"code", "message"}
  OBVIOUS
<1> QED
  BY <1>1, <1>2, Names DEF Fits, v

\* A request is read as it was written, but that null for params is nothing.
THEOREM RequestReadsBack ==
  ASSUME NEW method, NEW params, IsOption(params), NEW id
  PROVE  LET m == Request(method, params, id)
         IN  ReadSingle(WriteSingle(m)) = SettleSingle(m)
<1> DEFINE m == Request(method, params, id)
           base == [jsonrpc |-> Version, method |-> String(method), id |-> id]
           f == With(base, "params", params)
<1>1. m.kind = "request" /\ m.method = method /\ m.params = params /\ m.id = id
  BY DEF Request
<1>2. WriteSingle(m) = Object(f)
  BY <1>1 DEF WriteSingle, WriteRequest
<1>3. /\ DOMAIN base = {"jsonrpc", "method", "id"}
      /\ base["jsonrpc"] = Version /\ base["method"] = String(method) /\ base["id"] = id
  OBVIOUS
<1> HIDE DEF base
<1>4. /\ DOMAIN f \subseteq {"jsonrpc", "method", "params", "id"}
      /\ {"jsonrpc", "method", "id"} \subseteq DOMAIN f
      /\ f["jsonrpc"] = Version /\ f["method"] = String(method) /\ f["id"] = id
      /\ Option(f, "params") = Settle(params)
  <2>6. f = With(base, "params", params)
    OBVIOUS
  <2> HIDE DEF f
  <2>1. DOMAIN f = IF params = None THEN DOMAIN base ELSE DOMAIN base \cup {"params"}
    BY <2>6, WithFields
  <2>2. "params" \notin DOMAIN base
    BY <1>3
  <2>3. Option(f, "params") = Settle(params)
    BY <2>2, <2>6, WithOption
  <2>4. \A k \in DOMAIN base : k # "params" => f[k] = base[k]
    BY <2>6, WithOthers
  <2>5. DOMAIN f = DOMAIN base \/ DOMAIN f = DOMAIN base \cup {"params"}
    BY <2>1
  <2> QED
    BY <1>3, <2>2, <2>3, <2>4, <2>5
<1> HIDE DEF f
<1>5. Fields(Object(f), RequestFields) = f
  BY DEF Fields, Object
<1>6. String(method).type = "string" /\ String(method).string = method
  BY DEF String
<1>7. IsRequest(Object(f))
  BY <1>4, <1>5, <1>6, Objects DEF IsRequest
<1>8. ReadRequest(Object(f)) = Request(method, Settle(params), id)
  BY <1>4, <1>5, <1>6 DEF ReadRequest
<1>9. SettleSingle(m) = Request(method, Settle(params), id)
  BY <1>1 DEF SettleSingle, Request
<1> QED
  BY <1>2, <1>7, <1>8, <1>9 DEF ReadSingle

\* A notification is read as it was written, and not as anything else.
THEOREM NotificationReadsBack ==
  ASSUME NEW method, NEW params, IsOption(params)
  PROVE  LET m == Notification(method, params)
         IN  ReadSingle(WriteSingle(m)) = SettleSingle(m)
<1> DEFINE m == Notification(method, params)
           base == [jsonrpc |-> Version, method |-> String(method)]
           f == With(base, "params", params)
<1>1. m.kind = "notification" /\ m.method = method /\ m.params = params
  BY DEF Notification
<1>2. WriteSingle(m) = Object(f)
  BY <1>1 DEF WriteSingle, WriteNotification
<1>3. /\ DOMAIN base = {"jsonrpc", "method"}
      /\ base["jsonrpc"] = Version /\ base["method"] = String(method)
  OBVIOUS
<1> HIDE DEF base
<1>4. /\ DOMAIN f \subseteq {"jsonrpc", "method", "params"}
      /\ {"jsonrpc", "method"} \subseteq DOMAIN f
      /\ f["jsonrpc"] = Version /\ f["method"] = String(method)
      /\ Option(f, "params") = Settle(params)
  <2>6. f = With(base, "params", params)
    OBVIOUS
  <2> HIDE DEF f
  <2>1. DOMAIN f = IF params = None THEN DOMAIN base ELSE DOMAIN base \cup {"params"}
    BY <2>6, WithFields
  <2>2. "params" \notin DOMAIN base
    BY <1>3
  <2>3. Option(f, "params") = Settle(params)
    BY <2>2, <2>6, WithOption
  <2>4. \A k \in DOMAIN base : k # "params" => f[k] = base[k]
    BY <2>6, WithOthers
  <2>5. DOMAIN f = DOMAIN base \/ DOMAIN f = DOMAIN base \cup {"params"}
    BY <2>1
  <2> QED
    BY <1>3, <2>2, <2>3, <2>4, <2>5
<1> HIDE DEF f
<1>5. Fields(Object(f), NotificationFields) = f
  BY DEF Fields, Object
<1>6. String(method).type = "string" /\ String(method).string = method
  BY DEF String
<1>7. IsNotification(Object(f))
  BY <1>4, <1>5, <1>6, Objects DEF IsNotification
<1>8. ~IsRequest(Object(f)) /\ ~IsResponse(Object(f))
  BY <1>4, Objects DEF IsRequest, IsResponse
<1>9. ReadNotification(Object(f)) = Notification(method, Settle(params))
  BY <1>4, <1>5, <1>6 DEF ReadNotification
<1>10. SettleSingle(m) = Notification(method, Settle(params))
  BY <1>1 DEF SettleSingle, Notification
<1> QED
  BY <1>2, <1>7, <1>8, <1>9, <1>10 DEF ReadSingle

\* An error is written as an object that is read as this error.
LEMMA ErrorReadsBack ==
  ASSUME NEW code, NEW message, NEW data, IsOption(data)
  PROVE  LET v == WriteError(RpcError(code, message, data))
         IN  v # Null /\ IsError(v) /\ ReadError(v) = RpcError(code, message, Settle(data))
<1> DEFINE e == RpcError(code, message, data)
           base == [code |-> Number(code), message |-> String(message)]
           f == With(base, "data", data)
<1>1. WriteError(e) = Object(f)
  BY DEF WriteError, RpcError
<1>2. /\ DOMAIN base = {"code", "message"}
      /\ base["code"] = Number(code) /\ base["message"] = String(message)
  OBVIOUS
<1> HIDE DEF base
<1>3. /\ DOMAIN f \subseteq {"code", "message", "data"}
      /\ {"code", "message"} \subseteq DOMAIN f
      /\ f["code"] = Number(code) /\ f["message"] = String(message)
      /\ Option(f, "data") = Settle(data)
  <2>6. f = With(base, "data", data)
    OBVIOUS
  <2> HIDE DEF f
  <2>1. DOMAIN f = IF data = None THEN DOMAIN base ELSE DOMAIN base \cup {"data"}
    BY <2>6, WithFields
  <2>2. "data" \notin DOMAIN base
    BY <1>2
  <2>3. Option(f, "data") = Settle(data)
    BY <2>2, <2>6, WithOption
  <2>4. \A k \in DOMAIN base : k # "data" => f[k] = base[k]
    BY <2>6, WithOthers
  <2>5. DOMAIN f = DOMAIN base \/ DOMAIN f = DOMAIN base \cup {"data"}
    BY <2>1
  <2> QED
    BY <1>2, <2>2, <2>3, <2>4, <2>5
<1> HIDE DEF f
<1>4. Fields(Object(f), ErrorFields) = f
  BY DEF Fields, Object
<1>5. /\ Number(code).type = "number" /\ Number(code).number = code
      /\ String(message).type = "string" /\ String(message).string = message
  BY DEF Number, String
<1>6. IsError(Object(f))
  BY <1>3, <1>4, <1>5, Objects DEF IsError
<1>7. ReadError(Object(f)) = RpcError(code, message, Settle(data))
  BY <1>3, <1>4, <1>5 DEF ReadError
<1>8. Object(f) # Null
  <2>1. Object(f).type = "object" /\ Null.type = "null"
    BY DEF Object, Null
  <2> QED
    BY <2>1
<1> QED
  BY <1>1, <1>6, <1>7, <1>8

\* A positive response is read as it was written, whatever its result is: null too.
THEOREM ResultReadsBack ==
  ASSUME NEW value, NEW id
  PROVE  LET m == Response(Ok(value), id)
         IN  ReadSingle(WriteSingle(m)) = m
<1> DEFINE m == Response(Ok(value), id)
           f == [jsonrpc |-> Version, result |-> value, id |-> id]
<1>1. m.kind = "response" /\ "ok" \in DOMAIN m.result /\ m.result.ok = value /\ m.id = id
  BY DEF Response, Ok
<1>2. WriteSingle(m) = Object(f)
  BY <1>1 DEF WriteSingle, WriteResponse
<1>3. /\ DOMAIN f = {"jsonrpc", "result", "id"}
      /\ f["jsonrpc"] = Version /\ f["result"] = value /\ f["id"] = id
  OBVIOUS
<1> HIDE DEF f
<1>4. Fields(Object(f), ResponseFields) = f
  BY DEF Fields, Object
<1>5. SomeValue(f, "result") # None /\ Option(f, "error") = None
  BY <1>3 DEF SomeValue, Option, Some, None
<1>6. IsResponse(Object(f)) /\ ~IsRequest(Object(f))
  BY <1>3, <1>4, <1>5, Objects DEF IsResponse, IsRequest
<1>7. ReadResponse(Object(f)) = m
  BY <1>3, <1>4, <1>5 DEF ReadResponse
<1> QED
  BY <1>2, <1>6, <1>7 DEF ReadSingle

\* A negative response is read as it was written, but that null for data is nothing.
THEOREM ErrorResponseReadsBack ==
  ASSUME NEW code, NEW message, NEW data, IsOption(data), NEW id
  PROVE  ReadSingle(WriteSingle(Response(Err(RpcError(code, message, data)), id)))
           = Response(Err(RpcError(code, message, Settle(data))), id)
<1> DEFINE e == RpcError(code, message, data)
           m == Response(Err(e), id)
           w == WriteError(e)
           f == [jsonrpc |-> Version, error |-> w, id |-> id]
<1>1. m.kind = "response" /\ "ok" \notin DOMAIN m.result /\ m.result.err = e /\ m.id = id
  BY DEF Response, Err
<1>2. WriteSingle(m) = Object(f)
  BY <1>1 DEF WriteSingle, WriteResponse
<1>3. w # Null /\ IsError(w) /\ ReadError(w) = RpcError(code, message, Settle(data))
  BY ErrorReadsBack
<1> HIDE DEF w
<1>4. /\ DOMAIN f = {"jsonrpc", "error", "id"}
      /\ f["jsonrpc"] = Version /\ f["error"] = w /\ f["id"] = id
  OBVIOUS
<1> HIDE DEF f
<1>5. Fields(Object(f), ResponseFields) = f
  BY DEF Fields, Object
<1>6. /\ SomeValue(f, "result") = None /\ Option(f, "error") # None
      /\ Option(f, "error")[1] = w
  BY <1>3, <1>4 DEF SomeValue, Option, Some, None
<1>7. IsResponse(Object(f)) /\ ~IsRequest(Object(f))
  BY <1>3, <1>4, <1>5, <1>6, Objects DEF IsResponse, IsRequest
<1>8. ReadResponse(Object(f)) = Response(Err(RpcError(code, message, Settle(data))), id)
  BY <1>3, <1>4, <1>5, <1>6 DEF ReadResponse
<1> QED
  BY <1>2, <1>7, <1>8 DEF ReadSingle

\* An array that has neither three nor four items or does not begin with the version is
\* no message but a batch: a batch of messages is never taken for one of its variants.
THEOREM ListsAreBatches ==
  ASSUME NEW items, Len(items) \in {3, 4} => items[1] # Version
  PROVE  ReadSingle(Array(items)).kind = "unmatched"
<1> DEFINE v == Array(items)
<1>1. v.type = "array" /\ v.items = items
  BY DEF Array
<1> HIDE DEF v
<1>2. ASSUME NEW names, Len(names) \in {3, 4}, 1 \in DOMAIN names,
             \A i \in DOMAIN names : (names[i] = "jsonrpc") <=> (i = 1),
             NEW options, Fits(v, names, options)
      PROVE  Fields(v, names)["jsonrpc"] # Version
  <2>1. items[1] # Version
    BY <1>1, <1>2 DEF Fits
  <2>2. 1 \in DOMAIN names /\ names[1] = "jsonrpc"
    BY <1>2
  <2>3. (CHOOSE i \in DOMAIN names : names[i] = "jsonrpc") = 1
    BY <1>2, <2>2
  <2>4. "jsonrpc" \in {names[i] : i \in DOMAIN names}
    BY <2>2
  <2>5. Fields(v, names)["jsonrpc"] = items[CHOOSE i \in DOMAIN names : names[i] = "jsonrpc"]
    BY <1>1, <2>4 DEF Fields
  <2> QED
    BY <2>1, <2>3, <2>5
<1>3. ~IsRequest(v)
  <2>1. Len(RequestFields) = 4 /\ 1 \in DOMAIN RequestFields
    BY DEF RequestFields
  <2>2. \A i \in DOMAIN RequestFields : (RequestFields[i] = "jsonrpc") <=> (i = 1)
    BY DEF RequestFields
  <2> QED
    BY <1>2, <2>1, <2>2 DEF IsRequest
<1>4. ~IsResponse(v)
  <2>1. Len(ResponseFields) = 4 /\ 1 \in DOMAIN ResponseFields
    BY DEF ResponseFields
  <2>2. \A i \in DOMAIN ResponseFields : (ResponseFields[i] = "jsonrpc") <=> (i = 1)
    BY DEF ResponseFields
  <2> QED
    BY <1>2, <2>1, <2>2 DEF IsResponse
<1>5. ~IsNotification(v)
  <2>1. Len(NotificationFields) = 3 /\ 1 \in DOMAIN NotificationFields
    BY DEF NotificationFields
  <2>2. \A i \in DOMAIN NotificationFields : (NotificationFields[i] = "jsonrpc") <=> (i = 1)
    BY DEF NotificationFields
  <2> QED
    BY <1>2, <2>1, <2>2 DEF IsNotification
<1> QED
  BY <1>3, <1>4, <1>5 DEF ReadSingle, UnmatchedSub, v
=============================================================================
