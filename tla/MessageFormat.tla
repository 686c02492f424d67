--------------------------- MODULE MessageFormat ---------------------------
(***************************************************************************)
(* How one message is read from a JSON value and written to one            *)
(* (src/src/message.rs).  The codecs turn text into values and back.       *)
(*                                                                         *)
(* Batches, which hold other messages, are in Exchange.                    *)
(***************************************************************************)
EXTENDS Json

-----------------------------------------------------------------------------
(* Messages.                                                               *)

Request(method, params, id) ==
  [kind |-> "request", method |-> method, params |-> params, id |-> id]
Notification(method, params) ==
  [kind |-> "notification", method |-> method, params |-> params]
Response(result, id) == [kind |-> "response", result |-> result, id |-> id]
Batch == [kind |-> "batch"]
UnmatchedSub(value) == [kind |-> "unmatched", value |-> value]

Ok(value) == [ok |-> value]
Err(error) == [err |-> error]

RpcError(code, message, data) == [code |-> code, message |-> message, data |-> data]

\* The wording of `data` is left out.
InvalidParams == RpcError(-32602, "Invalid params", Some(String("why")))
InvalidRequest == RpcError(-32600, "Invalid request", None)
ParseError == RpcError(-32700, "Parse error", Some(String("why")))
MethodNotFound(method) == RpcError(-32601, "Method not found", Some(String(method)))

\* An error that answers no request in particular.
TopLevel(error) == Response(Err(error), Null)

-----------------------------------------------------------------------------
(* Reading.                                                                *)

Version == String("2.0")

\* A derived Deserialize takes an object without unknown fields (all these structs
\* deny them) that lacks at most Options, or else an array of all the fields.
Fits(v, names, options) ==
  LET known == {names[i] : i \in DOMAIN names}
  IN  \/ /\ v.type = "object"
         /\ DOMAIN v.fields \subseteq known
         /\ known \ options \subseteq DOMAIN v.fields
      \/ v.type = "array" /\ Len(v.items) = Len(names)

Fields(v, names) ==
  IF v.type = "object" THEN v.fields
  ELSE [name \in {names[i] : i \in DOMAIN names} |->
          v.items[CHOOSE i \in DOMAIN names : names[i] = name]]

\* Whatever is there, null too (some_value).
SomeValue_NotNull(fields, name) ==
  IF name \in DOMAIN fields /\ fields[name] # Null THEN Some(fields[name]) ELSE None
SomeValue(fields, name) == IF name \in DOMAIN fields THEN Some(fields[name]) ELSE None

\* An Option reads null as nothing.
Option(fields, name) ==
  IF name \in DOMAIN fields /\ fields[name] # Null THEN Some(fields[name]) ELSE None

RequestFields == <<"jsonrpc", "method", "params", "id">>
ResponseFields == <<"jsonrpc", "result", "error", "id">>
NotificationFields == <<"jsonrpc", "method", "params">>
ErrorFields == <<"code", "message", "data">>

IsRequest(v) ==
  /\ Fits(v, RequestFields, {"params"})
  /\ LET f == Fields(v, RequestFields)
     IN  f["jsonrpc"] = Version /\ f["method"].type = "string"

ReadRequest(v) ==
  LET f == Fields(v, RequestFields)
  IN  Request(f["method"].string, Option(f, "params"), f["id"])

IsNotification(v) ==
  /\ Fits(v, NotificationFields, {"params"})
  /\ LET f == Fields(v, NotificationFields)
     IN  f["jsonrpc"] = Version /\ f["method"].type = "string"

ReadNotification(v) ==
  LET f == Fields(v, NotificationFields)
  IN  Notification(f["method"].string, Option(f, "params"))

IsError(v) ==
  /\ Fits(v, ErrorFields, {"data"})
  /\ LET f == Fields(v, ErrorFields)
     IN  f["code"].type = "number" /\ f["message"].type = "string"

ReadError(v) ==
  LET f == Fields(v, ErrorFields)
  IN  RpcError(f["code"].number, f["message"].string, Option(f, "data"))

\* Either a result or an error, and not both.
IsResponse(v) ==
  /\ Fits(v, ResponseFields, {"result", "error"})
  /\ LET f == Fields(v, ResponseFields)
         result == SomeValue(f, "result")
         error == Option(f, "error")
     IN  /\ f["jsonrpc"] = Version
         /\ error # None => IsError(error[1])
         /\ (result = None) # (error = None)

ReadResponse(v) ==
  LET f == Fields(v, ResponseFields)
      error == Option(f, "error")
  IN  Response(IF error = None THEN Ok(f["result"]) ELSE Err(ReadError(error[1])), f["id"])

\* The variants of an untagged enum are tried in their order.
ReadSingle(v) ==
  IF IsRequest(v) THEN ReadRequest(v)
  ELSE IF IsResponse(v) THEN ReadResponse(v)
  ELSE IF IsNotification(v) THEN ReadNotification(v)
  ELSE UnmatchedSub(v)

-----------------------------------------------------------------------------
(* Writing.                                                                *)

\* A field that is skipped when there is nothing in it.
With(fields, name, option) ==
  IF option = None THEN fields
  ELSE [f \in DOMAIN fields \cup {name} |-> IF f = name THEN option[1] ELSE fields[f]]

WriteRequest(m) ==
  Object(With([jsonrpc |-> Version, method |-> String(m.method), id |-> m.id],
              "params", m.params))

WriteNotification(m) ==
  Object(With([jsonrpc |-> Version, method |-> String(m.method)], "params", m.params))

WriteError(e) ==
  Object(With([code |-> Number(e.code), message |-> String(e.message)], "data", e.data))

WriteResponse_Both(m) ==
  Object([jsonrpc |-> Version, id |-> m.id,
          result |-> IF "ok" \in DOMAIN m.result THEN m.result.ok ELSE Null,
          error |-> IF "ok" \in DOMAIN m.result THEN Null ELSE WriteError(m.result.err)])
WriteResponse(m) ==
  Object(IF "ok" \in DOMAIN m.result
         THEN [jsonrpc |-> Version, result |-> m.result.ok, id |-> m.id]
         ELSE [jsonrpc |-> Version, error |-> WriteError(m.result.err), id |-> m.id])

WriteSingle(m) ==
  CASE m.kind = "request" -> WriteRequest(m)
    [] m.kind = "notification" -> WriteNotification(m)
    [] m.kind = "response" -> WriteResponse(m)

-----------------------------------------------------------------------------
\* null and nothing are the same once written and read.
Settle(option) == IF option = Some(Null) THEN None ELSE option

SettleSingle(m) ==
  CASE m.kind = "response" ->
         IF "ok" \in DOMAIN m.result THEN m
         ELSE [m EXCEPT !.result.err.data = Settle(@)]
    [] OTHER -> [m EXCEPT !.params = Settle(@)]
=============================================================================
