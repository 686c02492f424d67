------------------------------- MODULE Params -------------------------------
(***************************************************************************)
(* The macro jsonrpc_params! (src/src/server.rs), which turns the          *)
(* parameters of a call into typed values or refuses them.                 *)
(*                                                                         *)
(* A definition of parameters has a style, their names and their types; a  *)
(* value that was converted is given as JSON again.                        *)
(***************************************************************************)
EXTENDS Json

Types == {"bool", "option", "list", "struct", "value", "values", "options"}

\* What the macro is used with: no parameters at all, or some with their types, and
\* names of their own unless they go by position only.
IsDefinition(def) ==
  /\ def.style \in {"nothing", "positional", "named", "decide"}
  /\ def.types \in Seq(Types) /\ (def.style # "nothing" => def.types # <<>>)
  /\ IsSeq(def.names) /\ Len(def.names) = Len(def.types)
  /\ \A i, j \in DOMAIN def.names : def.names[i] = def.names[j] => i = j

Refused == None

IsBool(v) == v.type = "bool"

\* A derived structure of one field may come as an array, and lack an optional field
\* in an object.
Structure(optional, v) ==
  LET oneField == v.type = "object" \/ (v.type = "array" /\ Len(v.items) = 1)
      field == IF v.type = "array" THEN v.items[1]
               ELSE IF "x" \in DOMAIN v.fields THEN v.fields["x"] ELSE Null
  IN  IF oneField /\ (IsBool(field) \/ (optional /\ field = Null))
      THEN Some(Object([x |-> field])) ELSE Refused

\* from_value for some types: a bool, an optional one, a list of them, a structure
\* that holds one, any JSON value, a list of such, and a structure that holds an
\* optional bool.
Convert(type, v) ==
  LET Taken(ok) == IF ok THEN Some(v) ELSE Refused
  IN  CASE type = "bool" -> Taken(IsBool(v))
        [] type = "option" -> Taken(IsBool(v) \/ v = Null)
        [] type = "list" -> Taken(v.type = "array" /\ \A i \in DOMAIN v.items : IsBool(v.items[i]))
        [] type = "struct" -> Structure(FALSE, v)
        [] type = "value" -> Some(v)
        [] type = "values" -> Taken(v.type = "array")
        [] type = "options" -> Structure(TRUE, v)

\* All parameters, or an early return.
ConvertAll(types, values) ==
  LET converted == [i \in DOMAIN types |-> Convert(types[i], values[i])]
  IN  IF \E i \in DOMAIN types : converted[i] = Refused THEN Refused
      ELSE Some([i \in DOMAIN types |-> converted[i][1]])

\* An empty definition accepts what is empty.
Nothing(params) ==
  IF params = None \/ params[1] \in {Null, Array(<<>>), Object(<<>>)}
  THEN Some(<<>>) ELSE Refused

Arity(types, items) == Len(types) = Len(items)

Positional(types, params) ==
  IF params # None /\ params[1].type = "array" /\ Arity(types, params[1].items)
  THEN ConvertAll(types, params[1].items)
  ELSE Refused

\* What is missing is taken for null, what is not asked for is ignored.
Named(names, types, params) ==
  IF params # None /\ params[1].type = "object"
  THEN LET f == params[1].fields
       IN  ConvertAll(types, [i \in DOMAIN names |->
                                IF names[i] \in DOMAIN f THEN f[names[i]] ELSE Null])
  ELSE Refused

Decide(names, types, params) ==
  IF params # None /\ params[1].type = "array" THEN Positional(types, params)
  ELSE Named(names, types, params)

\* A single parameter may be all of the parameters, which is tried first.
Whole(type, params) == IF params = None THEN Refused ELSE Convert(type, params[1])

Single_Only(name, type, params) ==
  IF Whole(type, params) # Refused THEN Some(Whole(type, params)) ELSE Refused
Single(name, type, params) ==
  IF Whole(type, params) # Refused THEN Some(Whole(type, params))
  ELSE Decide(<<name>>, <<type>>, params)

Decode(def, params) ==
  CASE def.style = "nothing" -> Nothing(params)
    [] def.style = "positional" -> Positional(def.types, params)
    [] def.style = "named" -> Named(def.names, def.types, params)
    [] def.style = "decide" ->
         IF Len(def.types) = 1 THEN Single(def.names[1], def.types[1], params)
         ELSE Decide(def.names, def.types, params)
=============================================================================
