-------------------------------- MODULE Json --------------------------------
(***************************************************************************)
(* JSON values, as serde_json's Value has them, and Rust's Option.         *)
(***************************************************************************)
EXTENDS Integers, Sequences

Null == [type |-> "null"]
Bool(b) == [type |-> "bool", truth |-> b]
Number(n) == [type |-> "number", number |-> n]
String(s) == [type |-> "string", string |-> s]
Array(items) == [type |-> "array", items |-> items]
Object(fields) == [type |-> "object", fields |-> fields]

None == <<>>
Some(x) == <<x>>
IsOption(o) == o = None \/ o = Some(o[1])

IsSeq(s) == s \in Seq({s[i] : i \in DOMAIN s})
=============================================================================
