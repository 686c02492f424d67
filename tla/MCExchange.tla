----------------------------- MODULE MCExchange -----------------------------
(***************************************************************************)
(* Exchange for TLC: a client that makes two calls, servers with each      *)
(* style of parameters, and texts that are nearly messages.                *)
(***************************************************************************)
EXTENDS Exchange

Callers == [c \in {"c1", "c2"} |-> "left"]

Fn(def) == [m \in {"m"} |-> def]
Server(def) == [empty |-> FALSE, methods |-> Fn(def)]
EmptyServer == [empty |-> TRUE, methods |-> <<>>]
Def(style, names, types) == [style |-> style, names |-> names, types |-> types]

TwoBools == Server(Def("decide", <<"p", "q">>, <<"bool", "option">>))
RightChains == {
  <<TwoBools, EmptyServer>>,
  <<TwoBools, Server(Def("nothing", <<>>, <<>>))>>,
  <<Server(Def("nothing", <<>>, <<>>)), TwoBools>>,
  <<Server(Def("positional", <<"p", "q">>, <<"bool", "option">>))>>,
  <<Server(Def("named", <<"p", "q">>, <<"bool", "option">>))>>,
  <<Server(Def("decide", <<"p">>, <<"list">>))>>,
  <<Server(Def("decide", <<"p">>, <<"struct">>))>>,
  <<Server(Def("decide", <<"p">>, <<"option">>))>>,
  <<Server(Def("decide", <<"p">>, <<"value">>))>>,
  <<Server(Def("decide", <<"p">>, <<"values">>))>>,
  <<Server(Def("decide", <<"p">>, <<"options">>))>>}

TestChains ==
  [side \in {"left", "right"} |->
     IF side = "right" THEN RightChains
     ELSE {<<TwoBools>>}]

T == Bool(TRUE)
Holder == Object([x |-> T])
TestParams == {
  None, Some(Null), Some(T), Some(Array(<<T>>)), Some(Array(<<T, Null>>)),
  Some(Array(<<Array(<<T>>)>>)), Some(Array(<<Holder>>)), Some(Holder),
  Some(Object(<<>>)), Some(Object([p |-> T])), Some(Object([p |-> T, q |-> T])),
  Some(Object([p |-> Holder]))}
Ask(method, params) == [method |-> method, params |-> params]
TestNotices == {Ask("m", Some(Null))}
TestQuestions ==
  [c \in {"c1", "c2"} |->
     IF c = "c1" THEN {Ask("m", params) : params \in TestParams}
     ELSE {Ask("n", None)}]

V == Version
Call7 == Object([jsonrpc |-> V, method |-> String("m"), id |-> Number(7)])
Notif == Object([jsonrpc |-> V, method |-> String("m"), params |-> Null])
Result7 == Object([jsonrpc |-> V, result |-> Null, id |-> Number(7)])
ErrorX == Object([jsonrpc |-> V, id |-> String("x"),
                  error |-> Object([code |-> Number(1), message |-> String("e"), data |-> Null])])
Ambiguous == Array(<<V, String("m"), Null, String("x")>>)
\* The items of an array have places of their own, after that of the array.
In(holds, inside) == [holds |-> holds, inside |-> inside]
TestTexts == {
  Alone(Garbage), Alone(Notif), Alone(ErrorX), Alone(Ambiguous),
  Alone(Object([jsonrpc |-> V, method |-> String("m"), id |-> Null, other |-> Null])),
  Alone(Object([jsonrpc |-> V, result |-> Null, id |-> Number(7),
                error |-> Object([code |-> Number(1), message |-> String("e")])])),
  Alone(List), <<In(List, {}), In(V, {1})>>,
  <<In(List, {}), In(Notif, {1}), In(Result7, {1})>>,
  <<In(List, {}), In(Call7, {1}), In(Null, {1}), In(Notif, {1}),
    In(List, {1}), In(Call7, {1, 5}), In(Call7, {1, 5})>>}
=============================================================================
