----------------------------- MODULE MCRpcCall -----------------------------
EXTENDS RpcCall

CONSTANTS c1, c2, k1, k2

TwoCalls       == {c1, c2}
TwoControllers == {k1, k2}
ControllersOfCalls == [c \in Calls |-> IF c = c1 THEN {k1} ELSE {k1, k2}]

(* One of the ids drawn carries when it is counted up, one is used up.      *)
DrawnIds == {<<0, 1>>, <<1, 1>>}

(* A service that another of its name replaces, and one in a package. Of    *)
(* the requests one parses and has a result, one has an empty one, one has  *)
(* one that the client's older type does not parse.                         *)
Make(result) == [data \in {<<"good">>, <<"bare">>, <<"newer">>} |->
                   CASE data = <<"good">> -> result
                     [] data = <<"bare">> -> <<>>
                     [] OTHER -> <<"unreadable">>]
Service(name, result) == [full_name |-> name, methods |-> [m \in {<<"make">>} |-> Make(result)]]

Order  == <<"Order">>
Packed == <<"shop", ".", "Order">>
Services == <<Service(Order, <<"old">>), Service(Order, <<"price", "res">>),
              Service(Packed, <<"packed">>)>>

Unreadables == {<<"unreadable">>}

(* The first call asks for a result, for one that does not parse, for a     *)
(* method that is not there and for the service in the package.             *)
Of(service, method, data) == [name |-> service \o <<".", method>>, data |-> <<data>>]
RequestsOfCalls ==
  [c \in Calls |->
     IF c = c1 THEN {Of(Order, "make", "good"), Of(Order, "make", "newer"),
                     Of(Order, "drop", "good"), Of(Packed, "make", "good")}
     ELSE {Of(Order, "make", "bare")}]
=============================================================================
