----------------------------- MODULE Dispatcher -----------------------------
(* Dispatcher (src/net/rpc/dispatcher.cc) as operators: from the services   *)
(* registered before the server starts and a request to its response.       *)
(* A name is a sequence of identifiers and dots. A service is its full name *)
(* and its methods; a method is a function from the requests that parse as  *)
(* its request type to the serialised responses.                            *)
EXTENDS TinyPB, SequencesExt

CONSTANT Registered  \* the services, in the order of their registerService

(* No name is empty; what a method gives is a string.                       *)
ASSUME RegisteredAssumption ==
  /\ Registered \in Seq(ToSet(Registered))
  /\ \A service \in ToSet(Registered) :
       /\ IsString(service.full_name) /\ service.full_name # <<>>
       /\ \A m \in DOMAIN service.methods :
            /\ IsString(m) /\ m # <<>>
            /\ \A data \in DOMAIN service.methods[m] : IsString(service.methods[m][data])

(* Mutant: a service registered first keeps its name.                       *)
FirstServices ==
  [name \in {service.full_name : service \in ToSet(Registered)} |->
     LET first == CHOOSE i \in 1..Len(Registered) :
                    /\ Registered[i].full_name = name
                    /\ \A j \in 1..(i - 1) : Registered[j].full_name # name
     IN Registered[first]]

(* registerService, of each in turn: a later one of the same name replaces  *)
(* an earlier.                                                              *)
m_services ==
  [name \in {service.full_name : service \in ToSet(Registered)} |->
     LET last == CHOOSE i \in 1..Len(Registered) :
                   /\ Registered[i].full_name = name
                   /\ \A j \in (i + 1)..Len(Registered) : Registered[j].full_name # name
     IN Registered[last]]

Dots(name) == {i \in 1..Len(name) : name[i] = "."}

(* parseServiceAndMethod: what is before and after the first dot, neither   *)
(* of them empty.                                                           *)
ParseServiceAndMethod(name) ==
  LET pos == CHOOSE i \in Dots(name) : \A j \in Dots(name) : i <= j
  IN IF Dots(name) = {} \/ pos = 1 \/ pos = Len(name) THEN {}
     ELSE {[service |-> SubSeq(name, 1, pos - 1), method |-> SubSeq(name, pos + 1, Len(name))]}

(* dispatch. CallMethod returns when the method has; a response that        *)
(* serialises to nothing counts as one that does not serialise.             *)
Dispatch(request) ==
  LET response  == SetMethodName(SetMsgId(NewProtocol, request.m_msg_id), request.m_method_name)
      Fail(err) == SetErrCodeAndInfo(response, err, <<err>>)
      parsed    == ParseServiceAndMethod(request.m_method_name)
      name      == CHOOSE n \in parsed : TRUE
      methods   == m_services[name.service].methods
      call      == methods[name.method]
      pb_data   == call[request.m_pb_data]
  IN IF parsed = {}                                THEN Fail("SYS_FAILED_PARSE_SERVICE_NAME")
     ELSE IF name.service \notin DOMAIN m_services THEN Fail("SYS_SERVICE_NOT_FOUND")
     ELSE IF name.method \notin DOMAIN methods     THEN Fail("SYS_METHOD_NOT_FOUND")
     ELSE IF request.m_pb_data \notin DOMAIN call  THEN Fail("SYS_FAILED_DESERIALIZE")
     ELSE IF pb_data = <<>>                        THEN Fail("SYS_FAILED_SERIALIZE")
     ELSE SetPbData(SetErrCodeAndInfo(response, "OK", <<"success">>), pb_data)
=============================================================================
