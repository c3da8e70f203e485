--------------------------- MODULE RpcCallProofs ---------------------------
(* Proofs about RPC calls, for any number of calls and controllers, any     *)
(* services, requests and message ids.                                      *)
EXTENDS RpcCall, DispatcherProofs

-----------------------------------------------------------------------------
(* Message ids.                                                             *)

(* The loop over the digits ends at one that takes the carry.               *)
LEMMA IncrementIs ==
  ASSUME NEW no \in Ids, no # MaxId
  PROVE  \E p \in 1..IdLength :
           /\ \A j \in p + 1..IdLength : no[j] = Base - 1
           /\ Increment(no) = [i \in 1..IdLength |->
                                 IF i < p THEN no[i] ELSE IF i = p THEN no[i] + 1 ELSE 0]
           /\ Increment(no) \in Ids
<1> DEFINE Carries(i) == no[i] # Base - 1 /\ \A j \in (i + 1)..IdLength : no[j] = Base - 1
           Small == {i \in 1..IdLength : no[i] # Base - 1}
           p == CHOOSE i \in 1..IdLength : Carries(i)
<1>1. IdLength \in Nat /\ Base \in Nat /\ Base >= 2 /\ \A i \in 1..IdLength : no[i] \in 0..(Base - 1)
  BY IdLengthAssumption, BaseAssumption DEF Ids
<1>2. Small # {}
  BY DEF Ids, MaxId
<1>3. PICK k \in Small : \A j \in Small : j <= k
  <2>1. Small \in SUBSET (1..IdLength)
    OBVIOUS
  <2> HIDE DEF Small
  <2> QED
    BY <1>1, <1>2, <2>1, GreatestNumber
<1>4. k \in 1..IdLength /\ Carries(k)
  <2>1. ASSUME NEW j \in (k + 1)..IdLength, no[j] # Base - 1 PROVE FALSE
    <3>1. j \in Small /\ k \in Nat /\ j \in Int /\ j >= k + 1
      BY <1>1, <1>3, <2>1
    <3> QED
      BY <1>3, <3>1
  <2> QED
    BY <1>3, <2>1
<1>5. p \in 1..IdLength /\ Carries(p)
  BY <1>4
<1>6. Increment(no) = [i \in 1..IdLength |-> IF i < p THEN no[i] ELSE IF i = p THEN no[i] + 1 ELSE 0]
  BY DEF Increment
<1> HIDE DEF p
<1>7. 0 \in 0..(Base - 1) /\ no[p] + 1 \in 0..(Base - 1)
  BY <1>1, <1>5
<1>8. Increment(no) \in Ids
  BY <1>1, <1>6, <1>7 DEF Ids
<1> QED
  BY <1>5, <1>6, <1>8

LEMMA MsgIdsType ==
  ASSUME TypeOK, NEW k \in Controllers, NEW gen \in MsgIds(k)
  PROVE  gen.no \in Ids \cup {<<>>} /\ gen.id \in MessageIds
<1>1. t_msg_id_no \in Ids \cup {<<>>} /\ controller[k].m_msg_id \in MessageIds
  BY DEF TypeOK
<1>2. CASE controller[k].m_msg_id # NoId
  BY <1>1, <1>2 DEF MsgIds
<1>3. CASE controller[k].m_msg_id = NoId
  <2>1. gen \in GenMsgId(t_msg_id_no)
    BY <1>3 DEF MsgIds
  <2>2. CASE t_msg_id_no \in {<<>>, MaxId}
    BY <1>1, <2>1, <2>2, DrawsAssumption DEF GenMsgId, MessageIds, NoId
  <2>3. CASE t_msg_id_no \notin {<<>>, MaxId}
    <3>1. Increment(t_msg_id_no) \in Ids
      BY <1>1, <2>3, IncrementIs
    <3> QED
      BY <2>1, <2>3, <3>1 DEF GenMsgId, MessageIds
  <2> QED
    BY <2>2, <2>3
<1> QED
  BY <1>2, <1>3

LEMMA IdIsString ==
  ASSUME NEW id \in MessageIds
  PROVE  IsString(id)
<1>1. CASE id \in Ids
  <2>1. IdLength \in Nat /\ id \in [1..IdLength -> 0..(Base - 1)]
    BY <1>1, IdLengthAssumption DEF Ids
  <2>2. id \in Seq(0..(Base - 1))
    BY <2>1, SeqDef
  <2> QED
    BY <2>2, StringOf
<1>2. CASE id = NoId
  <2>1. id \in Seq({})
    BY <1>2 DEF NoId
  <2> QED
    BY <2>1, StringOf
<1>3. CASE id = DefaultId
  <2>1. id \in Seq(Nat)
    BY <1>3 DEF DefaultId
  <2> QED
    BY <2>1, StringOf
<1> QED
  BY <1>1, <1>2, <1>3 DEF MessageIds

-----------------------------------------------------------------------------
(* What a request is answered: one response, under the id it is awaited by. *)

Sent(msg) == SetMsgId(msg, EncodedId(msg.m_msg_id))

LEMMA RepliesAre ==
  ASSUME NEW msg, IsMessage(msg)
  PROVE  /\ IsMessage(Sent(msg)) /\ Sent(msg).m_msg_id = EncodedId(msg.m_msg_id)
         /\ Sent(msg).m_method_name = msg.m_method_name /\ Sent(msg).m_pb_data = msg.m_pb_data
         /\ Replies(msg) = {Dispatch(Sent(msg))}
<1>1. IsString(DefaultId) /\ DefaultId # NoId
  <2>1. DefaultId \in Seq(Nat)
    BY DEF DefaultId
  <2>2. DefaultId # NoId
    BY DEF DefaultId, NoId
  <2> QED
    BY <2>1, <2>2, StringOf
<1>2. IsString(EncodedId(msg.m_msg_id)) /\ EncodedId(msg.m_msg_id) # NoId
  BY <1>1 DEF EncodedId, IsMessage
<1>3. /\ IsMessage(Sent(msg)) /\ Sent(msg).m_msg_id = EncodedId(msg.m_msg_id)
      /\ Sent(msg).m_method_name = msg.m_method_name /\ Sent(msg).m_pb_data = msg.m_pb_data
  BY <1>2 DEF IsMessage, SetMsgId, Sent
<1>4. Received(msg) = {Sent(msg)}
  BY RoundTrip DEF Sent
<1> DEFINE response == Dispatch(Sent(msg))
<1>5. IsMessage(response) /\ response.m_msg_id = EncodedId(msg.m_msg_id)
  BY <1>3, DispatchIs
<1> HIDE DEF response
<1>6. Received(response) = {response}
  <2>1. SetMsgId(response, EncodedId(response.m_msg_id)) = response
    BY <1>2, <1>5 DEF SetMsgId, EncodedId, IsMessage
  <2> QED
    BY <1>5, <2>1, RoundTrip
<1>7. Replies(msg) = UNION {Received(r) : r \in {Dispatch(request) : request \in {Sent(msg)}}}
  BY <1>4 DEF Replies
<1>8. Replies(msg) = Received(response)
  BY <1>7 DEF response
<1> QED
  BY <1>3, <1>6, <1>8 DEF response

LEMMA MessageIs ==
  ASSUME NEW c \in Calls, NEW r \in RequestsOf[c], NEW id \in MessageIds
  PROVE  IsMessage(CallMessage(id, r)) /\ CallMessage(id, r).m_msg_id = id
<1>1. IsString(r.name) /\ IsString(r.data) /\ IsString(id) /\ IsString(<<>>)
  <2>1. IsString(<<>>)
    BY EmptySeq, StringOf
  <2> QED
    BY <2>1, RequestsAssumption, IdIsString
<1>2. CallMessage(id, r) = [m_msg_id |-> id, m_method_name |-> r.name, m_err_code |-> "OK",
                            m_err_info |-> <<>>, m_pb_data |-> r.data]
  <2>1. PICK m1 : m1 = SetMsgId(NewProtocol, id)
    OBVIOUS
  <2>2. PICK m2 : m2 = SetMethodName(m1, r.name)
    OBVIOUS
  <2>3. CallMessage(id, r) = SetPbData(m2, r.data)
    BY <2>1, <2>2 DEF CallMessage
  <2>4. m1 = [m_msg_id |-> id, m_method_name |-> <<>>, m_err_code |-> "OK",
              m_err_info |-> <<>>, m_pb_data |-> <<>>]
    BY <2>1 DEF NewProtocol, SetMsgId
  <2>5. m2 = [m_msg_id |-> id, m_method_name |-> r.name, m_err_code |-> "OK",
              m_err_info |-> <<>>, m_pb_data |-> <<>>]
    BY <2>2, <2>4 DEF SetMethodName
  <2> QED
    BY <2>3, <2>5 DEF SetPbData
<1> QED
  BY <1>1, <1>2 DEF IsMessage

-----------------------------------------------------------------------------
(* The invariant.                                                           *)

Task(kind, c) == [kind |-> kind, call |-> c]
Queued(c)     == Task("OUT", c) \in batch \/ Task("IN", c) \in batch

(* Nothing is under way for the call.                                       *)
Idle(c) == /\ client[c].state = "NotConnected" /\ client[c].interest = {}
           /\ timer[c] = "none" /\ ~Queued(c)

(* Its connect is in progress, or is to be told about.                      *)
Dialing(c) == client[c].onOut = "connect" /\ ("OUT" \in client[c].interest \/ Task("OUT", c) \in batch)

(* What has been asked, and is answered.                                    *)
Asked(c) == /\ rpc[c].controller \in Controllers
            /\ IsMessage(rpc[c].request)
            /\ rpc[c].replies = Replies(rpc[c].request)

Full(q) == q = [request |-> q.request, controller |-> q.controller, replies |-> q.replies,
                response |-> q.response, answer |-> q.answer, done |-> q.done]
Shape == rpc = [c \in Calls |-> rpc[c]] /\ \A c \in Calls : Full(rpc[c])

(* Nothing is under way, or a timeout that a call has left behind.          *)
Resting(c) == /\ client[c].interest = {} /\ ~Queued(c)
              /\ timer[c] # "none" => status[c] = "failed"

(* The loop: it runs once in the life of the thread, for one call, and with *)
(* nothing else under way than that call and the timeouts of those that     *)
(* have failed at once.                                                     *)
LoopInv ==
  /\ m_stop_flag => m_is_looping
  /\ pc # "user" => m_is_looping
  /\ pc = "user" /\ m_is_looping => m_stop_flag
  /\ \A g, h \in batch : g.call = h.call => g = h
  /\ \A c \in Calls : status[c] = "looping" => pc # "user"
  /\ \A c \in Calls : status[c] = "looped" => m_stop_flag
  /\ \A c, d \in Calls : status[c] = "looping" /\ status[d] = "looping" => c = d
  /\ \A c \in Calls :
       (pc # "user" /\ status[c] # "looping") \/ ~m_is_looping => Resting(c)

(* Whoever stops the loop has ended its call.                               *)
Ended(c) == rpc[c].done >= 1 /\ client[c].fd # "own"
Stopped == m_stop_flag /\ (\A o \in Calls : status[o] # "failed") =>
             \A c \in Calls : status[c] \in {"looping", "looped"} => Ended(c)

(* A call that has not begun.                                               *)
New(c) == status[c] = "new" => Idle(c) /\ client[c] = NewClient /\ rpc[c].answer = "none"

(* The timeout and the end of the connect are the two who may still run its *)
(* closure, besides the answer.                                             *)
Pending(c) == IF timer[c] = "pending" THEN 1 ELSE 0
Awaiting(c) == Pending(c) + IF Dialing(c) THEN 1 ELSE 0
Counts(c) ==
  /\ rpc[c].done + Awaiting(c) <= 2
  /\ client[c].state # "NotConnected" => rpc[c].done + Pending(c) <= 1
  /\ (Dialing(c) \/ client[c].state = "Connected") /\ client[c].fd = "own" /\ rpc[c].answer = "none"
       => rpc[c].done = 0
  /\ rpc[c].answer = "taken" => timer[c] # "pending"

CallOK(c) ==
  /\ New(c)
  /\ client[c].state = "NotConnected" <=> client[c].onOut = "connect"
  /\ client[c].state = "NotConnected" => rpc[c].answer = "none"
  /\ ~Idle(c) => Asked(c)
  /\ "IN" \in client[c].interest /\ rpc[c].answer = "none" => Awaited(c) \in client[c].readCb
  /\ client[c].fd # "own" => client[c].state = "Closed" \/ m_stop_flag
  /\ Counts(c)

CallInv == TypeOK /\ Shape /\ LoopInv /\ Stopped /\ \A c \in Calls : CallOK(c)

-----------------------------------------------------------------------------
(* Types.                                                                   *)

ClientType == [state : {"NotConnected", "Connected", "Closed"},
               fd : {"own", "free", "other"}, interest : SUBSET {"IN", "OUT"},
               onOut : {"connect", "write"}, readCb : SUBSET MessageIds]
ControllerType == [m_is_canceled : BOOLEAN, m_is_failed : BOOLEAN,
                   m_error_code : ErrorCodes, m_msg_id : MessageIds]
CallType(q) == /\ Full(q)
               /\ q.controller \in Controllers \cup {NoOne}
               /\ q.request.m_msg_id \in MessageIds
               /\ q.answer \in {"none", "taken", "ignored"}
               /\ q.done \in 0..2

(* All that is said of a call but the bound on its closure's runs.          *)
RpcType(f) == /\ f = [c \in Calls |-> f[c]]
              /\ \A c \in Calls : CallType(f[c])

LEMMA TypeParts ==
  TypeOK /\ Shape <=>
    /\ pc \in {"user", "check", "run", "wait"}
    /\ m_is_looping \in BOOLEAN /\ m_stop_flag \in BOOLEAN /\ batch \subseteq Ready
    /\ status \in [Calls -> {"new", "looping", "looped", "failed", "returned"}]
    /\ client \in [Calls -> ClientType]
    /\ timer \in [Calls -> {"none", "pending", "canceled"}]
    /\ controller \in [Controllers -> ControllerType]
    /\ RpcType(rpc)
    /\ t_msg_id_no \in Ids \cup {<<>>}
    /\ touched \subseteq Calls
  BY DEF TypeOK, Shape, RpcType, CallType, ClientType, ControllerType

LEMMA InitType == Init => TypeOK /\ Shape
<1> SUFFICES ASSUME Init PROVE TypeOK /\ Shape
  OBVIOUS
<1>1. NewClient \in ClientType /\ NewController \in ControllerType /\ CallType(NewCall)
  BY DEF NewClient, NewController, NewCall, NewProtocol, ClientType, ControllerType, CallType,
         Full, ErrorCodes, MessageIds
<1> HIDE DEF NewClient, NewController, NewCall
<1>2. RpcType(rpc)
  <2>1. rpc = [c \in Calls |-> NewCall]
    BY DEF Init
  <2>2. \A c \in Calls : rpc[c] = NewCall
    BY <2>1
  <2>3. rpc = [c \in Calls |-> rpc[c]]
    BY <2>1
  <2> QED
    BY <1>1, <2>2, <2>3 DEF RpcType
<1> QED
  BY <1>1, <1>2, TypeParts DEF Init

(* What a change of one call comes to.                                      *)
LEMMA RpcChanges ==
  ASSUME RpcType(rpc), NEW c \in Calls, NEW q, rpc' = [rpc EXCEPT ![c] = q]
  PROVE  /\ rpc'[c] = q /\ rpc' = [d \in Calls |-> rpc'[d]]
         /\ \A d \in Calls : d # c => rpc'[d] = rpc[d]
         /\ CallType(q) => RpcType(rpc)'
<1>1. /\ rpc'[c] = q /\ \A d \in Calls : d # c => rpc'[d] = rpc[d]
  BY DEF RpcType
<1>2. rpc' = [d \in Calls |-> rpc'[d]]
  <2>1. rpc = [d \in Calls |-> rpc[d]]
    BY DEF RpcType
  <2>2. DOMAIN rpc = Calls
    BY <2>1
  <2>3. rpc' = [d \in Calls |-> IF d = c THEN q ELSE rpc[d]]
    BY <2>2
  <2> QED
    BY <2>3
<1>3. CallType(q) => RpcType(rpc)'
  BY <1>1, <1>2 DEF RpcType
<1> QED
  BY <1>1, <1>2, <1>3

LEMMA ClientChanges ==
  ASSUME client \in [Calls -> ClientType], NEW c \in Calls, NEW q \in ClientType,
         client' = [client EXCEPT ![c] = q]
  PROVE  /\ client'[c] = q /\ client' \in [Calls -> ClientType]
         /\ \A d \in Calls : d # c => client'[d] = client[d]
<1> HIDE DEF ClientType
<1> QED
  OBVIOUS

LEMMA ControllerTypes ==
  ASSUME NEW q \in ControllerType, NEW err \in ErrorCodes
  PROVE  SetError(q, err) \in ControllerType
  BY DEF SetError, ControllerType

-----------------------------------------------------------------------------
(* What each piece of an action comes to.                                   *)

(* The call c has got the controller k, a message and its answers.          *)
Begun(c, k, done) ==
  /\ status[c] = "new" /\ pc = "user"
  /\ rpc'[c].controller = k /\ rpc'[c].done = done
  /\ rpc'[c].answer = rpc[c].answer /\ rpc'[c].response = rpc[c].response
  /\ Asked(c)'
  /\ \A d \in Calls : d # c => rpc'[d] = rpc[d]
  /\ RpcType(rpc)'
  /\ t_msg_id_no' \in Ids \cup {<<>>}
  /\ controller' \in [Controllers -> ControllerType]

LEMMA BeginGoes ==
  ASSUME TypeOK, Shape, NEW c \in Calls, NEW k \in Controllers, NEW err \in ErrorCodes,
         Begin(c, k, err)
  PROVE  Begun(c, k, IF err = "OK" THEN 0 ELSE 1)
<1> DEFINE done == IF err = "OK" THEN 0 ELSE 1
<1>1. PICK gen \in MsgIds(k), r \in RequestsOf[c] :
        LET named == [controller[k] EXCEPT !.m_msg_id = gen.id]
            msg   == CallMessage(gen.id, r)
        IN
        /\ t_msg_id_no' = gen.no
        /\ controller' = [controller EXCEPT ![k] = IF err = "OK" THEN named ELSE SetError(named, err)]
        /\ rpc' = [rpc EXCEPT ![c] =
             [@ EXCEPT !.controller = k, !.done = IF err = "OK" THEN 0 ELSE 1,
                       !.request = msg, !.replies = Replies(msg)]]
  BY DEF Begin
<1> DEFINE named == [controller[k] EXCEPT !.m_msg_id = gen.id]
           msg   == CallMessage(gen.id, r)
           q     == [request |-> msg, controller |-> k, replies |-> Replies(msg),
                     response |-> rpc[c].response, answer |-> rpc[c].answer, done |-> done]
<1>2. gen.no \in Ids \cup {<<>>} /\ gen.id \in MessageIds /\ IsMessage(msg) /\ msg.m_msg_id = gen.id
  BY MsgIdsType, MessageIs
<1> HIDE DEF msg, done
<1>3. RpcType(rpc) /\ CallType(rpc[c]) /\ controller \in [Controllers -> ControllerType]
  BY TypeParts DEF RpcType
<1>4. rpc' = [rpc EXCEPT ![c] = q]
  <2>1. PICK q1 : q1 = [rpc[c] EXCEPT !.controller = k]
    OBVIOUS
  <2>2. PICK q2 : q2 = [q1 EXCEPT !.done = done]
    OBVIOUS
  <2>3. PICK q3 : q3 = [q2 EXCEPT !.request = msg]
    OBVIOUS
  <2>4. rpc' = [rpc EXCEPT ![c] = [q3 EXCEPT !.replies = Replies(msg)]]
    BY <1>1, <2>1, <2>2, <2>3 DEF msg, done
  <2>5. q1 = [request |-> rpc[c].request, controller |-> k, replies |-> rpc[c].replies,
              response |-> rpc[c].response, answer |-> rpc[c].answer, done |-> rpc[c].done]
    BY <1>3, <2>1 DEF CallType, Full
  <2>6. q2 = [request |-> rpc[c].request, controller |-> k, replies |-> rpc[c].replies,
              response |-> rpc[c].response, answer |-> rpc[c].answer, done |-> done]
    BY <2>2, <2>5
  <2>7. q3 = [request |-> msg, controller |-> k, replies |-> rpc[c].replies,
              response |-> rpc[c].response, answer |-> rpc[c].answer, done |-> done]
    BY <2>3, <2>6
  <2>8. [q3 EXCEPT !.replies = Replies(msg)] = q
    BY <2>7
  <2> QED
    BY <2>4, <2>8
<1>5. CallType(q)
  <2>1. done \in 0..2
    BY DEF done
  <2> QED
    BY <1>2, <1>3, <2>1 DEF CallType, Full
<1>6. rpc'[c] = q /\ RpcType(rpc)' /\ \A d \in Calls : d # c => rpc'[d] = rpc[d]
  BY <1>3, <1>4, <1>5, RpcChanges
<1>7. Asked(c)'
  BY <1>2, <1>6 DEF Asked
<1>8. controller' \in [Controllers -> ControllerType]
  <2>1. named \in ControllerType
    BY <1>2, <1>3 DEF ControllerType
  <2>2. (IF err = "OK" THEN named ELSE SetError(named, err)) \in ControllerType
    BY <2>1, ControllerTypes
  <2> HIDE DEF named, ControllerType
  <2>3. controller' = [controller EXCEPT ![k] = IF err = "OK" THEN named ELSE SetError(named, err)]
    BY <1>1 DEF named
  <2> QED
    BY <1>3, <2>2, <2>3
<1>9. t_msg_id_no' \in Ids \cup {<<>>}
  BY <1>1, <1>2
<1>10. status[c] = "new" /\ pc = "user"
  BY DEF Begin
<1> QED
  BY <1>6, <1>7, <1>8, <1>9, <1>10 DEF Begun, done

(* A client's changes, as records.                                          *)
ClosedFd(cl) == [state |-> cl.state, fd |-> "free", interest |-> {}, onOut |-> cl.onOut,
                 readCb |-> cl.readCb]

LEMMA ClientRecords ==
  ASSUME NEW cl \in ClientType
  PROVE  /\ cl = [state |-> cl.state, fd |-> cl.fd, interest |-> cl.interest, onOut |-> cl.onOut,
                  readCb |-> cl.readCb]
         /\ CloseFd(cl) = ClosedFd(cl) /\ ClosedFd(cl) \in ClientType
         /\ Close(cl) = IF m_is_looping THEN ClosedFd(cl) ELSE cl
         /\ Connected(cl) = [state |-> "Connected", fd |-> cl.fd, interest |-> {"OUT"},
                             onOut |-> "write", readCb |-> cl.readCb]
         /\ Connected(cl) \in ClientType
<1>1. cl = [state |-> cl.state, fd |-> cl.fd, interest |-> cl.interest, onOut |-> cl.onOut,
            readCb |-> cl.readCb]
  BY DEF ClientType
<1>2. CloseFd(cl) = ClosedFd(cl)
  <2>1. PICK c1 : c1 = [cl EXCEPT !.fd = "free"]
    OBVIOUS
  <2>2. c1 = [state |-> cl.state, fd |-> "free", interest |-> cl.interest, onOut |-> cl.onOut,
              readCb |-> cl.readCb]
    BY <1>1, <2>1
  <2>3. CloseFd(cl) = [c1 EXCEPT !.interest = {}]
    BY <2>1 DEF CloseFd
  <2> QED
    BY <2>2, <2>3 DEF ClosedFd
<1>3. Connected(cl) = [state |-> "Connected", fd |-> cl.fd, interest |-> {"OUT"},
                       onOut |-> "write", readCb |-> cl.readCb]
  <2>1. PICK c1 : c1 = [cl EXCEPT !.state = "Connected"]
    OBVIOUS
  <2>2. PICK c2 : c2 = [c1 EXCEPT !.interest = {"OUT"}]
    OBVIOUS
  <2>3. Connected(cl) = [c2 EXCEPT !.onOut = "write"]
    BY <2>1, <2>2 DEF Connected
  <2>4. c1 = [state |-> "Connected", fd |-> cl.fd, interest |-> cl.interest, onOut |-> cl.onOut,
              readCb |-> cl.readCb]
    BY <1>1, <2>1
  <2>5. c2 = [state |-> "Connected", fd |-> cl.fd, interest |-> {"OUT"}, onOut |-> cl.onOut,
              readCb |-> cl.readCb]
    BY <2>2, <2>4
  <2> QED
    BY <2>3, <2>5
<1>4. ClosedFd(cl) \in ClientType /\ Connected(cl) \in ClientType
  BY <1>3 DEF ClosedFd, ClientType
<1> QED
  BY <1>1, <1>2, <1>3, <1>4 DEF Close

(* The outcome of an answer for the controller and for the call.            *)
LEMMA RepliesFit ==
  ASSUME NEW c \in Calls, Asked(c), NEW r \in rpc[c].replies
  PROVE  /\ r.m_err_code \in ErrorCodes /\ r.m_msg_id = Awaited(c)
         /\ r = Dispatch(Sent(rpc[c].request)) /\ IsMessage(Sent(rpc[c].request))
<1>1. r = Dispatch(Sent(rpc[c].request))
  BY RepliesAre DEF Asked
<1>2. IsMessage(Sent(rpc[c].request)) /\ Sent(rpc[c].request).m_msg_id = Awaited(c)
  BY RepliesAre DEF Asked, Awaited
<1> QED
  BY <1>1, <1>2, DispatchIs DEF DispatchErrors, ErrorCodes

LEMMA DeliverGoes ==
  ASSUME TypeOK, Shape, NEW c \in Calls, Asked(c), NEW r \in rpc[c].replies, Deliver(c, r),
         rpc[c].done + 1 \in 0..2
  PROVE  /\ rpc'[c].controller = rpc[c].controller /\ rpc'[c].done = rpc[c].done + 1
         /\ rpc'[c].answer = "taken" /\ rpc'[c].request = rpc[c].request
         /\ rpc'[c].replies = rpc[c].replies
         /\ r.m_err_code = "OK" => rpc'[c].response = r.m_pb_data
         /\ \A d \in Calls : d # c => rpc'[d] = rpc[d]
         /\ RpcType(rpc)'
         /\ controller' = [controller EXCEPT ![rpc[c].controller] = Outcome(@, r)]
         /\ controller' \in [Controllers -> ControllerType]
<1> DEFINE data == IF r.m_err_code = "OK" THEN r.m_pb_data ELSE rpc[c].response
           q == [request |-> rpc[c].request, controller |-> rpc[c].controller,
                 replies |-> rpc[c].replies, response |-> data, answer |-> "taken",
                 done |-> rpc[c].done + 1]
<1>1. RpcType(rpc) /\ CallType(rpc[c]) /\ controller \in [Controllers -> ControllerType]
  BY TypeParts DEF RpcType
<1> HIDE DEF data
<1> DEFINE q1 == [request |-> rpc[c].request, controller |-> rpc[c].controller,
                  replies |-> rpc[c].replies, response |-> rpc[c].response,
                  answer |-> "taken", done |-> rpc[c].done]
           q2 == [request |-> rpc[c].request, controller |-> rpc[c].controller,
                  replies |-> rpc[c].replies, response |-> rpc[c].response,
                  answer |-> "taken", done |-> rpc[c].done + 1]
<1>2. rpc' = [rpc EXCEPT ![c] = q]
  <2>1. PICK r1 : r1 = [rpc EXCEPT ![c].answer = "taken"]
    OBVIOUS
  <2>2. PICK r2 : r2 = [r1 EXCEPT ![c].done = @ + 1]
    OBVIOUS
  <2>3. rpc' = [r2 EXCEPT ![c].response = IF r.m_err_code = "OK" THEN r.m_pb_data ELSE @]
    BY <2>1, <2>2 DEF Deliver
  <2>4. rpc = [d \in Calls |-> rpc[d]] /\ rpc[c] = [request |-> rpc[c].request,
          controller |-> rpc[c].controller, replies |-> rpc[c].replies,
          response |-> rpc[c].response, answer |-> rpc[c].answer, done |-> rpc[c].done]
    BY <1>1 DEF RpcType, CallType, Full
  <2>5. r1 = [d \in Calls |-> IF d = c THEN q1 ELSE rpc[d]]
    <3>1. [rpc[c] EXCEPT !.answer = "taken"] = q1
      BY <2>4
    <3> HIDE DEF q1
    <3> QED
      BY <2>1, <2>4, <3>1
  <2>6. r1[c] = q1 /\ DOMAIN r1 = Calls /\ \A d \in Calls : d # c => r1[d] = rpc[d]
    <3> HIDE DEF q1
    <3> QED
      BY <2>5
  <2>7. r2 = [d \in Calls |-> IF d = c THEN q2 ELSE rpc[d]]
    <3>1. [r1[c] EXCEPT !.done = r1[c].done + 1] = q2
      BY <2>6
    <3> HIDE DEF q1, q2
    <3> QED
      BY <2>2, <2>6, <3>1
  <2>8. r2[c] = q2 /\ DOMAIN r2 = Calls /\ \A d \in Calls : d # c => r2[d] = rpc[d]
    <3> HIDE DEF q2
    <3> QED
      BY <2>7
  <2>9. rpc' = [d \in Calls |-> IF d = c THEN q ELSE rpc[d]]
    <3>1. [r2[c] EXCEPT !.response = IF r.m_err_code = "OK" THEN r.m_pb_data ELSE r2[c].response] = q
      BY <2>8 DEF data
    <3> HIDE DEF q, q2
    <3> QED
      BY <2>3, <2>8, <3>1
  <2> HIDE DEF q
  <2> QED
    BY <2>4, <2>9
<1>3. CallType(q)
  BY <1>1 DEF CallType, Full
<1>4. rpc'[c] = q /\ RpcType(rpc)' /\ \A d \in Calls : d # c => rpc'[d] = rpc[d]
  BY <1>1, <1>2, <1>3, RpcChanges
<1>5. controller' = [controller EXCEPT ![rpc[c].controller] = Outcome(@, r)]
  BY DEF Deliver
<1>6. controller' \in [Controllers -> ControllerType]
  <2>1. rpc[c].controller \in Controllers
    BY DEF Asked
  <2>2. r.m_err_code \in ErrorCodes /\ "SYS_FAILED_DESERIALIZE" \in ErrorCodes
    BY RepliesFit DEF ErrorCodes
  <2>3. Outcome(controller[rpc[c].controller], r) \in ControllerType
    BY <1>1, <2>1, <2>2, ControllerTypes DEF Outcome
  <2> HIDE DEF ControllerType
  <2> QED
    BY <1>1, <1>5, <2>1, <2>3
<1> QED
  BY <1>4, <1>5, <1>6 DEF data

LEMMA FinishGoes ==
  ASSUME TypeOK, Shape, NEW c \in Calls, Asked(c), NEW err \in ErrorCodes, Finish(c, err),
         rpc[c].done + 1 \in 0..2
  PROVE  /\ rpc'[c].controller = rpc[c].controller /\ rpc'[c].done = rpc[c].done + 1
         /\ rpc'[c].answer = rpc[c].answer /\ rpc'[c].request = rpc[c].request
         /\ rpc'[c].replies = rpc[c].replies
         /\ \A d \in Calls : d # c => rpc'[d] = rpc[d]
         /\ RpcType(rpc)'
         /\ controller' = [controller EXCEPT ![rpc[c].controller] = SetError(@, err)]
         /\ controller' \in [Controllers -> ControllerType]
<1> DEFINE q == [request |-> rpc[c].request, controller |-> rpc[c].controller,
                 replies |-> rpc[c].replies, response |-> rpc[c].response,
                 answer |-> rpc[c].answer, done |-> rpc[c].done + 1]
<1>1. RpcType(rpc) /\ CallType(rpc[c]) /\ controller \in [Controllers -> ControllerType]
  BY TypeParts DEF RpcType
<1>2. rpc' = [rpc EXCEPT ![c] = q]
  <2>1. [rpc[c] EXCEPT !.done = rpc[c].done + 1] = q
    BY <1>1 DEF CallType, Full
  <2>2. rpc' = [rpc EXCEPT ![c] = [rpc[c] EXCEPT !.done = rpc[c].done + 1]]
    BY <1>1 DEF Finish, RpcType, CallType, Full
  <2> QED
    BY <2>1, <2>2
<1>3. CallType(q)
  BY <1>1 DEF CallType, Full
<1>4. rpc'[c] = q /\ RpcType(rpc)' /\ \A d \in Calls : d # c => rpc'[d] = rpc[d]
  BY <1>1, <1>2, <1>3, RpcChanges
<1>5. controller' = [controller EXCEPT ![rpc[c].controller] = SetError(@, err)]
  BY DEF Finish
<1>6. controller' \in [Controllers -> ControllerType]
  <2>1. rpc[c].controller \in Controllers
    BY DEF Asked
  <2>2. SetError(controller[rpc[c].controller], err) \in ControllerType
    BY <1>1, <2>1, ControllerTypes
  <2> HIDE DEF ControllerType
  <2> QED
    BY <1>1, <1>5, <2>1, <2>2
<1> QED
  BY <1>4, <1>5, <1>6

-----------------------------------------------------------------------------
(* What a step leaves alone.                                                *)

LEMMA TypeNext ==
  ASSUME pc' \in {"user", "check", "run", "wait"}, m_is_looping' \in BOOLEAN,
         m_stop_flag' \in BOOLEAN, batch' \subseteq Ready,
         status' \in [Calls -> {"new", "looping", "looped", "failed", "returned"}],
         client' \in [Calls -> ClientType],
         timer' \in [Calls -> {"none", "pending", "canceled"}],
         controller' \in [Controllers -> ControllerType],
         RpcType(rpc)', t_msg_id_no' \in Ids \cup {<<>>}, touched' \subseteq Calls
  PROVE  TypeOK' /\ Shape'
  BY DEF TypeOK, Shape, RpcType, CallType, ClientType, ControllerType

LEMMA OthersStay ==
  ASSUME NEW d \in Calls, CallOK(d), rpc[d].done \in 0..2,
         client'[d] = client[d], rpc'[d] = rpc[d], timer'[d] = timer[d],
         status'[d] = "new" => status[d] = "new", m_stop_flag => m_stop_flag',
         \A kind \in {"IN", "OUT"} :
           Task(kind, d) \in batch' => Task(kind, d) \in batch \/ kind \in client[d].interest
  PROVE  CallOK(d)'
<1>1. Idle(d) => Idle(d)'
  BY DEF Idle, Queued
<1>2. ~Idle(d)' => Asked(d)'
  BY <1>1 DEF CallOK, Asked
<1>3. New(d)'
  BY <1>1 DEF CallOK, New
<1>4. Pending(d)' = Pending(d) /\ (Dialing(d)' => Dialing(d))
  BY DEF Pending, Dialing
<1>5. Counts(d)'
  <2>1. rpc[d].done + Awaiting(d) <= 2 => rpc[d].done + Awaiting(d)' <= 2
    BY <1>4 DEF Awaiting, Pending
  <2> QED
    BY <1>4, <2>1 DEF CallOK, Counts
<1> QED
  BY <1>2, <1>3, <1>5 DEF CallOK, Awaited

(* A call whose descriptor has a callback in the batch is the loop's own.   *)
LEMMA TakeGoes ==
  ASSUME CallInv, NEW c \in Calls, NEW kind \in {"IN", "OUT"}, Take(Task(kind, c))
  PROVE  /\ pc = "run" /\ m_is_looping /\ Task(kind, c) \in batch /\ status[c] = "looping"
         /\ Asked(c)
         /\ batch' \subseteq batch /\ ~Queued(c)'
         /\ UNCHANGED <<pc, m_is_looping, status, t_msg_id_no>>
<1>1. /\ pc = "run" /\ Task(kind, c) \in batch /\ batch' = batch \ {Task(kind, c)}
      /\ UNCHANGED <<pc, m_is_looping, status, t_msg_id_no>>
  BY DEF Take
<1>2. LoopInv /\ CallOK(c)
  BY DEF CallInv
<1>3. Queued(c)
  BY <1>1 DEF Queued
<1>4. ~Queued(c)'
  <2>1. \A h \in batch : h.call = c => h = Task(kind, c)
    BY <1>1, <1>2 DEF LoopInv, Task
  <2>2. Task("IN", c).call = c /\ Task("OUT", c).call = c
    BY DEF Task
  <2> QED
    BY <1>1, <2>1, <2>2 DEF Queued
<1>5. m_is_looping /\ status[c] = "looping"
  BY <1>1, <1>2, <1>3 DEF LoopInv, Resting
<1>6. Asked(c)
  BY <1>2, <1>3 DEF CallOK, Idle
<1> QED
  BY <1>1, <1>4, <1>5, <1>6

LEMMA RunLoop ==
  ASSUME LoopInv, pc = "run", UNCHANGED <<pc, m_is_looping, status>>, batch' \subseteq batch,
         m_stop_flag => m_stop_flag',
         \A d \in Calls : status[d] # "looping" =>
           /\ client'[d].interest = {} \/ client'[d].interest = client[d].interest
           /\ timer'[d] # "none" => timer[d] # "none"
  PROVE  LoopInv'
<1>1. ASSUME NEW d \in Calls, Resting(d), status[d] # "looping" PROVE Resting(d)'
  BY <1>1 DEF Resting, Queued
<1> QED
  BY <1>1 DEF LoopInv

LEMMA RunStopped ==
  ASSUME LoopInv, Stopped, pc = "run", UNCHANGED status,
         \A d \in Calls : Ended(d) => Ended(d)',
         m_stop_flag' /\ ~m_stop_flag /\ (\A o \in Calls : status[o] # "failed") =>
           \E d \in Calls : status[d] = "looping" /\ Ended(d)'
  PROVE  Stopped'
<1> SUFFICES ASSUME m_stop_flag', \A o \in Calls : status[o] # "failed",
                    NEW c \in Calls, status[c] \in {"looping", "looped"}
             PROVE  Ended(c)'
  BY DEF Stopped
<1>1. CASE m_stop_flag
  BY <1>1 DEF Stopped
<1>2. CASE ~m_stop_flag
  BY <1>2 DEF LoopInv
<1> QED
  BY <1>1, <1>2

(* A callback of the call c, but for what it does to that call.             *)
LEMMA CallbackInv ==
  ASSUME CallInv, NEW c \in Calls, NEW kind \in {"IN", "OUT"}, Take(Task(kind, c)),
         client' \in [Calls -> ClientType], timer' \in [Calls -> {"none", "pending", "canceled"}],
         controller' \in [Controllers -> ControllerType], RpcType(rpc)', touched' \subseteq Calls,
         m_stop_flag' \in BOOLEAN, m_stop_flag => m_stop_flag',
         \A d \in Calls : d # c => client'[d] = client[d] /\ rpc'[d] = rpc[d] /\ timer'[d] = timer[d],
         Ended(c) => Ended(c)', m_stop_flag' /\ ~m_stop_flag => Ended(c)',
         CallOK(c)'
  PROVE  CallInv'
<1>1. /\ pc = "run" /\ m_is_looping /\ status[c] = "looping" /\ batch' \subseteq batch
      /\ UNCHANGED <<pc, m_is_looping, status, t_msg_id_no>>
  BY TakeGoes
<1>2. TypeOK' /\ Shape'
  <2>1. /\ pc \in {"user", "check", "run", "wait"} /\ m_is_looping \in BOOLEAN /\ batch \subseteq Ready
        /\ status \in [Calls -> {"new", "looping", "looped", "failed", "returned"}]
        /\ t_msg_id_no \in Ids \cup {<<>>}
    BY TypeParts DEF CallInv
  <2> QED
    BY <1>1, <2>1, TypeNext
<1>3. LoopInv'
  <2>1. \A d \in Calls : status[d] # "looping" =>
           /\ client'[d].interest = {} \/ client'[d].interest = client[d].interest
           /\ timer'[d] # "none" => timer[d] # "none"
    BY <1>1
  <2> QED
    BY <1>1, <2>1, RunLoop DEF CallInv
<1>4. Stopped'
  <2>1. \A d \in Calls : Ended(d) => Ended(d)'
    BY DEF Ended
  <2> QED
    BY <1>1, <2>1, RunStopped DEF CallInv
<1>5. ASSUME NEW d \in Calls, d # c PROVE CallOK(d)'
  <2>1. CallOK(d) /\ rpc[d].done \in 0..2
    BY DEF CallInv, TypeOK
  <2> QED
    BY <1>1, <1>5, <2>1, OthersStay
<1> QED
  BY <1>2, <1>3, <1>4, <1>5 DEF CallInv

-----------------------------------------------------------------------------
(* The callbacks of a call keep the invariant.                              *)

LEMMA TouchType ==
  ASSUME NEW C \in SUBSET Calls, Touch(C), touched \subseteq Calls
  PROVE  touched' \subseteq Calls
  BY DEF Touch

(* What the callback of a descriptor finds.                                 *)
LEMMA CallbackFinds ==
  ASSUME CallInv, NEW c \in Calls, NEW kind \in {"IN", "OUT"}, Take(Task(kind, c))
  PROVE  /\ client \in [Calls -> ClientType] /\ client[c] \in ClientType
         /\ timer \in [Calls -> {"none", "pending", "canceled"}]
         /\ controller \in [Controllers -> ControllerType]
         /\ RpcType(rpc) /\ CallType(rpc[c]) /\ rpc[c].done \in 0..2
         /\ touched \subseteq Calls /\ m_stop_flag \in BOOLEAN
         /\ m_is_looping /\ status[c] = "looping" /\ CallOK(c) /\ Asked(c)
         /\ status'[c] = "looping" /\ ~Queued(c)'
<1>1. /\ client \in [Calls -> ClientType] /\ timer \in [Calls -> {"none", "pending", "canceled"}]
      /\ controller \in [Controllers -> ControllerType] /\ RpcType(rpc)
      /\ touched \subseteq Calls /\ m_stop_flag \in BOOLEAN
  BY TypeParts DEF CallInv
<1>2. client[c] \in ClientType
  <2> HIDE DEF ClientType
  <2> QED
    BY <1>1
<1>3. CallType(rpc[c]) /\ rpc[c].done \in 0..2
  BY <1>1 DEF RpcType, CallType
<1>4. CallOK(c)
  BY DEF CallInv
<1> QED
  BY <1>1, <1>2, <1>3, <1>4, TakeGoes

(* A callback that leaves its call as it was.                               *)
LEMMA NothingCallback ==
  ASSUME CallInv, NEW c \in Calls, NEW kind \in {"IN", "OUT"}, Take(Task(kind, c)), Touch({c}),
         UNCHANGED <<m_stop_flag, client, timer, controller, rpc>>
  PROVE  CallInv'
<1>1. /\ client \in [Calls -> ClientType] /\ timer \in [Calls -> {"none", "pending", "canceled"}]
      /\ controller \in [Controllers -> ControllerType] /\ RpcType(rpc) /\ rpc[c].done \in 0..2
      /\ touched \subseteq Calls /\ m_stop_flag \in BOOLEAN /\ CallOK(c) /\ status[c] = "looping"
      /\ status'[c] = "looping"
  BY CallbackFinds
<1>2. touched' \subseteq Calls
  BY <1>1, TouchType
<1>3. CallOK(c)'
  <2>1. batch' \subseteq batch
    BY DEF Take
  <2> QED
    BY <1>1, <2>1, OthersStay
<1>4. RpcType(rpc)'
  BY <1>1 DEF RpcType, CallType, Full
<1>5. Ended(c) => Ended(c)'
  BY DEF Ended
<1> QED
  BY <1>1, <1>2, <1>3, <1>4, <1>5, CallbackInv

LEMMA ConnectedInv ==
  ASSUME CallInv, NEW c \in Calls, OnConnected(c)
  PROVE  CallInv'
<1>1. Take(Task("OUT", c))
  BY DEF OnConnected, Task
<1>2. /\ client \in [Calls -> ClientType] /\ client[c] \in ClientType
      /\ timer \in [Calls -> {"none", "pending", "canceled"}]
      /\ controller \in [Controllers -> ControllerType] /\ RpcType(rpc) /\ rpc[c].done \in 0..2
      /\ touched \subseteq Calls /\ m_stop_flag \in BOOLEAN /\ CallOK(c) /\ Asked(c)
      /\ status'[c] = "looping" /\ ~Queued(c)' /\ Task("OUT", c) \in batch
  BY <1>1, CallbackFinds, TakeGoes
<1>3. /\ client[c].onOut = "connect" /\ client' = [client EXCEPT ![c] = Connected(client[c])]
      /\ Touch({c}) /\ UNCHANGED <<m_stop_flag, timer, controller, rpc>>
  BY DEF OnConnected
<1>4. Connected(client[c]) \in ClientType /\ Connected(client[c]).state = "Connected"
      /\ Connected(client[c]).fd = client[c].fd /\ Connected(client[c]).interest = {"OUT"}
      /\ Connected(client[c]).onOut = "write"
  BY <1>2, ClientRecords
<1>5. client'[c] = Connected(client[c]) /\ client' \in [Calls -> ClientType]
      /\ \A d \in Calls : d # c => client'[d] = client[d]
  BY <1>2, <1>3, <1>4, ClientChanges
<1>6. touched' \subseteq Calls
  BY <1>2, <1>3, TouchType
<1>7. RpcType(rpc)'
  BY <1>2, <1>3 DEF RpcType, CallType, Full
<1>8. CallOK(c)'
  <2>1. Dialing(c) /\ ~Dialing(c)' /\ Pending(c)' = Pending(c)
    BY <1>2, <1>3, <1>4, <1>5 DEF Dialing, Pending
  <2>2. Counts(c)'
    <3>1. client[c].state = "NotConnected" /\ rpc[c].answer = "none"
      BY <1>2, <1>3 DEF CallOK
    <3>2. rpc[c].done + Pending(c) + 1 <= 2 /\ Pending(c) \in 0..1
      BY <1>2, <2>1 DEF CallOK, Counts, Awaiting, Pending
    <3>3. rpc[c].done + Awaiting(c)' <= 2 /\ rpc[c].done + Pending(c)' <= 1
      BY <1>2, <2>1, <3>2 DEF Awaiting
    <3>4. client[c].fd = "own" => rpc[c].done = 0
      BY <1>2, <2>1, <3>1 DEF CallOK, Counts
    <3> QED
      BY <1>3, <1>4, <1>5, <3>1, <3>3, <3>4 DEF Counts
  <2>3. Asked(c)'
    BY <1>2, <1>3 DEF Asked
  <2> QED
    BY <1>2, <1>3, <1>4, <1>5, <2>2, <2>3 DEF CallOK, New
<1>9. Ended(c) => Ended(c)'
  BY <1>3, <1>4, <1>5 DEF Ended
<1> QED
  BY <1>1, <1>2, <1>3, <1>5, <1>6, <1>7, <1>8, <1>9, CallbackInv

LEMMA ConnectFailedInv ==
  ASSUME CallInv, NEW c \in Calls, OnConnectFailed(c)
  PROVE  CallInv'
<1>1. Take(Task("OUT", c))
  BY DEF OnConnectFailed, Task
<1>2. /\ client \in [Calls -> ClientType] /\ client[c] \in ClientType
      /\ timer \in [Calls -> {"none", "pending", "canceled"}] /\ rpc[c].done \in 0..2
      /\ touched \subseteq Calls /\ m_stop_flag \in BOOLEAN /\ CallOK(c) /\ Asked(c)
      /\ m_is_looping /\ status'[c] = "looping" /\ ~Queued(c)' /\ Task("OUT", c) \in batch
  BY <1>1, CallbackFinds, TakeGoes
<1>3. PICK err \in {"SYS_PEER_CLOSED", "SYS_FAILED_CONNECT"} : Finish(c, err)
  BY DEF OnConnectFailed
<1>4. /\ client[c].onOut = "connect"
      /\ client' = [client EXCEPT ![c] = Close([client[c] EXCEPT !.interest = {}])]
      /\ m_stop_flag' /\ Touch({c}) /\ UNCHANGED timer
  BY <1>2 DEF OnConnectFailed, StopLoop
<1>5. Dialing(c) /\ client[c].state = "NotConnected" /\ rpc[c].answer = "none"
  BY <1>2, <1>4 DEF Dialing, CallOK
<1>6. rpc[c].done + 1 + Pending(c) <= 2 /\ Pending(c) \in 0..1
  BY <1>2, <1>5 DEF CallOK, Counts, Awaiting, Pending
<1>7. rpc[c].done + 1 \in 0..2 /\ TypeOK /\ Shape /\ err \in ErrorCodes
  BY <1>2, <1>6 DEF CallInv, ErrorCodes
<1>8. /\ rpc'[c].controller = rpc[c].controller /\ rpc'[c].done = rpc[c].done + 1
      /\ rpc'[c].answer = rpc[c].answer /\ rpc'[c].request = rpc[c].request
      /\ rpc'[c].replies = rpc[c].replies
      /\ \A d \in Calls : d # c => rpc'[d] = rpc[d]
      /\ RpcType(rpc)' /\ controller' \in [Controllers -> ControllerType]
  BY <1>2, <1>3, <1>7, FinishGoes
<1>9. /\ client'[c].state = "NotConnected" /\ client'[c].fd = "free" /\ client'[c].interest = {}
      /\ client'[c].onOut = "connect" /\ client' \in [Calls -> ClientType]
      /\ \A d \in Calls : d # c => client'[d] = client[d]
  <2> DEFINE cl == [client[c] EXCEPT !.interest = {}]
  <2>1. cl \in ClientType /\ cl.state = client[c].state /\ cl.onOut = client[c].onOut
    BY <1>2 DEF ClientType
  <2> HIDE DEF cl
  <2>2. Close(cl) = ClosedFd(cl) /\ ClosedFd(cl) \in ClientType
    BY <1>2, <2>1, ClientRecords
  <2>3. client' = [client EXCEPT ![c] = Close(cl)]
    BY <1>4 DEF cl
  <2>4. client'[c] = ClosedFd(cl) /\ client' \in [Calls -> ClientType]
        /\ \A d \in Calls : d # c => client'[d] = client[d]
    BY <1>2, <2>2, <2>3, ClientChanges
  <2> QED
    BY <1>4, <1>5, <2>1, <2>4 DEF ClosedFd
<1>10. touched' \subseteq Calls
  BY <1>2, <1>4, TouchType
<1>11. CallOK(c)'
  <2>1. ~Dialing(c)' /\ Pending(c)' = Pending(c)
    BY <1>2, <1>4, <1>9 DEF Dialing, Pending, Queued
  <2>2. Counts(c)'
    <3>1. rpc'[c].done + Awaiting(c)' <= 2
      BY <1>2, <1>6, <1>8, <2>1 DEF Awaiting
    <3> QED
      BY <1>5, <1>8, <1>9, <2>1, <3>1 DEF Counts
  <2>3. Asked(c)'
    BY <1>2, <1>8 DEF Asked
  <2> QED
    BY <1>2, <1>4, <1>5, <1>8, <1>9, <2>2, <2>3 DEF CallOK, New
<1>12. Ended(c)'
  BY <1>2, <1>8, <1>9 DEF Ended
<1> QED
  BY <1>1, <1>2, <1>4, <1>8, <1>9, <1>10, <1>11, <1>12, CallbackInv

LEMMA WriteInv ==
  ASSUME CallInv, NEW c \in Calls, OnWrite(c)
  PROVE  CallInv'
<1>1. Take(Task("OUT", c)) /\ Touch({c}) /\ UNCHANGED <<m_stop_flag, timer, controller, rpc>>
  BY DEF OnWrite, Task
<1>2. CASE UNCHANGED client
  BY <1>1, <1>2, NothingCallback
<1>3. ASSUME client[c].onOut = "write", client[c].state = "Connected",
             NEW rest \in {{}, {"OUT"}},
             client' = [client EXCEPT ![c].interest = rest \cup {"IN"},
                                      ![c].readCb = @ \cup {Awaited(c)}]
      PROVE  CallInv'
  <2>1. /\ client \in [Calls -> ClientType] /\ client[c] \in ClientType
        /\ timer \in [Calls -> {"none", "pending", "canceled"}]
        /\ controller \in [Controllers -> ControllerType] /\ RpcType(rpc) /\ CallType(rpc[c])
        /\ touched \subseteq Calls /\ m_stop_flag \in BOOLEAN /\ CallOK(c) /\ Asked(c)
        /\ status'[c] = "looping" /\ ~Queued(c)'
    BY <1>1, CallbackFinds
  <2> DEFINE q == [state |-> client[c].state, fd |-> client[c].fd, interest |-> rest \cup {"IN"},
                   onOut |-> client[c].onOut, readCb |-> client[c].readCb \cup {Awaited(c)}]
  <2>2. q \in ClientType
    <3>1. Awaited(c) \in MessageIds
      BY <2>1 DEF Awaited, EncodedId, CallType, MessageIds
    <3> QED
      BY <2>1, <3>1 DEF ClientType
  <2>3. client' = [client EXCEPT ![c] = q]
    <3>1. PICK c1 : c1 = [client EXCEPT ![c].interest = rest \cup {"IN"}]
      OBVIOUS
    <3>2. client' = [c1 EXCEPT ![c].readCb = @ \cup {Awaited(c)}]
      BY <1>3, <3>1
    <3> DEFINE q1 == [state |-> client[c].state, fd |-> client[c].fd, interest |-> rest \cup {"IN"},
                      onOut |-> client[c].onOut, readCb |-> client[c].readCb]
    <3>3. [client[c] EXCEPT !.interest = rest \cup {"IN"}] = q1
      <4>1. client[c] = [state |-> client[c].state, fd |-> client[c].fd,
                         interest |-> client[c].interest, onOut |-> client[c].onOut,
                         readCb |-> client[c].readCb]
        BY <2>1, ClientRecords
      <4> QED
        BY <4>1
    <3>4. DOMAIN client = Calls
      BY <2>1
    <3>5. c1[c] = q1 /\ DOMAIN c1 = Calls /\ \A d \in Calls : d # c => c1[d] = client[d]
      <4> HIDE DEF q1
      <4> QED
        BY <3>1, <3>3, <3>4
    <3>6. [c1[c] EXCEPT !.readCb = c1[c].readCb \cup {Awaited(c)}] = q
      BY <3>5
    <3> HIDE DEF q, q1
    <3>7. client' = [d \in Calls |-> IF d = c THEN q ELSE c1[d]]
      BY <3>2, <3>5, <3>6
    <3>8. [client EXCEPT ![c] = q] = [d \in Calls |-> IF d = c THEN q ELSE client[d]]
      BY <3>4
    <3> QED
      BY <3>5, <3>7, <3>8
  <2>4. client'[c] = q /\ client' \in [Calls -> ClientType]
        /\ \A d \in Calls : d # c => client'[d] = client[d]
    <3> HIDE DEF q
    <3> QED
      BY <2>1, <2>2, <2>3, ClientChanges
  <2>5. touched' \subseteq Calls
    BY <1>1, <2>1, TouchType
  <2>6. RpcType(rpc)'
    BY <1>1, <2>1 DEF RpcType, CallType, Full
  <2>7. CallOK(c)'
    <3>1. ~Dialing(c) /\ ~Dialing(c)' /\ Pending(c)' = Pending(c)
      BY <1>1, <1>3, <2>4 DEF Dialing, Pending
    <3>2. Counts(c)'
      BY <1>1, <1>3, <2>1, <2>4, <3>1 DEF CallOK, Counts, Awaiting
    <3>3. Asked(c)' /\ Awaited(c)' = Awaited(c)
      BY <1>1, <2>1 DEF Asked, Awaited
    <3> QED
      BY <1>1, <1>3, <2>1, <2>4, <3>2, <3>3 DEF CallOK, New
  <2>8. Ended(c) => Ended(c)'
    BY <1>1, <2>4 DEF Ended
  <2> QED
    BY <1>1, <2>1, <2>4, <2>5, <2>6, <2>7, <2>8, CallbackInv
<1> QED
  BY <1>2, <1>3 DEF OnWrite

LEMMA ReadClosedInv ==
  ASSUME CallInv, NEW c \in Calls, OnReadClosed(c)
  PROVE  CallInv'
<1>1. Take(Task("IN", c)) /\ Touch({c}) /\ UNCHANGED <<m_stop_flag, timer, controller, rpc>>
      /\ client[c].state = "Connected"
  BY DEF OnReadClosed, Task
<1>2. /\ client \in [Calls -> ClientType] /\ client[c] \in ClientType
      /\ timer \in [Calls -> {"none", "pending", "canceled"}]
      /\ controller \in [Controllers -> ControllerType] /\ RpcType(rpc)
      /\ touched \subseteq Calls /\ m_stop_flag \in BOOLEAN /\ CallOK(c) /\ Asked(c)
      /\ status'[c] = "looping" /\ ~Queued(c)'
  BY <1>1, CallbackFinds
<1> DEFINE q == [state |-> "Closed", fd |-> "free", interest |-> {}, onOut |-> client[c].onOut,
                 readCb |-> client[c].readCb]
<1>3. q \in ClientType
  BY <1>2 DEF ClientType
<1>4. client' = [client EXCEPT ![c] = q]
  <2>1. CloseFd(client[c]) = ClosedFd(client[c])
    BY <1>2, ClientRecords
  <2>2. [CloseFd(client[c]) EXCEPT !.state = "Closed"] = q
    BY <2>1 DEF ClosedFd
  <2>3. client' = [client EXCEPT ![c] = [CloseFd(client[c]) EXCEPT !.state = "Closed"]]
    BY DEF OnReadClosed
  <2> HIDE DEF q
  <2> QED
    BY <2>2, <2>3
<1>5. client'[c] = q /\ client' \in [Calls -> ClientType]
      /\ \A d \in Calls : d # c => client'[d] = client[d]
  <2> HIDE DEF q
  <2> QED
    BY <1>2, <1>3, <1>4, ClientChanges
<1>6. touched' \subseteq Calls
  BY <1>1, <1>2, TouchType
<1>7. RpcType(rpc)'
  BY <1>1, <1>2 DEF RpcType, CallType, Full
<1>8. CallOK(c)'
  <2>1. client[c].onOut = "write"
    BY <1>1, <1>2 DEF CallOK, ClientType
  <2>2. ~Dialing(c) /\ ~Dialing(c)' /\ Pending(c)' = Pending(c)
    BY <1>1, <1>5, <2>1 DEF Dialing, Pending
  <2>3. Counts(c)'
    BY <1>1, <1>2, <1>5, <2>2 DEF CallOK, Counts, Awaiting
  <2>4. Asked(c)'
    BY <1>1, <1>2 DEF Asked
  <2> QED
    BY <1>1, <1>2, <1>5, <2>1, <2>3, <2>4 DEF CallOK, New
<1>9. Ended(c) => Ended(c)'
  BY <1>1, <1>5 DEF Ended
<1> QED
  BY <1>1, <1>2, <1>5, <1>6, <1>7, <1>8, <1>9, CallbackInv

(* What an answer takes away.                                               *)
LEMMA ForgetIs ==
  ASSUME NEW cl \in ClientType, NEW r
  PROVE  Forget(cl, r) = [state |-> cl.state, fd |-> cl.fd, interest |-> cl.interest,
                          onOut |-> cl.onOut, readCb |-> cl.readCb \ {r.m_msg_id}]
         /\ Forget(cl, r) \in ClientType
  BY DEF Forget, ClientType

(* An answer comes to a connected client, and the closure has not run.      *)
LEMMA AnsweredFinds ==
  ASSUME CallInv, NEW c \in Calls, NEW r \in rpc[c].replies, Answered(c, r)
  PROVE  /\ Take(Task("IN", c))
         /\ client[c].state = "Connected" /\ client[c].onOut = "write" /\ client[c].fd = "own"
         /\ rpc[c].answer = "none" /\ rpc[c].done = 0
<1>1. Take(Task("IN", c)) /\ client[c].state = "Connected" /\ client[c].fd = "own"
      /\ rpc[c].answer = "none"
  BY DEF Answered, Task
<1>2. CallOK(c) /\ client[c] \in ClientType
  BY <1>1, CallbackFinds
<1> QED
  BY <1>1, <1>2 DEF CallOK, Counts, ClientType

LEMMA AnswerInv ==
  ASSUME CallInv, NEW c \in Calls, NEW r \in rpc[c].replies, OnAnswer(c, r)
  PROVE  CallInv'
<1>1. /\ Take(Task("IN", c)) /\ client[c].state = "Connected" /\ client[c].onOut = "write"
      /\ rpc[c].answer = "none" /\ rpc[c].done = 0
  BY AnsweredFinds DEF OnAnswer
<1>2. /\ client \in [Calls -> ClientType] /\ client[c] \in ClientType
      /\ timer \in [Calls -> {"none", "pending", "canceled"}]
      /\ touched \subseteq Calls /\ m_stop_flag \in BOOLEAN /\ CallOK(c) /\ Asked(c)
      /\ m_is_looping /\ status'[c] = "looping" /\ ~Queued(c)'
  BY <1>1, CallbackFinds
<1>3. /\ timer' = [timer EXCEPT ![c] = IF @ = "pending" THEN "canceled" ELSE @]
      /\ Deliver(c, r)
      /\ client' = [client EXCEPT ![c] = Forget(Close(client[c]), r)]
      /\ m_stop_flag' /\ UNCHANGED touched
  BY <1>2 DEF OnAnswer, StopLoop
<1>4. rpc[c].done + 1 \in 0..2 /\ TypeOK /\ Shape
  BY <1>1 DEF CallInv
<1>5. /\ rpc'[c].controller = rpc[c].controller /\ rpc'[c].done = 1
      /\ rpc'[c].answer = "taken" /\ rpc'[c].request = rpc[c].request
      /\ rpc'[c].replies = rpc[c].replies
      /\ \A d \in Calls : d # c => rpc'[d] = rpc[d]
      /\ RpcType(rpc)' /\ controller' \in [Controllers -> ControllerType]
  BY <1>1, <1>2, <1>3, <1>4, DeliverGoes
<1>6. timer'[c] \in {"none", "canceled"} /\ timer' \in [Calls -> {"none", "pending", "canceled"}]
      /\ \A d \in Calls : d # c => timer'[d] = timer[d]
  BY <1>2, <1>3
<1> DEFINE cl == Forget(Close(client[c]), r)
<1>7. cl \in ClientType /\ cl.state = "Connected" /\ cl.fd = "free" /\ cl.interest = {}
      /\ cl.onOut = "write"
  <2>1. Close(client[c]) = ClosedFd(client[c]) /\ ClosedFd(client[c]) \in ClientType
    BY <1>2, ClientRecords
  <2>2. PICK closed : closed = ClosedFd(client[c])
    OBVIOUS
  <2>3. closed \in ClientType /\ closed.state = "Connected" /\ closed.fd = "free"
        /\ closed.interest = {} /\ closed.onOut = "write" /\ cl = Forget(closed, r)
    BY <1>1, <2>1, <2>2 DEF ClosedFd
  <2>4. Forget(closed, r) = [state |-> closed.state, fd |-> closed.fd,
                             interest |-> closed.interest, onOut |-> closed.onOut,
                             readCb |-> closed.readCb \ {r.m_msg_id}]
        /\ Forget(closed, r) \in ClientType
    BY <2>3, ForgetIs
  <2> HIDE DEF cl
  <2> QED
    BY <2>3, <2>4
<1>8. client'[c] = cl /\ client' \in [Calls -> ClientType]
      /\ \A d \in Calls : d # c => client'[d] = client[d]
  <2>1. client' = [client EXCEPT ![c] = cl]
    BY <1>3
  <2> HIDE DEF cl
  <2> QED
    BY <1>2, <1>7, <2>1, ClientChanges
<1> HIDE DEF cl
<1>9. CallOK(c)'
  <2>1. ~Dialing(c)' /\ Pending(c)' = 0
    BY <1>6, <1>7, <1>8 DEF Dialing, Pending
  <2>2. Counts(c)'
    BY <1>5, <1>6, <1>7, <1>8, <2>1 DEF Counts, Awaiting
  <2>3. Asked(c)'
    BY <1>2, <1>5 DEF Asked
  <2> QED
    BY <1>2, <1>3, <1>5, <1>7, <1>8, <2>2, <2>3 DEF CallOK, New
<1>10. Ended(c)'
  BY <1>5, <1>7, <1>8 DEF Ended
<1> QED
  BY <1>1, <1>2, <1>3, <1>5, <1>6, <1>8, <1>9, <1>10, CallbackInv

LEMMA AnswerCanceledInv ==
  ASSUME CallInv, NEW c \in Calls, NEW r \in rpc[c].replies, OnAnswerCanceled(c, r)
  PROVE  CallInv'
<1>1. /\ Take(Task("IN", c)) /\ client[c].state = "Connected" /\ client[c].onOut = "write"
      /\ rpc[c].answer = "none" /\ rpc[c].done = 0
  BY AnsweredFinds DEF OnAnswerCanceled
<1>2. /\ client \in [Calls -> ClientType] /\ client[c] \in ClientType
      /\ timer \in [Calls -> {"none", "pending", "canceled"}]
      /\ controller \in [Controllers -> ControllerType] /\ RpcType(rpc) /\ CallType(rpc[c])
      /\ touched \subseteq Calls /\ m_stop_flag \in BOOLEAN /\ CallOK(c) /\ Asked(c)
      /\ status'[c] = "looping" /\ ~Queued(c)'
  BY <1>1, CallbackFinds
<1>3. /\ client' = [client EXCEPT ![c] = Forget(client[c], r)]
      /\ rpc' = [rpc EXCEPT ![c].answer = "ignored"]
      /\ UNCHANGED <<m_stop_flag, timer, controller, touched>>
  BY DEF OnAnswerCanceled
<1> DEFINE q == [request |-> rpc[c].request, controller |-> rpc[c].controller,
                 replies |-> rpc[c].replies, response |-> rpc[c].response,
                 answer |-> "ignored", done |-> rpc[c].done]
<1>4. rpc'[c] = q /\ RpcType(rpc)' /\ \A d \in Calls : d # c => rpc'[d] = rpc[d]
  <2>1. [rpc[c] EXCEPT !.answer = "ignored"] = q
    BY <1>2 DEF CallType, Full
  <2>2. rpc' = [rpc EXCEPT ![c] = [rpc[c] EXCEPT !.answer = "ignored"]]
    BY <1>2, <1>3 DEF RpcType, CallType, Full
  <2>3. CallType(q)
    BY <1>2 DEF CallType, Full
  <2> QED
    BY <1>2, <2>1, <2>2, <2>3, RpcChanges
<1> DEFINE cl == Forget(client[c], r)
<1>5. cl \in ClientType /\ cl.state = "Connected" /\ cl.fd = client[c].fd
      /\ cl.interest = client[c].interest /\ cl.onOut = "write"
  <2>1. cl = [state |-> client[c].state, fd |-> client[c].fd, interest |-> client[c].interest,
              onOut |-> client[c].onOut, readCb |-> client[c].readCb \ {r.m_msg_id}]
        /\ cl \in ClientType
    BY <1>2, ForgetIs
  <2> HIDE DEF cl
  <2> QED
    BY <1>1, <2>1
<1> HIDE DEF cl
<1>6. client'[c] = cl /\ client' \in [Calls -> ClientType]
      /\ \A d \in Calls : d # c => client'[d] = client[d]
  BY <1>2, <1>3, <1>5, ClientChanges DEF cl
<1>7. CallOK(c)'
  <2>1. ~Dialing(c) /\ ~Dialing(c)' /\ Pending(c)' = Pending(c)
    BY <1>1, <1>3, <1>5, <1>6 DEF Dialing, Pending
  <2>2. Counts(c)'
    BY <1>1, <1>2, <1>3, <1>4, <1>5, <1>6, <2>1 DEF CallOK, Counts, Awaiting
  <2>3. Asked(c)'
    BY <1>2, <1>4 DEF Asked
  <2> QED
    BY <1>1, <1>2, <1>3, <1>4, <1>5, <1>6, <2>2, <2>3 DEF CallOK, New
<1>8. Ended(c) => Ended(c)'
  BY <1>3, <1>4, <1>5, <1>6 DEF Ended
<1> QED
  BY <1>1, <1>2, <1>3, <1>4, <1>6, <1>7, <1>8, CallbackInv

-----------------------------------------------------------------------------
(* The timeouts.                                                            *)

LEMMA TimeOutGoes ==
  ASSUME RpcType(rpc), controller \in [Controllers -> ControllerType],
         NEW late \in SUBSET Calls, TimeOut(late),
         \A c \in late : rpc[c].done + 1 \in 0..2
  PROVE  /\ \A c \in Calls : /\ rpc'[c].controller = rpc[c].controller
                             /\ rpc'[c].answer = rpc[c].answer
                             /\ rpc'[c].request = rpc[c].request
                             /\ rpc'[c].replies = rpc[c].replies
                             /\ rpc'[c].done = rpc[c].done + IF c \in late THEN 1 ELSE 0
         /\ \A c \in Calls \ late : rpc'[c] = rpc[c]
         /\ RpcType(rpc)' /\ controller' \in [Controllers -> ControllerType]
<1>1. rpc' = [c \in Calls |-> IF c \in late THEN [rpc[c] EXCEPT !.done = @ + 1] ELSE rpc[c]]
  BY DEF TimeOut
<1>2. \A c \in Calls : rpc'[c] = IF c \in late THEN [rpc[c] EXCEPT !.done = @ + 1] ELSE rpc[c]
  BY <1>1
<1>3. ASSUME NEW c \in Calls
      PROVE  /\ rpc'[c].controller = rpc[c].controller
             /\ rpc'[c].answer = rpc[c].answer /\ rpc'[c].request = rpc[c].request
             /\ rpc'[c].replies = rpc[c].replies
             /\ rpc'[c].done = rpc[c].done + IF c \in late THEN 1 ELSE 0
             /\ CallType(rpc'[c])
  <2>1. CallType(rpc[c])
    BY DEF RpcType
  <2>2. CASE c \notin late
    <3>1. rpc'[c] = rpc[c]
      BY <1>2, <2>2
    <3>2. rpc[c].done = rpc[c].done + IF c \in late THEN 1 ELSE 0
      BY <2>1, <2>2 DEF CallType
    <3> QED
      BY <2>1, <3>1, <3>2
  <2>3. CASE c \in late
    <3>1. rpc'[c] = [request |-> rpc[c].request, controller |-> rpc[c].controller,
                     replies |-> rpc[c].replies, response |-> rpc[c].response,
                     answer |-> rpc[c].answer, done |-> rpc[c].done + 1]
      BY <1>2, <2>1, <2>3 DEF CallType, Full
    <3>2. rpc[c].done + 1 \in 0..2
      BY <2>3
    <3> QED
      BY <2>1, <2>3, <3>1, <3>2 DEF CallType, Full
  <2> QED
    BY <2>2, <2>3
<1>4. rpc' = [c \in Calls |-> rpc'[c]]
  BY <1>1
<1>5. RpcType(rpc)'
  BY <1>3, <1>4 DEF RpcType
<1>6. controller' \in [Controllers -> ControllerType]
  <2>1. controller' =
         [k \in Controllers |->
            IF \E c \in late : rpc[c].controller = k
            THEN [SetError(controller[k], "SYS_RPC_CALL_TIMEOUT") EXCEPT !.m_is_canceled = TRUE]
            ELSE controller[k]]
    BY DEF TimeOut
  <2>2. ASSUME NEW k \in Controllers
        PROVE  [SetError(controller[k], "SYS_RPC_CALL_TIMEOUT") EXCEPT !.m_is_canceled = TRUE]
                 \in ControllerType
    <3>1. controller[k] \in ControllerType /\ "SYS_RPC_CALL_TIMEOUT" \in ErrorCodes
      BY DEF ErrorCodes
    <3>2. PICK q : q = SetError(controller[k], "SYS_RPC_CALL_TIMEOUT")
      OBVIOUS
    <3>3. q \in ControllerType
      BY <3>1, <3>2, ControllerTypes
    <3>4. [q EXCEPT !.m_is_canceled = TRUE] \in ControllerType
      BY <3>3 DEF ControllerType
    <3> QED
      BY <3>2, <3>4
  <2> HIDE DEF ControllerType
  <2> QED
    BY <2>1, <2>2
<1> QED
  BY <1>2, <1>3, <1>5, <1>6

LEMMA TimerInv ==
  ASSUME CallInv, NEW D \in SUBSET Calls, OnTimer(D)
  PROVE  CallInv'
<1> DEFINE late == {c \in D : timer[c] = "pending"}
<1>1. /\ pc = "run" /\ UNCHANGED <<pc, m_is_looping, status, t_msg_id_no>> /\ batch' \subseteq batch
      /\ \A c \in D : timer[c] # "none"
      /\ TimeOut(late)
      /\ client' = [c \in Calls |-> IF c \in late THEN Close(client[c]) ELSE client[c]]
      /\ m_stop_flag' = (m_stop_flag \/ late # {})
      /\ Touch(late)
      /\ timer' = [c \in Calls |-> IF c \in D THEN "none" ELSE timer[c]]
  BY DEF OnTimer, Take
<1>2. late \in SUBSET Calls /\ \A c \in Calls : c \in late <=> c \in D /\ timer[c] = "pending"
  OBVIOUS
<1> HIDE DEF late
<1>3. /\ client \in [Calls -> ClientType] /\ timer \in [Calls -> {"none", "pending", "canceled"}]
      /\ controller \in [Controllers -> ControllerType]
      /\ RpcType(rpc) /\ touched \subseteq Calls /\ m_stop_flag \in BOOLEAN
      /\ pc \in {"user", "check", "run", "wait"} /\ m_is_looping \in BOOLEAN /\ batch \subseteq Ready
      /\ status \in [Calls -> {"new", "looping", "looped", "failed", "returned"}]
      /\ t_msg_id_no \in Ids \cup {<<>>}
  BY TypeParts DEF CallInv
<1>4. LoopInv /\ Stopped /\ m_is_looping
  BY <1>1 DEF CallInv, LoopInv
<1>5. ASSUME NEW c \in Calls
      PROVE  /\ CallOK(c) /\ rpc[c].done \in 0..2 /\ client[c] \in ClientType
             /\ c \in late => rpc[c].done + 1 \in 0..2
  <2>1. CallOK(c) /\ rpc[c].done \in 0..2 /\ client[c] \in ClientType
    <3> HIDE DEF ClientType
    <3> QED
      BY <1>3 DEF CallInv, TypeOK
  <2>2. c \in late => rpc[c].done + 1 \in 0..2
    BY <1>2, <2>1 DEF CallOK, Counts, Awaiting, Pending
  <2> QED
    BY <2>1, <2>2
<1>6. /\ \A c \in Calls : /\ rpc'[c].controller = rpc[c].controller
                          /\ rpc'[c].answer = rpc[c].answer
                          /\ rpc'[c].request = rpc[c].request
                          /\ rpc'[c].replies = rpc[c].replies
                          /\ rpc'[c].done = rpc[c].done + IF c \in late THEN 1 ELSE 0
      /\ \A c \in Calls \ late : rpc'[c] = rpc[c]
      /\ RpcType(rpc)' /\ controller' \in [Controllers -> ControllerType]
  <2>1. \A c \in late : rpc[c].done + 1 \in 0..2
    BY <1>2, <1>5
  <2> QED
    BY <1>1, <1>2, <1>3, <2>1, TimeOutGoes
<1>7. ASSUME NEW c \in Calls
      PROVE  /\ client'[c] \in ClientType
             /\ c \notin late => client'[c] = client[c]
             /\ c \in late => /\ client'[c].state = client[c].state /\ client'[c].fd = "free"
                              /\ client'[c].interest = {} /\ client'[c].onOut = client[c].onOut
  <2>1. Close(client[c]) = ClosedFd(client[c]) /\ ClosedFd(client[c]) \in ClientType
    BY <1>4, <1>5, ClientRecords
  <2> HIDE DEF ClientType
  <2>2. client'[c] = IF c \in late THEN ClosedFd(client[c]) ELSE client[c]
    BY <1>1, <2>1
  <2> QED
    BY <1>5, <2>1, <2>2 DEF ClosedFd
<1>8. client' \in [Calls -> ClientType]
  <2> HIDE DEF ClientType
  <2>1. client' = [c \in Calls |-> client'[c]]
    BY <1>1
  <2> QED
    BY <1>7, <2>1
<1>9. /\ timer' \in [Calls -> {"none", "pending", "canceled"}]
      /\ \A c \in Calls : timer'[c] = IF c \in D THEN "none" ELSE timer[c]
  BY <1>1, <1>3
<1>10. TypeOK' /\ Shape'
  <2>1. touched' \subseteq Calls /\ m_stop_flag' \in BOOLEAN
    BY <1>1, <1>2, <1>3, TouchType
  <2> QED
    BY <1>1, <1>3, <1>6, <1>8, <1>9, <2>1, TypeNext
<1>11. LoopInv'
  <2>1. \A d \in Calls : status[d] # "looping" =>
           /\ client'[d].interest = {} \/ client'[d].interest = client[d].interest
           /\ timer'[d] # "none" => timer[d] # "none"
    BY <1>7, <1>9
  <2> QED
    BY <1>1, <1>4, <2>1, RunLoop
<1>12. Stopped'
  <2>1. ASSUME NEW d \in Calls, Ended(d) PROVE Ended(d)'
    BY <1>5, <1>6, <1>7, <2>1 DEF Ended
  <2>2. ASSUME m_stop_flag', ~m_stop_flag, \A o \in Calls : status[o] # "failed"
        PROVE  \E d \in Calls : status[d] = "looping" /\ Ended(d)'
    <3>1. PICK d \in late : TRUE
      BY <1>1, <2>2
    <3>2. d \in Calls /\ timer[d] # "none"
      BY <1>2, <3>1
    <3>3. status[d] = "looping"
      BY <1>1, <1>4, <2>2, <3>2 DEF LoopInv, Resting
    <3>4. Ended(d)'
      BY <1>5, <1>6, <1>7, <3>1, <3>2 DEF Ended
    <3> QED
      BY <3>2, <3>3, <3>4
  <2> QED
    BY <1>1, <1>4, <2>1, <2>2, RunStopped
<1>13. ASSUME NEW c \in Calls PROVE CallOK(c)'
  <2>1. CASE c \notin D
    BY <1>1, <1>2, <1>5, <1>6, <1>7, <1>9, <2>1, OthersStay
  <2>2. CASE c \in D
    <3>1. ~Idle(c) /\ Asked(c) /\ CallOK(c) /\ status[c] # "new"
      BY <1>1, <1>5, <2>2 DEF CallOK, New, Idle
    <3>2. Asked(c)'
      BY <1>6, <3>1 DEF Asked
    <3>3. Pending(c)' = 0 /\ (Dialing(c)' => Dialing(c)) /\ timer'[c] = "none"
      BY <1>1, <1>7, <1>9, <2>2 DEF Pending, Dialing
    <3>4. Counts(c)'
      <4>1. CASE c \in late
        <5>1. Pending(c) = 1
          BY <1>2, <4>1 DEF Pending
        <5>2. rpc'[c].done = rpc[c].done + 1
          BY <1>6, <4>1
        <5>3. rpc'[c].done + Awaiting(c)' <= 2
          BY <1>5, <3>1, <3>3, <5>1, <5>2 DEF CallOK, Counts, Awaiting
        <5>4. client'[c].state # "NotConnected" => rpc'[c].done + Pending(c)' <= 1
          BY <1>5, <1>7, <3>1, <3>3, <4>1, <5>1, <5>2 DEF CallOK, Counts
        <5> QED
          BY <1>7, <3>3, <4>1, <5>3, <5>4 DEF Counts
      <4>2. CASE c \notin late
        <5>1. Pending(c) = 0 /\ rpc'[c] = rpc[c] /\ client'[c] = client[c]
          BY <1>2, <1>6, <1>7, <2>2, <4>2 DEF Pending
        <5>2. rpc'[c].done + Awaiting(c)' <= 2
          BY <1>5, <3>1, <3>3, <5>1 DEF CallOK, Counts, Awaiting
        <5> QED
          BY <3>1, <3>3, <5>1, <5>2 DEF CallOK, Counts
      <4> QED
        BY <4>1, <4>2
    <3>5. New(c)'
      BY <1>1, <3>1 DEF New
    <3>6. Awaited(c)' = Awaited(c)
      BY <1>6 DEF Awaited
    <3> QED
      BY <1>1, <1>6, <1>7, <3>1, <3>2, <3>4, <3>5, <3>6 DEF CallOK
  <2> QED
    BY <2>1, <2>2
<1> QED
  BY <1>10, <1>11, <1>12, <1>13 DEF CallInv

-----------------------------------------------------------------------------
(* The loop and the other threads.                                          *)

(* A step that changes nothing of the calls but their place in the batch or *)
(* in the loop.                                                             *)
LEMMA CallsStay ==
  ASSUME CallInv, UNCHANGED callVars, m_stop_flag' = m_stop_flag,
         pc' \in {"user", "check", "run", "wait"}, m_is_looping' \in BOOLEAN, batch' \subseteq Ready,
         status' \in [Calls -> {"new", "looping", "looped", "failed", "returned"}],
         \A d \in Calls : status'[d] = "new" => status[d] = "new",
         \A d \in Calls : \A kind \in {"IN", "OUT"} :
           Task(kind, d) \in batch' => Task(kind, d) \in batch \/ kind \in client[d].interest
  PROVE  TypeOK' /\ Shape' /\ \A c \in Calls : CallOK(c)'
<1>1. UNCHANGED <<client, timer, controller, rpc, t_msg_id_no, touched, m_stop_flag>>
  BY DEF callVars
<1>2. TypeOK' /\ Shape'
  <2>1. /\ client \in [Calls -> ClientType] /\ timer \in [Calls -> {"none", "pending", "canceled"}]
        /\ controller \in [Controllers -> ControllerType]
        /\ RpcType(rpc) /\ touched \subseteq Calls /\ m_stop_flag \in BOOLEAN
        /\ t_msg_id_no \in Ids \cup {<<>>}
    BY TypeParts DEF CallInv
  <2>2. RpcType(rpc)'
    BY <1>1, <2>1 DEF RpcType, CallType, Full
  <2> QED
    BY <1>1, <2>1, <2>2, TypeNext
<1>3. ASSUME NEW c \in Calls PROVE CallOK(c)'
  <2>1. CallOK(c) /\ rpc[c].done \in 0..2
    BY DEF CallInv, TypeOK
  <2> QED
    BY <1>1, <2>1, OthersStay
<1> QED
  BY <1>2, <1>3

LEMMA CheckStopInv == ASSUME CallInv, CheckStop PROVE CallInv'
<1>1. /\ pc = "check" /\ UNCHANGED <<m_is_looping, m_stop_flag, batch>> /\ UNCHANGED callVars
      /\ UNCHANGED <<client, timer, rpc>>
  BY DEF CheckStop, callVars
<1>2. /\ m_is_looping \in BOOLEAN /\ batch \subseteq Ready /\ LoopInv /\ Stopped
      /\ status \in [Calls -> {"new", "looping", "looped", "failed", "returned"}]
  BY TypeParts DEF CallInv
<1>3. CASE m_stop_flag
  <2>1. /\ pc' = "user" /\ status' = [c \in Calls |-> IF status[c] = "looping" THEN "looped" ELSE status[c]]
    BY <1>3 DEF CheckStop
  <2>2. /\ \A c \in Calls : status'[c] = IF status[c] = "looping" THEN "looped" ELSE status[c]
        /\ status' \in [Calls -> {"new", "looping", "looped", "failed", "returned"}]
    BY <1>2, <2>1
  <2>3. TypeOK' /\ Shape' /\ \A c \in Calls : CallOK(c)'
    BY <1>1, <1>2, <2>1, <2>2, CallsStay
  <2>4. LoopInv'
    BY <1>1, <1>2, <1>3, <2>1, <2>2 DEF LoopInv
  <2>5. Stopped'
    BY <1>1, <1>2, <2>2 DEF Stopped, Ended
  <2> QED
    BY <2>3, <2>4, <2>5 DEF CallInv
<1>4. CASE ~m_stop_flag
  <2>1. pc' = "run" /\ UNCHANGED status
    BY <1>4 DEF CheckStop
  <2>2. TypeOK' /\ Shape' /\ \A c \in Calls : CallOK(c)'
    BY <1>1, <1>2, <2>1, CallsStay
  <2>3. LoopInv'
    BY <1>1, <1>2, <2>1 DEF LoopInv, Resting, Queued
  <2>4. Stopped'
    BY <1>1, <1>2, <2>1 DEF Stopped, Ended
  <2> QED
    BY <2>2, <2>3, <2>4 DEF CallInv
<1> QED
  BY <1>3, <1>4

LEMMA BatchDoneInv == ASSUME CallInv, BatchDone PROVE CallInv'
<1>1. /\ pc = "run" /\ pc' = "wait" /\ UNCHANGED <<m_is_looping, m_stop_flag, batch, status>>
      /\ UNCHANGED callVars /\ UNCHANGED <<client, timer, rpc>>
  BY DEF BatchDone, callVars
<1>2. /\ m_is_looping \in BOOLEAN /\ batch \subseteq Ready /\ LoopInv /\ Stopped
      /\ status \in [Calls -> {"new", "looping", "looped", "failed", "returned"}]
  BY TypeParts DEF CallInv
<1>3. TypeOK' /\ Shape' /\ \A c \in Calls : CallOK(c)'
  BY <1>1, <1>2, CallsStay
<1>4. LoopInv'
  BY <1>1, <1>2 DEF LoopInv, Resting, Queued
<1>5. Stopped'
  BY <1>1, <1>2 DEF Stopped, Ended
<1> QED
  BY <1>3, <1>4, <1>5 DEF CallInv

LEMMA WaitInv ==
  ASSUME CallInv, NEW R \in SUBSET Ready, Wait(R)
  PROVE  CallInv'
<1>1. /\ pc = "wait" /\ pc' = "check" /\ batch' = R
      /\ \A h \in R : h # TimerTask => h.kind \in client[h.call].interest
      /\ \A g, h \in R : g.call = h.call => g = h
      /\ UNCHANGED <<m_is_looping, m_stop_flag, status>>
      /\ UNCHANGED callVars /\ UNCHANGED <<client, timer, rpc>>
  BY DEF Wait, callVars
<1>2. /\ m_is_looping \in BOOLEAN /\ LoopInv /\ Stopped
      /\ status \in [Calls -> {"new", "looping", "looped", "failed", "returned"}]
  BY TypeParts DEF CallInv
<1>3. ASSUME NEW d \in Calls, NEW kind \in {"IN", "OUT"}, Task(kind, d) \in batch'
      PROVE  kind \in client[d].interest
  BY <1>1, <1>3 DEF Task, TimerTask
<1>4. TypeOK' /\ Shape' /\ \A c \in Calls : CallOK(c)'
  BY <1>1, <1>2, <1>3, CallsStay
<1>5. LoopInv'
  <2>1. ASSUME NEW d \in Calls, Resting(d) PROVE Resting(d)'
    BY <1>1, <1>3, <2>1 DEF Resting, Queued
  <2> QED
    BY <1>1, <1>2, <2>1 DEF LoopInv
<1>6. Stopped'
  BY <1>1, <1>2 DEF Stopped, Ended
<1> QED
  BY <1>4, <1>5, <1>6 DEF CallInv

LEMMA OtherOpensInv ==
  ASSUME CallInv, NEW c \in Calls, OtherOpens(c)
  PROVE  CallInv'
<1>1. /\ client[c].fd = "free" /\ client' = [client EXCEPT ![c].fd = "other"]
      /\ UNCHANGED <<pc, m_is_looping, m_stop_flag, batch, status, timer, controller, rpc,
                     t_msg_id_no, touched>>
  BY DEF OtherOpens, loopVars
<1>2. /\ client \in [Calls -> ClientType] /\ timer \in [Calls -> {"none", "pending", "canceled"}]
      /\ controller \in [Controllers -> ControllerType]
      /\ RpcType(rpc) /\ touched \subseteq Calls /\ m_stop_flag \in BOOLEAN
      /\ pc \in {"user", "check", "run", "wait"} /\ m_is_looping \in BOOLEAN /\ batch \subseteq Ready
      /\ status \in [Calls -> {"new", "looping", "looped", "failed", "returned"}]
      /\ t_msg_id_no \in Ids \cup {<<>>}
      /\ LoopInv /\ Stopped /\ CallOK(c) /\ rpc[c].done \in 0..2
  BY TypeParts DEF CallInv, TypeOK
<1>3. /\ client'[c].state = client[c].state /\ client'[c].fd = "other"
      /\ client'[c].interest = client[c].interest /\ client'[c].onOut = client[c].onOut
      /\ client'[c].readCb = client[c].readCb
      /\ client' \in [Calls -> ClientType] /\ \A d \in Calls : d # c => client'[d] = client[d]
  BY <1>1, <1>2 DEF ClientType
<1>4. RpcType(rpc)'
  BY <1>1, <1>2 DEF RpcType, CallType, Full
<1>5. TypeOK' /\ Shape'
  BY <1>1, <1>2, <1>3, <1>4, TypeNext
<1>6. LoopInv'
  <2>1. ASSUME NEW d \in Calls, Resting(d) PROVE Resting(d)'
    <3>1. client'[d].interest = client[d].interest
      BY <1>3
    <3> QED
      BY <1>1, <2>1, <3>1 DEF Resting, Queued
  <2> QED
    BY <1>1, <1>2, <2>1 DEF LoopInv
<1>7. Stopped'
  <2>1. ASSUME NEW d \in Calls, Ended(d) PROVE Ended(d)'
    BY <1>1, <1>3, <2>1 DEF Ended
  <2> QED
    BY <1>1, <1>2, <2>1 DEF Stopped
<1>8. CallOK(c)'
  <2>1. /\ (Idle(c)' <=> Idle(c)) /\ (Asked(c)' <=> Asked(c)) /\ Awaited(c)' = Awaited(c)
        /\ Pending(c)' = Pending(c) /\ (Dialing(c)' <=> Dialing(c))
    BY <1>1, <1>3 DEF Idle, Asked, Awaited, Pending, Dialing, Queued
  <2>2. Counts(c)'
    BY <1>1, <1>2, <1>3, <2>1 DEF CallOK, Counts, Awaiting
  <2>3. status[c] # "new"
    BY <1>1, <1>2 DEF CallOK, New, NewClient
  <2> QED
    BY <1>1, <1>2, <1>3, <2>1, <2>2, <2>3 DEF CallOK, New
<1>9. ASSUME NEW d \in Calls, d # c PROVE CallOK(d)'
  <2>1. CallOK(d) /\ rpc[d].done \in 0..2
    BY DEF CallInv, TypeOK
  <2> QED
    BY <1>1, <1>3, <1>9, <2>1, OthersStay
<1> QED
  BY <1>5, <1>6, <1>7, <1>8, <1>9 DEF CallInv

-----------------------------------------------------------------------------
(* The user, and the calls until they enter the loop.                       *)

LEMMA UserInv ==
  ASSUME CallInv, User, controller' \in [Controllers -> ControllerType]
  PROVE  CallInv'
<1>1. /\ pc = "user"
      /\ UNCHANGED <<pc, m_is_looping, m_stop_flag, batch, status, client, timer, rpc, t_msg_id_no,
                     touched>>
  BY DEF User, loopVars
<1>2. /\ client \in [Calls -> ClientType] /\ timer \in [Calls -> {"none", "pending", "canceled"}]
      /\ RpcType(rpc) /\ touched \subseteq Calls /\ m_stop_flag \in BOOLEAN
      /\ pc \in {"user", "check", "run", "wait"} /\ m_is_looping \in BOOLEAN /\ batch \subseteq Ready
      /\ status \in [Calls -> {"new", "looping", "looped", "failed", "returned"}]
      /\ t_msg_id_no \in Ids \cup {<<>>}
      /\ LoopInv /\ Stopped
  BY TypeParts DEF CallInv
<1>3. RpcType(rpc)'
  BY <1>1, <1>2 DEF RpcType, CallType, Full
<1>4. TypeOK' /\ Shape'
  BY <1>1, <1>2, <1>3, TypeNext
<1>5. LoopInv'
  BY <1>1, <1>2 DEF LoopInv, Resting, Queued
<1>6. Stopped'
  BY <1>1, <1>2 DEF Stopped, Ended
<1>7. ASSUME NEW d \in Calls PROVE CallOK(d)'
  <2>1. CallOK(d) /\ rpc[d].done \in 0..2
    BY DEF CallInv, TypeOK
  <2> QED
    BY <1>1, <2>1, OthersStay
<1> QED
  BY <1>4, <1>5, <1>6, <1>7 DEF CallInv

LEMMA ResetInv ==
  ASSUME CallInv, NEW k \in Controllers, Reset(k) \/ StartCancel(k)
  PROVE  CallInv'
<1>1. User
  BY DEF Reset, StartCancel
<1>2. controller \in [Controllers -> ControllerType]
  BY TypeParts DEF CallInv
<1>3. controller' \in [Controllers -> ControllerType]
  <2>1. CASE Reset(k)
    <3>1. NewController \in ControllerType
      BY DEF NewController, ControllerType, ErrorCodes, MessageIds
    <3> HIDE DEF ControllerType
    <3> QED
      BY <1>2, <2>1, <3>1 DEF Reset
  <2>2. CASE StartCancel(k)
    <3>1. controller' = [controller EXCEPT ![k].m_is_canceled = TRUE]
      BY <2>2 DEF StartCancel
    <3> QED
      BY <1>2, <3>1 DEF ControllerType
  <2> QED
    BY <2>1, <2>2
<1> QED
  BY <1>1, <1>3, UserInv

LEMMA UncontrolledInv ==
  ASSUME CallInv, NEW c \in Calls, CallUncontrolled(c)
  PROVE  CallInv'
<1>1. /\ pc = "user" /\ status[c] = "new" /\ status' = [status EXCEPT ![c] = "returned"]
      /\ UNCHANGED <<pc, m_is_looping, m_stop_flag, batch, client, timer, rpc>>
      /\ UNCHANGED callVars
  BY DEF CallUncontrolled, loopVars, callVars
<1>2. /\ m_is_looping \in BOOLEAN /\ batch \subseteq Ready /\ LoopInv /\ Stopped
      /\ status \in [Calls -> {"new", "looping", "looped", "failed", "returned"}]
      /\ pc \in {"user", "check", "run", "wait"} /\ CallOK(c)
  BY TypeParts DEF CallInv
<1>3. /\ status' \in [Calls -> {"new", "looping", "looped", "failed", "returned"}]
      /\ status'[c] = "returned" /\ \A d \in Calls : d # c => status'[d] = status[d]
  BY <1>1, <1>2
<1>4. TypeOK' /\ Shape' /\ \A d \in Calls : CallOK(d)'
  BY <1>1, <1>2, <1>3, CallsStay
<1>5. LoopInv'
  <2>1. ASSUME NEW d \in Calls, Resting(d) PROVE Resting(d)'
    <3>1. status[d] = "failed" => status'[d] = "failed"
      BY <1>1, <1>3
    <3> QED
      BY <1>1, <2>1, <3>1 DEF Resting, Queued
  <2> QED
    BY <1>1, <1>2, <1>3, <2>1 DEF LoopInv
<1>6. Stopped'
  <2>1. \A d \in Calls : status[d] = "failed" <=> status'[d] = "failed"
    BY <1>1, <1>3
  <2>2. \A d \in Calls : status'[d] \in {"looping", "looped"} => status[d] \in {"looping", "looped"}
    BY <1>1, <1>3
  <2> QED
    BY <1>1, <1>2, <2>1, <2>2 DEF Stopped, Ended
<1> QED
  BY <1>4, <1>5, <1>6 DEF CallInv

(* What a call that begins finds, and what is left for its kind to show.    *)
LEMMA BegunFinds ==
  ASSUME CallInv, NEW c \in Calls, NEW k \in Controllers, NEW done \in {0, 1}, Begun(c, k, done)
  PROVE  /\ client \in [Calls -> ClientType] /\ client[c] = NewClient
         /\ timer \in [Calls -> {"none", "pending", "canceled"}] /\ timer[c] = "none"
         /\ touched \subseteq Calls /\ m_stop_flag \in BOOLEAN /\ m_is_looping \in BOOLEAN
         /\ batch \subseteq Ready /\ ~Queued(c)
         /\ status \in [Calls -> {"new", "looping", "looped", "failed", "returned"}]
         /\ m_is_looping => m_stop_flag
         /\ pc = "user" /\ status[c] = "new" /\ rpc'[c].answer = "none"
<1>1. /\ client \in [Calls -> ClientType] /\ timer \in [Calls -> {"none", "pending", "canceled"}]
      /\ touched \subseteq Calls /\ m_stop_flag \in BOOLEAN /\ m_is_looping \in BOOLEAN
      /\ batch \subseteq Ready /\ LoopInv /\ CallOK(c)
      /\ status \in [Calls -> {"new", "looping", "looped", "failed", "returned"}]
  BY TypeParts DEF CallInv
<1>2. pc = "user" /\ status[c] = "new" /\ rpc'[c].answer = rpc[c].answer
  BY DEF Begun
<1> QED
  BY <1>1, <1>2 DEF CallOK, New, Idle, LoopInv

LEMMA BegunInv ==
  ASSUME CallInv, NEW c \in Calls, NEW k \in Controllers, NEW done \in {0, 1}, Begun(c, k, done),
         pc' \in {"user", "check"}, m_is_looping' \in BOOLEAN, m_stop_flag' \in BOOLEAN,
         UNCHANGED <<batch, touched>>,
         NEW word \in {"looping", "failed", "returned"}, status' = [status EXCEPT ![c] = word],
         NEW cl \in ClientType, client' = [client EXCEPT ![c] = cl],
         NEW t \in {"none", "pending", "canceled"}, timer' = [timer EXCEPT ![c] = t],
         m_stop_flag => m_stop_flag', m_stop_flag' => m_stop_flag \/ word = "failed",
         m_is_looping => m_is_looping', m_stop_flag' => m_is_looping',
         word = "looping" <=> pc' = "check", word = "looping" => m_is_looping' /\ ~m_is_looping,
         word # "looping" => (m_is_looping' => m_stop_flag'),
         ~m_is_looping' => Resting(c)',
         CallOK(c)'
  PROVE  CallInv'
<1>1. /\ client \in [Calls -> ClientType] /\ timer \in [Calls -> {"none", "pending", "canceled"}]
      /\ touched \subseteq Calls /\ batch \subseteq Ready
      /\ status \in [Calls -> {"new", "looping", "looped", "failed", "returned"}]
      /\ pc = "user" /\ status[c] = "new" /\ LoopInv /\ Stopped
  BY BegunFinds DEF CallInv
<1>2. /\ RpcType(rpc)' /\ \A d \in Calls : d # c => rpc'[d] = rpc[d]
      /\ t_msg_id_no' \in Ids \cup {<<>>} /\ controller' \in [Controllers -> ControllerType]
  BY DEF Begun
<1>3. client'[c] = cl /\ client' \in [Calls -> ClientType]
      /\ \A d \in Calls : d # c => client'[d] = client[d]
  BY <1>1, ClientChanges
<1>4. /\ timer' \in [Calls -> {"none", "pending", "canceled"}]
      /\ \A d \in Calls : d # c => timer'[d] = timer[d]
      /\ status' \in [Calls -> {"new", "looping", "looped", "failed", "returned"}]
      /\ status'[c] = word /\ \A d \in Calls : d # c => status'[d] = status[d]
  BY <1>1
<1>5. TypeOK' /\ Shape'
  BY <1>1, <1>2, <1>3, <1>4, TypeNext
<1>6. LoopInv'
  <2>1. ASSUME NEW d \in Calls, d # c, Resting(d) PROVE Resting(d)'
    <3>1. client'[d] = client[d] /\ timer'[d] = timer[d] /\ status'[d] = status[d] /\ batch' = batch
      BY <1>3, <1>4, <2>1
    <3> QED
      BY <2>1, <3>1 DEF Resting, Queued
  <2>2. ASSUME NEW d \in Calls PROVE status[d] # "looping" /\ (~m_is_looping => Resting(d))
    BY <1>1 DEF LoopInv
  <2>3. ASSUME NEW d \in Calls, (pc' # "user" /\ status'[d] # "looping") \/ ~m_is_looping'
        PROVE  Resting(d)'
    <3>1. CASE d = c
      BY <1>4, <2>3, <3>1
    <3>2. CASE d # c
      BY <1>1, <2>1, <2>2, <2>3, <3>2
    <3> QED
      BY <3>1, <3>2
  <2>4. \A d \in Calls : status'[d] = "looping" => d = c /\ word = "looping"
    BY <1>4, <2>2
  <2>5. \A d \in Calls : status'[d] = "looped" => m_stop_flag'
    BY <1>1, <1>4 DEF LoopInv
  <2>6. \A g, h \in batch' : g.call = h.call => g = h
    BY <1>1 DEF LoopInv
  <2> QED
    BY <2>3, <2>4, <2>5, <2>6 DEF LoopInv
<1>7. Stopped'
  <2> SUFFICES ASSUME m_stop_flag', \A o \in Calls : status'[o] # "failed",
                      NEW d \in Calls, status'[d] \in {"looping", "looped"}
               PROVE  Ended(d)'
    BY DEF Stopped
  <2>1. word # "failed" /\ m_stop_flag
    BY <1>4
  <2>2. d # c
    BY <1>1, <1>4, <2>1 DEF LoopInv
  <2>3. Ended(d)
    BY <1>1, <1>4, <2>1, <2>2 DEF Stopped
  <2> QED
    BY <1>2, <1>3, <2>2, <2>3 DEF Ended
<1>8. ASSUME NEW d \in Calls, d # c PROVE CallOK(d)'
  <2>1. CallOK(d) /\ rpc[d].done \in 0..2
    BY DEF CallInv, TypeOK
  <2> QED
    BY <1>2, <1>3, <1>4, <1>8, <2>1, OthersStay
<1> QED
  BY <1>5, <1>6, <1>7, <1>8 DEF CallInv

(* The call as it begins: its client, its timeout, its closure's runs.      *)
LEMMA BegunCall ==
  ASSUME NEW c \in Calls, NEW k \in Controllers, NEW done \in {0, 1}, Begun(c, k, done),
         ~Queued(c), UNCHANGED batch, rpc'[c].answer = "none", status'[c] # "new",
         Pending(c)' \in 0..1,
         \/ /\ client'[c].state = "NotConnected" /\ client'[c].onOut = "connect"
            /\ client'[c].interest \in {{}, {"OUT"}}
            /\ client'[c].interest # {} => done = 0
         \/ /\ client'[c].state = "Connected" /\ client'[c].onOut = "write"
            /\ client'[c].interest = {"OUT"} /\ done = 0,
         client'[c].fd # "own" => m_stop_flag'
  PROVE  CallOK(c)'
<1>1. rpc'[c].done = done /\ Asked(c)'
  BY DEF Begun
<1>2. Dialing(c)' <=> client'[c].state = "NotConnected" /\ "OUT" \in client'[c].interest
  BY DEF Dialing, Queued
<1>3. rpc'[c].done + Awaiting(c)' <= 2
  <2>1. CASE Dialing(c)'
    BY <1>1, <1>2, <2>1 DEF Awaiting
  <2>2. CASE ~Dialing(c)'
    BY <1>1, <2>2 DEF Awaiting
  <2> QED
    BY <2>1, <2>2
<1>4. Counts(c)'
  BY <1>1, <1>2, <1>3 DEF Counts
<1> QED
  BY <1>1, <1>4 DEF CallOK, New

LEMMA RejectedInv ==
  ASSUME CallInv, NEW c \in Calls, NEW k \in Controllers, CallRejected(c, k)
  PROVE  CallInv'
<1>1. /\ status' = [status EXCEPT ![c] = "returned"]
      /\ UNCHANGED <<pc, m_is_looping, m_stop_flag, batch, client, timer, touched>>
  BY DEF CallRejected, loopVars
<1>2. Begun(c, k, 1)
  <2>1. PICK err \in {"SYS_CHANNEL_NOT_INIT", "SYS_FAILED_SERIALIZE"} : Begin(c, k, err)
    BY DEF CallRejected
  <2>2. err \in ErrorCodes /\ err # "OK" /\ TypeOK /\ Shape
    BY DEF ErrorCodes, CallInv
  <2>3. Begun(c, k, IF err = "OK" THEN 0 ELSE 1)
    BY <2>1, <2>2, BeginGoes
  <2> QED
    BY <2>2, <2>3
<1>3. /\ client \in [Calls -> ClientType] /\ client[c] = NewClient
      /\ timer \in [Calls -> {"none", "pending", "canceled"}] /\ timer[c] = "none"
      /\ m_stop_flag \in BOOLEAN /\ m_is_looping \in BOOLEAN /\ batch \subseteq Ready /\ ~Queued(c)
      /\ status \in [Calls -> {"new", "looping", "looped", "failed", "returned"}]
      /\ m_is_looping => m_stop_flag
      /\ pc = "user" /\ status[c] = "new" /\ rpc'[c].answer = "none"
  BY <1>2, BegunFinds
<1>4. client' = [client EXCEPT ![c] = client[c]] /\ client[c] \in ClientType
      /\ timer' = [timer EXCEPT ![c] = "none"] /\ status'[c] = "returned"
  <2> HIDE DEF ClientType
  <2> QED
    BY <1>1, <1>3
<1>5. CallOK(c)'
  <2>1. Pending(c)' = 0 /\ client'[c] = NewClient
    BY <1>1, <1>3 DEF Pending
  <2> QED
    BY <1>1, <1>2, <1>3, <1>4, <2>1, BegunCall DEF NewClient
<1>6. Resting(c)'
  BY <1>1, <1>3 DEF Resting, NewClient, Queued
<1>7. m_stop_flag => m_is_looping
  BY DEF CallInv, LoopInv
<1> QED
  BY <1>1, <1>2, <1>3, <1>4, <1>5, <1>6, <1>7, BegunInv

LEMMA FailsAtOnceInv ==
  ASSUME CallInv, NEW c \in Calls, NEW k \in Controllers, CallFailsAtOnce(c, k)
  PROVE  CallInv'
<1>1. /\ status' = [status EXCEPT ![c] = "failed"] /\ timer' = [timer EXCEPT ![c] = "pending"]
      /\ client' = [client EXCEPT ![c] = Close(client[c])]
      /\ m_stop_flag' = (m_stop_flag \/ m_is_looping)
      /\ UNCHANGED <<pc, m_is_looping, batch, touched>>
  BY DEF CallFailsAtOnce, StopLoop
<1>2. Begun(c, k, 1)
  <2>1. "SYS_FAILED_CONNECT" \in ErrorCodes /\ "SYS_FAILED_CONNECT" # "OK" /\ TypeOK /\ Shape
        /\ Begin(c, k, "SYS_FAILED_CONNECT")
    BY DEF ErrorCodes, CallInv, CallFailsAtOnce
  <2>2. Begun(c, k, IF "SYS_FAILED_CONNECT" = "OK" THEN 0 ELSE 1)
    BY <2>1, BeginGoes
  <2> QED
    BY <2>1, <2>2
<1>3. /\ client \in [Calls -> ClientType] /\ client[c] = NewClient
      /\ timer \in [Calls -> {"none", "pending", "canceled"}] /\ timer[c] = "none"
      /\ m_stop_flag \in BOOLEAN /\ m_is_looping \in BOOLEAN /\ batch \subseteq Ready /\ ~Queued(c)
      /\ status \in [Calls -> {"new", "looping", "looped", "failed", "returned"}]
      /\ m_is_looping => m_stop_flag
      /\ pc = "user" /\ status[c] = "new" /\ rpc'[c].answer = "none"
  BY <1>2, BegunFinds
<1>4. PICK cl : cl = Close(client[c])
  OBVIOUS
<1>5. cl \in ClientType /\ cl.state = "NotConnected" /\ cl.interest = {} /\ cl.onOut = "connect"
      /\ (cl.fd # "own" => m_is_looping)
  <2>1. client[c] \in ClientType
    BY <1>3 DEF NewClient, ClientType
  <2>2. cl = (IF m_is_looping THEN ClosedFd(client[c]) ELSE client[c])
        /\ ClosedFd(client[c]) \in ClientType
    BY <1>4, <2>1, ClientRecords
  <2>3. ClosedFd(client[c]).state = "NotConnected" /\ ClosedFd(client[c]).interest = {}
        /\ ClosedFd(client[c]).onOut = "connect"
    BY <1>3 DEF ClosedFd, NewClient
  <2>4. client[c].state = "NotConnected" /\ client[c].interest = {}
        /\ client[c].onOut = "connect" /\ client[c].fd = "own"
    BY <1>3 DEF NewClient
  <2> QED
    BY <2>1, <2>2, <2>3, <2>4
<1>6. client' = [client EXCEPT ![c] = cl] /\ client'[c] = cl /\ timer'[c] = "pending"
      /\ status'[c] = "failed"
  BY <1>1, <1>3, <1>4
<1>7. CallOK(c)'
  <2>1. Pending(c)' = 1
    BY <1>6 DEF Pending
  <2> QED
    BY <1>1, <1>2, <1>3, <1>5, <1>6, <2>1, BegunCall
<1>8. Resting(c)'
  BY <1>1, <1>3, <1>5, <1>6 DEF Resting, Queued
<1>9. m_stop_flag => m_is_looping
  BY DEF CallInv, LoopInv
<1> QED
  BY <1>1, <1>2, <1>3, <1>5, <1>6, <1>7, <1>8, <1>9, BegunInv

LEMMA ConnectsInv ==
  ASSUME CallInv, NEW c \in Calls, NEW k \in Controllers, CallConnects(c, k)
  PROVE  CallInv'
<1>1. /\ timer' = [timer EXCEPT ![c] = "pending"] /\ m_is_looping'
      /\ client' \in {[client EXCEPT ![c] = Connected(client[c])], [client EXCEPT ![c].interest = {"OUT"}]}
      /\ IF m_is_looping
         THEN status' = [status EXCEPT ![c] = "returned"] /\ UNCHANGED pc
         ELSE status' = [status EXCEPT ![c] = "looping"] /\ pc' = "check"
      /\ UNCHANGED <<m_stop_flag, batch, touched>>
  BY DEF CallConnects
<1>2. Begun(c, k, 0)
  <2>1. "OK" \in ErrorCodes /\ TypeOK /\ Shape /\ Begin(c, k, "OK")
    BY DEF ErrorCodes, CallInv, CallConnects
  <2>2. Begun(c, k, IF "OK" = "OK" THEN 0 ELSE 1)
    BY <2>1, BeginGoes
  <2> QED
    BY <2>2
<1>3. /\ client \in [Calls -> ClientType] /\ client[c] = NewClient
      /\ timer \in [Calls -> {"none", "pending", "canceled"}] /\ timer[c] = "none"
      /\ m_stop_flag \in BOOLEAN /\ m_is_looping \in BOOLEAN /\ batch \subseteq Ready /\ ~Queued(c)
      /\ status \in [Calls -> {"new", "looping", "looped", "failed", "returned"}]
      /\ m_is_looping => m_stop_flag
      /\ pc = "user" /\ status[c] = "new" /\ rpc'[c].answer = "none"
  BY <1>2, BegunFinds
<1>4. PICK cl \in {Connected(client[c]), [client[c] EXCEPT !.interest = {"OUT"}]} :
        client' = [client EXCEPT ![c] = cl]
  BY <1>1
<1>5. /\ cl \in ClientType /\ cl.fd = "own" /\ cl.interest = {"OUT"}
      /\ \/ cl.state = "NotConnected" /\ cl.onOut = "connect"
         \/ cl.state = "Connected" /\ cl.onOut = "write"
  <2>1. client[c] \in ClientType /\ client[c].fd = "own" /\ client[c].state = "NotConnected"
        /\ client[c].onOut = "connect"
    BY <1>3 DEF NewClient, ClientType
  <2>2. CASE cl = Connected(client[c])
    BY <2>1, <2>2, ClientRecords
  <2>3. CASE cl = [client[c] EXCEPT !.interest = {"OUT"}]
    BY <2>1, <2>3 DEF ClientType
  <2> QED
    BY <1>4, <2>2, <2>3
<1>6. client'[c] = cl /\ timer'[c] = "pending"
  BY <1>1, <1>3, <1>4
<1>7. PICK word \in {"looping", "returned"} :
        /\ status' = [status EXCEPT ![c] = word]
        /\ word = "looping" <=> ~m_is_looping
        /\ word = "looping" <=> pc' = "check"
        /\ pc' \in {"user", "check"}
  BY <1>1, <1>3
<1>8. CallOK(c)'
  <2>1. Pending(c)' = 1 /\ status'[c] # "new"
    BY <1>3, <1>6, <1>7 DEF Pending
  <2> QED
    BY <1>1, <1>2, <1>3, <1>5, <1>6, <2>1, BegunCall
<1>9. m_stop_flag => m_is_looping
  BY DEF CallInv, LoopInv
<1> QED
  BY <1>1, <1>2, <1>3, <1>4, <1>5, <1>7, <1>8, <1>9, BegunInv

-----------------------------------------------------------------------------
(* The invariant holds.                                                     *)

LEMMA InitInv == Init => CallInv
<1> SUFFICES ASSUME Init PROVE CallInv
  OBVIOUS
<1>1. TypeOK /\ Shape
  BY InitType
<1>2. /\ pc = "user" /\ ~m_is_looping /\ ~m_stop_flag /\ batch = {}
      /\ \A c \in Calls : /\ status[c] = "new" /\ client[c] = NewClient /\ timer[c] = "none"
                          /\ rpc[c].answer = "none" /\ rpc[c].done = 0
  BY DEF Init, NewCall
<1>3. LoopInv
  BY <1>2 DEF LoopInv, Resting, Queued, NewClient
<1>4. Stopped
  BY <1>2 DEF Stopped
<1>5. ASSUME NEW c \in Calls PROVE CallOK(c)
  <2>1. Idle(c) /\ ~Dialing(c) /\ Pending(c) = 0
    BY <1>2 DEF Idle, Dialing, Pending, Queued, NewClient
  <2>2. Counts(c)
    BY <1>2, <2>1 DEF Counts, Awaiting
  <2> QED
    BY <1>2, <2>1, <2>2 DEF CallOK, New, NewClient
<1> QED
  BY <1>1, <1>3, <1>4, <1>5 DEF CallInv

LEMMA StutterInv == CallInv /\ UNCHANGED vars => CallInv'
<1> SUFFICES ASSUME CallInv, UNCHANGED vars PROVE CallInv'
  OBVIOUS
<1>1. /\ UNCHANGED <<pc, m_is_looping, m_stop_flag, batch, status, client, timer, controller, rpc>>
      /\ UNCHANGED callVars
  BY DEF vars, loopVars, callVars
<1>2. /\ pc \in {"user", "check", "run", "wait"} /\ m_is_looping \in BOOLEAN /\ batch \subseteq Ready
      /\ status \in [Calls -> {"new", "looping", "looped", "failed", "returned"}]
      /\ LoopInv /\ Stopped
  BY TypeParts DEF CallInv
<1>3. TypeOK' /\ Shape' /\ \A c \in Calls : CallOK(c)'
  BY <1>1, <1>2, CallsStay
<1>4. LoopInv' /\ Stopped'
  BY <1>1, <1>2 DEF LoopInv, Resting, Queued, Stopped, Ended
<1> QED
  BY <1>3, <1>4 DEF CallInv

LEMMA NextInv == CallInv /\ [Next]_vars => CallInv'
<1> SUFFICES ASSUME CallInv, [Next]_vars PROVE CallInv'
  OBVIOUS
<1>1. ASSUME NEW k \in Controllers, Reset(k) \/ StartCancel(k) PROVE CallInv'
  BY <1>1, ResetInv
<1>2. ASSUME NEW k \in Controllers, NEW c \in Calls, CallMethod(c, k) PROVE CallInv'
  BY <1>2, RejectedInv, FailsAtOnceInv, ConnectsInv DEF CallMethod
<1>3. ASSUME NEW c \in Calls, CallUncontrolled(c) PROVE CallInv'
  BY <1>3, UncontrolledInv
<1>4. ASSUME NEW c \in Calls, OtherOpens(c) PROVE CallInv'
  BY <1>4, OtherOpensInv
<1>5. ASSUME CheckStop \/ BatchDone PROVE CallInv'
  BY <1>5, CheckStopInv, BatchDoneInv
<1>6. ASSUME NEW c \in Calls, OnConnected(c) \/ OnConnectFailed(c) \/ OnWrite(c) PROVE CallInv'
  BY <1>6, ConnectedInv, ConnectFailedInv, WriteInv
<1>7. ASSUME NEW c \in Calls, OnReadNothing(c) PROVE CallInv'
  <2>1. Take(Task("IN", c)) /\ Touch({c}) /\ UNCHANGED <<m_stop_flag, client, timer, controller, rpc>>
    BY <1>7 DEF OnReadNothing, Task
  <2> QED
    BY <2>1, NothingCallback
<1>8. ASSUME NEW c \in Calls, OnReadClosed(c) PROVE CallInv'
  BY <1>8, ReadClosedInv
<1>9. ASSUME NEW c \in Calls, NEW r \in rpc[c].replies, OnAnswer(c, r) \/ OnAnswerCanceled(c, r)
      PROVE  CallInv'
  BY <1>9, AnswerInv, AnswerCanceledInv
<1>10. ASSUME NEW D \in SUBSET Calls, OnTimer(D) PROVE CallInv'
  BY <1>10, TimerInv
<1>11. ASSUME NEW R \in SUBSET Ready, Wait(R) PROVE CallInv'
  BY <1>11, WaitInv
<1>12. CASE UNCHANGED vars
  BY <1>12, StutterInv
<1> QED
  BY <1>1, <1>2, <1>3, <1>4, <1>5, <1>6, <1>7, <1>8, <1>9, <1>10, <1>11, <1>12
  DEF Next, LoopStep, Run

LEMMA CallSafe == Spec => []CallInv
  BY InitInv, NextInv, PTL DEF Spec

-----------------------------------------------------------------------------
(* What follows from the invariant.                                         *)

(* The state of a client thread has its type, and no closure runs a third   *)
(* time: RpcChannel::CallMethod, TcpClient, the timer callback.             *)
THEOREM TypeCorrect == Spec => []TypeOK
  BY CallSafe, PTL DEF CallInv

(* Once its client is connected, the closure of a call runs at most once,   *)
(* whichever order the loop runs the answer's callback and the timeout's in.*)
THEOREM ConnectedOnce == Spec => []OnceIfConnected
<1>1. ASSUME CallInv, NEW c \in Calls, client[c].state # "NotConnected"
      PROVE  rpc[c].done <= 1
  BY <1>1 DEF CallInv, TypeOK, CallOK, Counts, Pending
<1>2. CallInv => OnceIfConnected
  BY <1>1 DEF OnceIfConnected
<1> QED
  BY <1>2, CallSafe, PTL

(* When CallMethod returns from the loop it ran, its closure has run and its*)
(* socket is closed, if no earlier call of the thread failed at once.       *)
THEOREM ReturnedDone == Spec => []ReturnsDone
<1>1. ASSUME CallInv, NEW c \in Calls, status[c] = "looped", \A o \in Calls : status[o] # "failed"
      PROVE  rpc[c].done >= 1 /\ client[c].fd # "own"
  BY <1>1 DEF CallInv, LoopInv, Stopped, Ended
<1>2. CallInv => ReturnsDone
  BY <1>1 DEF ReturnsDone
<1> QED
  BY <1>2, CallSafe, PTL

(* The peer's answer to a request that has left comes under the id that the *)
(* client waits for: encode has put that id into an empty one's place, and  *)
(* coding, dispatching, coding again and decoding all keep it.              *)
THEOREM AnswerMatched == Spec => []AnswerFound
<1>1. ASSUME CallInv, NEW c \in Calls, "IN" \in client[c].interest, rpc[c].answer = "none"
      PROVE  \E r \in rpc[c].replies : r.m_msg_id \in client[c].readCb
  <2>1. CallOK(c)
    BY <1>1 DEF CallInv
  <2>2. Asked(c) /\ Awaited(c) \in client[c].readCb
    BY <1>1, <2>1 DEF CallOK, Idle
  <2>3. Dispatch(Sent(rpc[c].request)) \in rpc[c].replies
    BY <2>2, RepliesAre DEF Asked
  <2> QED
    BY <2>2, <2>3, RepliesFit
<1>2. CallInv => AnswerFound
  BY <1>1 DEF AnswerFound
<1> QED
  BY <1>2, CallSafe, PTL

-----------------------------------------------------------------------------
(* What a step changes.                                                     *)

LEMMA OnceMore ==
  ASSUME NEW q, CallType(q)
  PROVE  [q EXCEPT !.done = q.done + 1].answer = q.answer /\ [q EXCEPT !.done = q.done + 1] # q
<1>1. q.done \in Nat
  BY DEF CallType
<1>2. [q EXCEPT !.done = q.done + 1] =
        [request |-> q.request, controller |-> q.controller, replies |-> q.replies,
         response |-> q.response, answer |-> q.answer, done |-> q.done + 1]
  BY DEF CallType, Full
<1>3. q.done + 1 # q.done
  BY <1>1
<1> QED
  BY <1>2, <1>3

(* Who changes a call: its beginning, its failed connect, its timeout, its  *)
(* answer.                                                                  *)
LEMMA CallChanges ==
  ASSUME CallInv, Next, NEW c \in Calls
  PROVE  \/ rpc'[c] = rpc[c]
         \/ status[c] = "new" /\ rpc'[c].answer = rpc[c].answer
         \/ client[c].onOut = "connect" /\ rpc'[c].answer = rpc[c].answer
         \/ timer[c] = "pending" /\ rpc'[c].answer = rpc[c].answer
         \/ rpc[c].answer = "none" /\ rpc'[c].answer = "ignored"
         \/ \E r \in rpc[c].replies : OnAnswer(c, r)
<1>1. RpcType(rpc) /\ \A d \in Calls : CallType(rpc[d])
  BY TypeParts DEF CallInv, RpcType
<1>2. ASSUME NEW d \in Calls, NEW q, rpc' = [rpc EXCEPT ![d] = q]
      PROVE  rpc'[d] = q /\ (c # d => rpc'[c] = rpc[c])
  BY <1>1, <1>2 DEF RpcType
<1>3. ASSUME UNCHANGED rpc PROVE rpc'[c] = rpc[c]
  BY <1>3
<1>4. ASSUME NEW k \in Controllers, Reset(k) \/ StartCancel(k) PROVE rpc'[c] = rpc[c]
  BY <1>4 DEF Reset, StartCancel, User
<1>5. ASSUME NEW k \in Controllers, NEW d \in Calls, CallMethod(d, k)
      PROVE  rpc'[c] = rpc[c] \/ (status[c] = "new" /\ rpc'[c].answer = rpc[c].answer)
  <2>1. PICK err \in ErrorCodes : Begin(d, k, err)
    BY <1>5 DEF CallMethod, CallRejected, CallFailsAtOnce, CallConnects, ErrorCodes
  <2>2. Begun(d, k, IF err = "OK" THEN 0 ELSE 1)
    BY <2>1, BeginGoes DEF CallInv
  <2> QED
    BY <2>2 DEF Begun
<1>6. ASSUME NEW d \in Calls, CallUncontrolled(d) \/ OtherOpens(d) PROVE rpc'[c] = rpc[c]
  BY <1>6 DEF CallUncontrolled, OtherOpens
<1>7. ASSUME CheckStop \/ BatchDone PROVE rpc'[c] = rpc[c]
  BY <1>7 DEF CheckStop, BatchDone, callVars
<1>8. ASSUME NEW R \in SUBSET Ready, Wait(R) PROVE rpc'[c] = rpc[c]
  BY <1>8 DEF Wait, callVars
<1>9. ASSUME NEW d \in Calls, OnConnected(d) \/ OnWrite(d) \/ OnReadNothing(d) \/ OnReadClosed(d)
      PROVE  rpc'[c] = rpc[c]
  BY <1>9 DEF OnConnected, OnWrite, OnReadNothing, OnReadClosed
<1>10. ASSUME NEW d \in Calls, OnConnectFailed(d)
       PROVE  rpc'[c] = rpc[c] \/ (client[c].onOut = "connect" /\ rpc'[c].answer = rpc[c].answer)
  <2>1. PICK err : Finish(d, err)
    BY <1>10 DEF OnConnectFailed
  <2>2. rpc' = [rpc EXCEPT ![d] = [rpc[d] EXCEPT !.done = rpc[d].done + 1]]
    BY <1>1, <2>1 DEF Finish, RpcType, CallType, Full
  <2>3. [rpc[d] EXCEPT !.done = rpc[d].done + 1].answer = rpc[d].answer
    BY <1>1, OnceMore
  <2>4. client[d].onOut = "connect"
    BY <1>10 DEF OnConnectFailed
  <2> QED
    BY <1>2, <2>2, <2>3, <2>4
<1>11. ASSUME NEW d \in Calls, NEW r \in rpc[d].replies, OnAnswer(d, r)
       PROVE  rpc'[c] = rpc[c] \/ \E s \in rpc[c].replies : OnAnswer(c, s)
  <2>1. CASE c = d
    BY <1>11, <2>1
  <2>2. CASE c # d
    <3>1. rpc[d].done = 0 /\ Take(Task("IN", d)) /\ Deliver(d, r)
      BY <1>11, AnsweredFinds DEF OnAnswer
    <3>2. rpc[d].done + 1 \in 0..2 /\ Asked(d) /\ TypeOK /\ Shape
      BY <3>1, CallbackFinds DEF CallInv
    <3> QED
      BY <2>2, <3>1, <3>2, DeliverGoes
  <2> QED
    BY <2>1, <2>2
<1>12. ASSUME NEW d \in Calls, NEW r \in rpc[d].replies, OnAnswerCanceled(d, r)
       PROVE  rpc'[c] = rpc[c] \/ (rpc[c].answer = "none" /\ rpc'[c].answer = "ignored")
  <2>1. rpc' = [rpc EXCEPT ![d] = [rpc[d] EXCEPT !.answer = "ignored"]]
    BY <1>1, <1>12 DEF OnAnswerCanceled, RpcType, CallType, Full
  <2>2. [rpc[d] EXCEPT !.answer = "ignored"].answer = "ignored"
    BY <1>1 DEF CallType, Full
  <2>3. rpc[d].answer = "none"
    BY <1>12, AnsweredFinds DEF OnAnswerCanceled
  <2> QED
    BY <1>2, <2>1, <2>2, <2>3
<1>13. ASSUME NEW D \in SUBSET Calls, OnTimer(D)
       PROVE  rpc'[c] = rpc[c] \/ (timer[c] = "pending" /\ rpc'[c].answer = rpc[c].answer)
  <2> DEFINE late == {d \in D : timer[d] = "pending"}
  <2>1. rpc' = [d \in Calls |-> IF d \in late THEN [rpc[d] EXCEPT !.done = @ + 1] ELSE rpc[d]]
    BY <1>13 DEF OnTimer, TimeOut
  <2>2. rpc'[c] = IF c \in late THEN [rpc[c] EXCEPT !.done = @ + 1] ELSE rpc[c]
    <3> HIDE DEF late
    <3> QED
      BY <2>1
  <2>3. [rpc[c] EXCEPT !.done = rpc[c].done + 1].answer = rpc[c].answer
    BY <1>1, OnceMore
  <2> QED
    BY <2>2, <2>3
<1> QED
  BY <1>4, <1>5, <1>6, <1>7, <1>8, <1>9, <1>10, <1>11, <1>12, <1>13 DEF Next, LoopStep, Run

(* Who changes a controller: the user, or a call made with it that ends.    *)
LEMMA ControllerChanges ==
  ASSUME CallInv, Next, NEW k \in Controllers
  PROVE  \/ controller'[k] = controller[k] \/ pc = "user"
         \/ \E d \in Calls : rpc[d].controller = k /\ rpc'[d] # rpc[d]
<1> SUFFICES ASSUME pc # "user", controller'[k] # controller[k]
             PROVE  \E d \in Calls : rpc[d].controller = k /\ rpc'[d] # rpc[d]
  OBVIOUS
<1>1. /\ RpcType(rpc) /\ controller \in [Controllers -> ControllerType]
      /\ \A d \in Calls : CallType(rpc[d]) /\ rpc[d].done \in Nat
  <2>1. RpcType(rpc) /\ controller \in [Controllers -> ControllerType]
    BY TypeParts DEF CallInv
  <2> QED
    BY <2>1 DEF RpcType, CallType
<1>2. controller' # controller
  OBVIOUS
<1>3. ASSUME NEW d \in Calls, OnConnectFailed(d) PROVE rpc[d].controller = k /\ rpc'[d] # rpc[d]
  <2>1. PICK err : Finish(d, err)
    BY <1>3 DEF OnConnectFailed
  <2>2. rpc' = [rpc EXCEPT ![d] = [rpc[d] EXCEPT !.done = rpc[d].done + 1]]
    BY <1>1, <2>1 DEF Finish, RpcType, CallType, Full
  <2>3. [rpc[d] EXCEPT !.done = rpc[d].done + 1] # rpc[d]
    BY <1>1, OnceMore
  <2>4. rpc'[d] # rpc[d]
    BY <1>1, <2>2, <2>3 DEF RpcType
  <2> QED
    BY <1>1, <2>1, <2>4 DEF Finish
<1>4. ASSUME NEW d \in Calls, NEW r \in rpc[d].replies, OnAnswer(d, r)
      PROVE  rpc[d].controller = k /\ rpc'[d] # rpc[d]
  <2>1. rpc[d].done = 0 /\ Take(Task("IN", d)) /\ Deliver(d, r) /\ rpc[d].answer = "none"
    BY <1>4, AnsweredFinds DEF OnAnswer
  <2>2. rpc[d].done + 1 \in 0..2 /\ Asked(d) /\ TypeOK /\ Shape
    BY <2>1, CallbackFinds DEF CallInv
  <2>3. rpc'[d].answer = "taken"
        /\ controller' = [controller EXCEPT ![rpc[d].controller] = Outcome(@, r)]
    BY <2>1, <2>2, DeliverGoes
  <2> QED
    BY <1>1, <2>1, <2>3
<1>5. ASSUME NEW D \in SUBSET Calls, OnTimer(D)
      PROVE  \E d \in Calls : rpc[d].controller = k /\ rpc'[d] # rpc[d]
  <2> DEFINE late == {d \in D : timer[d] = "pending"}
  <2>1. late \in SUBSET Calls /\ TimeOut(late)
    BY <1>5 DEF OnTimer
  <2> HIDE DEF late
  <2>2. rpc' = [d \in Calls |-> IF d \in late THEN [rpc[d] EXCEPT !.done = @ + 1] ELSE rpc[d]]
    BY <2>1 DEF TimeOut
  <2>3. PICK d \in late : rpc[d].controller = k
    <3>1. controller'[k] = IF \E c \in late : rpc[c].controller = k
                           THEN [SetError(controller[k], "SYS_RPC_CALL_TIMEOUT") EXCEPT !.m_is_canceled = TRUE]
                           ELSE controller[k]
      BY <2>1 DEF TimeOut
    <3> QED
      BY <3>1
  <2>4. d \in Calls /\ rpc'[d] = [rpc[d] EXCEPT !.done = rpc[d].done + 1]
    BY <2>1, <2>2
  <2>5. [rpc[d] EXCEPT !.done = rpc[d].done + 1] # rpc[d]
    BY <1>1, <2>4, OnceMore
  <2> QED
    BY <2>3, <2>4, <2>5
<1>6. ASSUME NEW d \in Calls,
             \/ OnConnected(d) \/ OnWrite(d) \/ OnReadNothing(d) \/ OnReadClosed(d)
             \/ \E r \in rpc[d].replies : OnAnswerCanceled(d, r)
      PROVE  FALSE
  BY <1>2, <1>6 DEF OnConnected, OnWrite, OnReadNothing, OnReadClosed, OnAnswerCanceled
<1>7. ASSUME CheckStop \/ BatchDone \/ \E R \in SUBSET Ready : Wait(R) PROVE FALSE
  BY <1>2, <1>7 DEF CheckStop, BatchDone, Wait, callVars
<1>8. ASSUME NEW d \in Calls, CallUncontrolled(d) \/ OtherOpens(d) PROVE FALSE
  BY <1>2, <1>8 DEF CallUncontrolled, OtherOpens
<1>9. ASSUME NEW j \in Controllers, NEW d \in Calls, CallMethod(d, j) PROVE FALSE
  BY <1>9 DEF CallMethod, CallRejected, CallFailsAtOnce, CallConnects, Begin
<1>10. ASSUME NEW j \in Controllers, Reset(j) \/ StartCancel(j) PROVE FALSE
  BY <1>10 DEF Reset, StartCancel, User
<1> QED
  BY <1>3, <1>4, <1>5, <1>6, <1>7, <1>8, <1>9, <1>10 DEF Next, LoopStep, Run

-----------------------------------------------------------------------------
(* What a step may never do.                                                *)

LEMMA TakenIs ==
  ASSUME CallInv, NEW c \in Calls, rpc[c].answer = "taken"
  PROVE  /\ Asked(c) /\ client[c].onOut # "connect" /\ timer[c] # "pending" /\ status[c] # "new"
<1>1. CallOK(c)
  BY DEF CallInv
<1>2. client[c].state # "NotConnected"
  BY <1>1 DEF CallOK
<1> QED
  BY <1>1, <1>2 DEF CallOK, New, Idle, Counts

(* The answer a call has been given is final: neither a late timeout nor    *)
(* the end of its connect nor another answer changes its response or runs   *)
(* its closure again, and its controller is changed only by the user or by  *)
(* another call made with it.                                               *)
THEOREM AnswerKept == Spec => AnswerFinal
<1>1. ASSUME CallInv, [Next]_vars, NEW c \in Calls, rpc[c].answer = "taken"
      PROVE  /\ rpc'[c] = rpc[c]
             /\ LET k == rpc[c].controller IN
                \/ controller'[k] = controller[k]
                \/ pc = "user"
                \/ \E d \in Calls \ {c} : rpc[d].controller = k
  <2>1. CASE UNCHANGED vars
    BY <2>1 DEF vars
  <2>2. CASE Next
    <3>1. Asked(c) /\ client[c].onOut # "connect" /\ timer[c] # "pending" /\ status[c] # "new"
      BY <1>1, TakenIs
    <3>2. ASSUME NEW r \in rpc[c].replies, OnAnswer(c, r) PROVE FALSE
      BY <1>1, <3>2 DEF OnAnswer, Answered
    <3>3. rpc'[c] = rpc[c]
      BY <1>1, <2>2, <3>1, <3>2, CallChanges
    <3>4. rpc[c].controller \in Controllers
      BY <3>1 DEF Asked
    <3>5. \/ controller'[rpc[c].controller] = controller[rpc[c].controller] \/ pc = "user"
          \/ \E d \in Calls : rpc[d].controller = rpc[c].controller /\ rpc'[d] # rpc[d]
      BY <1>1, <2>2, <3>4, ControllerChanges
    <3> QED
      BY <3>3, <3>5
  <2> QED
    BY <1>1, <2>1, <2>2
<1>2. CallInv /\ [Next]_vars =>
        [\A c \in Calls : rpc[c].answer = "taken" =>
           /\ rpc'[c] = rpc[c]
           /\ LET k == rpc[c].controller IN
              \/ controller'[k] = controller[k]
              \/ pc = "user"
              \/ \E d \in Calls \ {c} : rpc[d].controller = k]_vars
  BY <1>1
<1> QED
  BY <1>2, CallSafe, PTL DEF Spec, AnswerFinal

(* The thread uses a number it no longer owns only after its peer had closed*)
(* the connection or once the loop has been stopped, by callbacks left in   *)
(* its last batch.                                                          *)
THEOREM TouchesOwnOnly == Spec => TouchesOwn
<1>1. ASSUME CallInv, [Next]_vars, NEW c \in touched' \ touched
      PROVE  client[c].state = "Closed" \/ m_stop_flag
  <2>1. PICK C \in SUBSET Calls : Touch(C)
    <3>1. touched' # touched
      BY <1>1
    <3>2. ASSUME NEW D \in SUBSET Calls, OnTimer(D) PROVE \E C \in SUBSET Calls : Touch(C)
      <4>1. {d \in D : timer[d] = "pending"} \in SUBSET Calls
            /\ Touch({d \in D : timer[d] = "pending"})
        BY <3>2 DEF OnTimer
      <4> QED
        BY <4>1
    <3>3. ASSUME NEW d \in Calls,
                 OnConnected(d) \/ OnConnectFailed(d) \/ OnWrite(d) \/ OnReadNothing(d) \/ OnReadClosed(d)
          PROVE  \E C \in SUBSET Calls : Touch(C)
      BY <3>3 DEF OnConnected, OnConnectFailed, OnWrite, OnReadNothing, OnReadClosed
    <3>4. ASSUME NEW d \in Calls,
                 \/ \E r \in rpc[d].replies : OnAnswer(d, r) \/ OnAnswerCanceled(d, r)
                 \/ CallUncontrolled(d) \/ OtherOpens(d)
          PROVE  FALSE
      BY <3>1, <3>4 DEF OnAnswer, OnAnswerCanceled, CallUncontrolled, OtherOpens
    <3>5. ASSUME NEW k \in Controllers,
                 \/ Reset(k) \/ StartCancel(k) \/ \E d \in Calls : CallMethod(d, k)
          PROVE  FALSE
      BY <3>1, <3>5 DEF Reset, StartCancel, User, CallMethod, CallRejected, CallFailsAtOnce,
                        CallConnects
    <3>6. ASSUME CheckStop \/ BatchDone \/ \E R \in SUBSET Ready : Wait(R) PROVE FALSE
      BY <3>1, <3>6 DEF CheckStop, BatchDone, Wait, callVars
    <3>7. Next
      BY <1>1, <3>1 DEF vars
    <3> QED
      BY <3>2, <3>3, <3>4, <3>5, <3>6, <3>7 DEF Next, LoopStep, Run
  <2>2. c \in Calls /\ client[c].fd = "other"
    BY <1>1, <2>1 DEF Touch
  <2> QED
    BY <1>1, <2>2 DEF CallInv, CallOK
<1>2. CallInv /\ [Next]_vars =>
        [\A c \in touched' \ touched : client[c].state = "Closed" \/ m_stop_flag]_vars
  BY <1>1
<1> QED
  BY <1>2, CallSafe, PTL DEF Spec, TouchesOwn

(* What the services have for a request, said of one of them.               *)
LEMMA ResultsAre ==
  ASSUME NEW msg, IsMessage(msg), NEW data
  PROVE  data \in Results(msg) <=>
           \E i \in 1..Len(Registered) : \E m \in DOMAIN Registered[i].methods :
             Serves(i, m, Sent(msg)) /\ data = Result(i, m, Sent(msg))
<1>1. Sent(msg).m_method_name = msg.m_method_name /\ Sent(msg).m_pb_data = msg.m_pb_data
  BY RepliesAre
<1>2. data \in Results(msg) <=>
        \E i \in 1..Len(Registered) : IsLast(i) /\ data \in Computed(Registered[i], msg)
  BY DEF Results, LastRegistered, IsLast
<1>3. ASSUME NEW i \in 1..Len(Registered)
      PROVE  IsLast(i) /\ data \in Computed(Registered[i], msg) <=>
               \E m \in DOMAIN Registered[i].methods :
                 Serves(i, m, Sent(msg)) /\ data = Result(i, m, Sent(msg))
  <2>1. \A m \in DOMAIN Registered[i].methods :
          /\ Serves(i, m, Sent(msg)) <=>
               /\ IsLast(i) /\ Registered[i].full_name \o <<".">> \o m = msg.m_method_name
               /\ msg.m_pb_data \in DOMAIN Registered[i].methods[m]
          /\ Result(i, m, Sent(msg)) = Registered[i].methods[m][msg.m_pb_data]
    BY <1>1 DEF Serves, Result
  <2>2. data \in Computed(Registered[i], msg) <=>
          \E m \in DOMAIN Registered[i].methods :
            /\ Registered[i].full_name \o <<".">> \o m = msg.m_method_name
            /\ msg.m_pb_data \in DOMAIN Registered[i].methods[m]
            /\ data = Registered[i].methods[m][msg.m_pb_data]
    BY DEF Computed
  <2> QED
    BY <2>1, <2>2
<1> QED
  BY <1>2, <1>3

(* An answer without an error carries what a service computes for the       *)
(* call's own request; and what a service computes comes back without an    *)
(* error, unless its name has a package or it serialises to nothing.        *)
THEOREM AnswerRight == Spec => AnsweredRight
<1>1. ASSUME CallInv, [Next]_vars, NEW c \in Calls, rpc[c].answer # "taken", rpc'[c].answer = "taken"
      PROVE  LET k == rpc[c].controller
                 results == Results(rpc[c].request)
             IN /\ ~controller'[k].m_is_failed => rpc'[c].response \in results
                /\ results \ (Unreadable \cup {<<>>}) # {} /\ ~InPackage(rpc[c].request)
                     => controller'[k] = controller[k]
  <2> DEFINE k == rpc[c].controller
             msg == rpc[c].request
  <2>1. PICK r \in rpc[c].replies : OnAnswer(c, r)
    <3>1. Next
      BY <1>1 DEF vars
    <3> QED
      BY <1>1, <3>1, CallChanges
  <2>2. rpc[c].done = 0 /\ Take(Task("IN", c)) /\ Deliver(c, r) /\ TypeOK /\ Shape
    BY <1>1, <2>1, AnsweredFinds DEF OnAnswer, CallInv
  <2>3. Asked(c) /\ rpc[c].done + 1 \in 0..2 /\ k \in Controllers /\ IsMessage(msg)
        /\ controller \in [Controllers -> ControllerType]
    BY <1>1, <2>2, CallbackFinds DEF Asked
  <2>4. /\ r.m_err_code = "OK" => rpc'[c].response = r.m_pb_data
        /\ controller' = [controller EXCEPT ![k] = Outcome(@, r)]
    BY <2>2, <2>3, DeliverGoes
  <2>5. controller'[k] = Outcome(controller[k], r) /\ controller[k] \in ControllerType
    <3> HIDE DEF k, ControllerType
    <3> QED
      BY <2>3, <2>4
  <2>6. r = Dispatch(Sent(msg)) /\ IsMessage(Sent(msg))
        /\ Sent(msg).m_method_name = msg.m_method_name
    BY <2>3, RepliesFit, RepliesAre
  <2>7. ASSUME ~controller'[k].m_is_failed PROVE rpc'[c].response \in Results(msg)
    <3>1. r.m_err_code = "OK"
      BY <2>5, <2>7 DEF Outcome, SetError, ControllerType
    <3>2. \E i \in 1..Len(Registered) : \E m :
            Serves(i, m, Sent(msg)) /\ r.m_pb_data = Result(i, m, Sent(msg))
      BY <2>6, <3>1, DispatchIs
    <3>3. \E i \in 1..Len(Registered) : \E m \in DOMAIN Registered[i].methods :
            Serves(i, m, Sent(msg)) /\ r.m_pb_data = Result(i, m, Sent(msg))
      BY <3>2 DEF Serves
    <3> HIDE DEF msg
    <3> QED
      BY <2>3, <2>4, <3>1, <3>3, ResultsAre
  <2>8. ASSUME NEW data \in Results(msg) \ (Unreadable \cup {<<>>}), ~InPackage(msg)
        PROVE  controller'[k] = controller[k]
    <3> HIDE DEF msg, k
    <3>1. PICK i \in 1..Len(Registered) : \E m \in DOMAIN Registered[i].methods :
            Serves(i, m, Sent(msg)) /\ data = Result(i, m, Sent(msg))
      BY <2>3, <2>8, ResultsAre
    <3>2. Cardinality(Dots(Sent(msg).m_method_name)) <= 1
      <4>1. IsString(msg.m_method_name)
        BY <2>3 DEF IsMessage
      <4>2. Cardinality(Dots(msg.m_method_name)) \in Nat
        BY <4>1, DotsType, FS_CardinalityType
      <4> QED
        BY <2>6, <2>8, <4>2 DEF InPackage
    <3>3. r.m_err_code = "OK" /\ r.m_pb_data = data
      BY <2>6, <2>8, <3>1, <3>2, DispatchFinds
    <3> QED
      BY <2>5, <2>8, <3>3 DEF Outcome
  <2> QED
    BY <2>7, <2>8
<1>2. CallInv /\ [Next]_vars =>
        [\A c \in Calls : rpc[c].answer # "taken" /\ rpc'[c].answer = "taken" =>
           LET k == rpc[c].controller
               results == Results(rpc[c].request)
           IN /\ ~controller'[k].m_is_failed => rpc'[c].response \in results
              /\ results \ (Unreadable \cup {<<>>}) # {} /\ ~InPackage(rpc[c].request)
                   => controller'[k] = controller[k]]_vars
  BY <1>1
<1> QED
  BY <1>2, CallSafe, PTL DEF Spec, AnsweredRight

-----------------------------------------------------------------------------
(* The ids count up.                                                        *)

(* A nonempty set of indices has a greatest one.                            *)
LEMMA MaxIs ==
  ASSUME NEW n \in Nat, NEW s \in SUBSET (1..n), s # {}
  PROVE  Max(s) \in s /\ \A y \in s : y <= Max(s)
<1>1. PICK k \in s : \A y \in s : y <= k
  BY GreatestNumber
<1>2. \A y \in s : k >= y
  <2>1. k \in Int /\ \A y \in s : y \in Int
    OBVIOUS
  <2> QED
    BY <1>1, <2>1
<1>3. Max(s) \in s /\ \A y \in s : Max(s) >= y
  BY <1>1, <1>2 DEF Max
<1>4. Max(s) \in Int /\ \A y \in s : y \in Int
  <2>1. \A y \in s : y \in Int
    OBVIOUS
  <2> QED
    BY <1>3, <2>1
<1> QED
  BY <1>3, <1>4

(* The recursion of FoldLeft: folded[s] is the value of the digits at s.    *)
FoldsTo(folded, no, n) ==
  folded = [s \in SUBSET (1..n) |->
              IF s = {} THEN 0 ELSE folded[s \ {Max(s)}] * Base + no[Max(s)]]

LEMMA FoldsExists ==
  ASSUME NEW no, NEW n \in Nat
  PROVE  \E folded : FoldsTo(folded, no, n)
<1> DEFINE Bad == {m \in Nat : ~ \E folded : FoldsTo(folded, no, m)}
<1> SUFFICES ASSUME Bad # {} PROVE FALSE
  OBVIOUS
<1>1. PICK m \in Bad : \A j \in Bad : m <= j
  <2>1. Bad \in SUBSET Nat
    OBVIOUS
  <2> HIDE DEF Bad
  <2> QED
    BY <2>1, LeastNumber
<1>2. m \in Nat /\ ~ \E folded : FoldsTo(folded, no, m)
  OBVIOUS
<1>3. CASE m = 0
  <2> DEFINE f == [s \in SUBSET (1..0) |-> 0]
  <2>1. \A s \in SUBSET (1..0) : s = {}
    OBVIOUS
  <2>2. f = [s \in SUBSET (1..0) |-> IF s = {} THEN 0 ELSE f[s \ {Max(s)}] * Base + no[Max(s)]]
    BY <2>1
  <2> HIDE DEF f
  <2>3. FoldsTo(f, no, 0)
    BY <2>2 DEF FoldsTo
  <2> QED
    BY <1>2, <1>3, <2>3
<1>4. CASE m # 0
  <2>1. m - 1 \in Nat /\ m - 1 \notin Bad
    BY <1>1, <1>2, <1>4
  <2>2. PICK f : FoldsTo(f, no, m - 1)
    BY <2>1
  <2>3. \A s \in SUBSET (1..m - 1) :
          f[s] = IF s = {} THEN 0 ELSE f[s \ {Max(s)}] * Base + no[Max(s)]
    BY <2>2 DEF FoldsTo
  <2> DEFINE g == [s \in SUBSET (1..m) |-> IF m \in s THEN f[s \ {m}] * Base + no[m] ELSE f[s]]
  <2>4. ASSUME NEW s \in SUBSET (1..m)
        PROVE  g[s] = IF s = {} THEN 0 ELSE g[s \ {Max(s)}] * Base + no[Max(s)]
    <3>1. CASE m \in s
      <4>1. Max(s) = m
        <5>1. Max(s) \in s /\ m <= Max(s)
          BY <1>2, <3>1, MaxIs
        <5>2. Max(s) \in 1..m
          BY <5>1
        <5> QED
          BY <1>2, <5>1, <5>2
      <4>2. s \ {m} \in SUBSET (1..m) /\ m \notin s \ {m} /\ s # {}
        BY <3>1
      <4>3. g[s \ {m}] = f[s \ {m}]
        BY <4>2
      <4>4. g[s] = f[s \ {m}] * Base + no[m]
        BY <3>1
      <4> HIDE DEF g
      <4> QED
        BY <4>1, <4>2, <4>3, <4>4
    <3>2. CASE m \notin s
      <4>1. s \in SUBSET (1..m - 1)
        BY <1>2, <3>2
      <4>2. g[s] = f[s]
        BY <3>2
      <4>3. CASE s = {}
        BY <2>3, <4>1, <4>2, <4>3
      <4>4. CASE s # {}
        <5>1. s \ {Max(s)} \in SUBSET (1..m) /\ m \notin s \ {Max(s)}
          BY <3>2
        <5>2. g[s \ {Max(s)}] = f[s \ {Max(s)}]
          BY <5>1
        <5> HIDE DEF g
        <5> QED
          BY <2>3, <4>1, <4>2, <4>4, <5>2
      <4> QED
        BY <4>3, <4>4
    <3> QED
      BY <3>1, <3>2
  <2>5. g = [s \in SUBSET (1..m) |-> IF s = {} THEN 0 ELSE g[s \ {Max(s)}] * Base + no[Max(s)]]
    <3> DEFINE h == [s \in SUBSET (1..m) |->
                       IF s = {} THEN 0 ELSE g[s \ {Max(s)}] * Base + no[Max(s)]]
    <3>1. \A s \in SUBSET (1..m) : h[s] = g[s]
      BY <2>4
    <3>2. g = [s \in SUBSET (1..m) |-> g[s]] /\ h = [s \in SUBSET (1..m) |-> h[s]]
      OBVIOUS
    <3> HIDE DEF g, h
    <3>3. g = h
      BY <3>1, <3>2
    <3> QED
      BY <3>3 DEF h
  <2> HIDE DEF g
  <2> QED
    BY <1>2, <2>5 DEF FoldsTo
<1> QED
  BY <1>3, <1>4

(* The value of an id, digit by digit: value[i] is that of its first i.     *)
Evaluates(value, no) ==
  /\ value[0] = 0
  /\ \A i \in 0..IdLength - 1 : value[i + 1] = value[i] * Base + no[i + 1]
  /\ \A i \in 0..IdLength : value[i] \in Int
  /\ Value(no) = value[IdLength]

LEMMA ValueIs ==
  ASSUME NEW no \in Ids
  PROVE  \E value : Evaluates(value, no)
<1> DEFINE f == CHOOSE folded : FoldsTo(folded, no, IdLength)
           value == [i \in 0..IdLength |-> f[1..i]]
<1>1. DOMAIN no = 1..IdLength /\ IdLength \in Nat \ {0} /\ Base \in Nat
      /\ \A i \in 1..IdLength : no[i] \in Nat
  BY IdLengthAssumption, BaseAssumption DEF Ids
<1>2. FoldsTo(f, no, IdLength)
  BY <1>1, FoldsExists
<1>3. Value(no) = f[1..IdLength]
  <2>1. Value(no) = (CHOOSE folded : folded = [s \in SUBSET (DOMAIN no) |->
          IF s = {} THEN 0 ELSE folded[s \ {Max(s)}] * Base + no[Max(s)]])[DOMAIN no]
    BY DEF Value, FoldLeft, MapThenFoldSet
  <2> QED
    BY <1>1, <2>1 DEF FoldsTo
<1> HIDE DEF f
<1>4. \A s \in SUBSET (1..IdLength) :
        f[s] = IF s = {} THEN 0 ELSE f[s \ {Max(s)}] * Base + no[Max(s)]
  BY <1>2 DEF FoldsTo
<1>5. value[0] = 0
  <2>1. 1..0 = {} /\ {} \in SUBSET (1..IdLength) /\ 0 \in 0..IdLength
    BY <1>1
  <2>2. value[0] = f[1..0]
    BY <2>1
  <2> QED
    BY <1>4, <2>1, <2>2
<1>6. ASSUME NEW i \in 0..IdLength - 1
      PROVE  value[i + 1] = value[i] * Base + no[i + 1]
  <2>1. PICK j : j = i + 1
    OBVIOUS
  <2>2. j \in 1..IdLength /\ j \in 0..IdLength /\ i \in 0..IdLength /\ i \in Nat
    BY <1>1, <2>1
  <2>3. 1..j \in SUBSET (1..IdLength) /\ 1..j # {} /\ j \in 1..j
    <3>1. IdLength \in Nat /\ j \in Nat /\ j >= 1 /\ j <= IdLength
      BY <1>1, <2>2
    <3>2. \A x \in 1..j : x \in 1..IdLength
      BY <3>1
    <3>3. j \in 1..j
      BY <3>1
    <3> QED
      BY <3>2, <3>3
  <2>4. Max(1..j) = j
    <3>1. Max(1..j) \in 1..j /\ j <= Max(1..j)
      BY <1>1, <2>3, MaxIs
    <3> QED
      BY <2>2, <3>1
  <2>5. (1..j) \ {j} = 1..i
    BY <2>1, <2>2
  <2>6. value[j] = f[1..j] /\ value[i] = f[1..i]
    BY <2>2
  <2>7. f[1..j] = f[(1..j) \ {Max(1..j)}] * Base + no[Max(1..j)]
    BY <1>4, <2>3
  <2>8. value[j] = value[i] * Base + no[j]
    <3> HIDE DEF value
    <3> QED
      BY <2>4, <2>5, <2>6, <2>7
  <2> HIDE DEF value
  <2> QED
    BY <2>1, <2>8
<1> HIDE DEF value
<1>7. ASSUME NEW k \in 0..IdLength, value[k] \notin Int PROVE FALSE
  <2> DEFINE Bad == {i \in 0..IdLength : value[i] \notin Int}
  <2>1. PICK m \in Bad : \A j \in Bad : m <= j
    <3>1. Bad \in SUBSET Nat /\ Bad # {}
      BY <1>1, <1>7
    <3> HIDE DEF Bad
    <3> QED
      BY <3>1, LeastNumber
  <2>2. m \in 0..IdLength /\ m # 0 /\ value[m] \notin Int
    BY <1>5
  <2>3. m - 1 \in 0..IdLength - 1 /\ m - 1 \in 0..IdLength /\ m - 1 + 1 = m /\ m \in 1..IdLength
    BY <1>1, <2>2
  <2>4. m - 1 \notin Bad
    BY <2>1, <2>3
  <2>5. value[m - 1] \in Int /\ value[m] = value[m - 1] * Base + no[m]
    BY <1>6, <2>3, <2>4
  <2> QED
    BY <1>1, <2>2, <2>3, <2>5
<1>8. Value(no) = value[IdLength]
  BY <1>1, <1>3 DEF value
<1> QED
  BY <1>5, <1>6, <1>7, <1>8 DEF Evaluates

(* An id that is not the last one has the next value behind it.             *)
LEMMA CountsUp ==
  ASSUME NEW no \in Ids, no # MaxId
  PROVE  Value(Increment(no)) = Value(no) + 1
<1>1. PICK p \in 1..IdLength :
        /\ \A j \in p + 1..IdLength : no[j] = Base - 1
        /\ Increment(no) = [i \in 1..IdLength |->
                              IF i < p THEN no[i] ELSE IF i = p THEN no[i] + 1 ELSE 0]
        /\ Increment(no) \in Ids
  BY IncrementIs
<1>2. /\ IdLength \in Nat \ {0} /\ Base \in Int /\ \A i \in 1..IdLength : no[i] \in Int
  BY IdLengthAssumption, BaseAssumption DEF Ids
<1>3. PICK v : Evaluates(v, no)
  BY ValueIs
<1>4. PICK w : Evaluates(w, Increment(no))
  BY <1>1, ValueIs
<1> DEFINE Right(i) == w[i] = IF i < p THEN v[i] ELSE v[i] + 1
           Bad == {i \in 0..IdLength : ~Right(i)}
<1>5. ASSUME Bad # {} PROVE FALSE
  <2>1. PICK m \in Bad : \A j \in Bad : m <= j
    <3>1. Bad \in SUBSET Nat
      BY <1>2
    <3> HIDE DEF Bad
    <3> QED
      BY <1>5, <3>1, LeastNumber
  <2>2. m \in 0..IdLength /\ ~Right(m)
    OBVIOUS
  <2>3. m # 0
    BY <1>1, <1>3, <1>4, <2>2 DEF Evaluates
  <2>4. m - 1 \in 0..IdLength - 1 /\ m - 1 \in 0..IdLength /\ m - 1 + 1 = m /\ m \in 1..IdLength
    BY <1>2, <2>2, <2>3
  <2>5. Right(m - 1)
    BY <2>1, <2>2, <2>4
  <2>6. /\ v[m] = v[m - 1] * Base + no[m] /\ w[m] = w[m - 1] * Base + Increment(no)[m]
        /\ v[m - 1] \in Int /\ v[m] \in Int
    BY <1>3, <1>4, <2>4 DEF Evaluates
  <2>7. CASE m < p
    <3>1. Increment(no)[m] = no[m] /\ m - 1 < p
      BY <1>1, <1>2, <2>4, <2>7
    <3> QED
      BY <2>2, <2>5, <2>6, <2>7, <3>1
  <2>8. CASE m = p
    <3>1. Increment(no)[m] = no[m] + 1 /\ m - 1 < p
      BY <1>1, <1>2, <2>4, <2>8
    <3>2. w[m] = v[m - 1] * Base + (no[m] + 1)
      BY <2>5, <2>6, <3>1
    <3> QED
      BY <1>2, <2>2, <2>4, <2>6, <2>8, <3>2
  <2>9. CASE m > p
    <3>1. Increment(no)[m] = 0 /\ no[m] = Base - 1 /\ ~(m - 1 < p)
      BY <1>1, <1>2, <2>4, <2>9
    <3>2. w[m] = (v[m - 1] + 1) * Base + 0 /\ v[m] = v[m - 1] * Base + (Base - 1)
      BY <2>5, <2>6, <3>1
    <3>3. (v[m - 1] + 1) * Base + 0 = v[m - 1] * Base + (Base - 1) + 1
      BY <1>2, <2>6
    <3> QED
      BY <1>1, <2>2, <2>4, <2>9, <3>2, <3>3
  <2> QED
    BY <1>1, <2>2, <2>7, <2>8, <2>9
<1>6. Right(IdLength) /\ ~(IdLength < p)
  BY <1>1, <1>2, <1>5
<1> QED
  BY <1>3, <1>4, <1>6 DEF Evaluates

(* The ids of a thread count up by one, carries and all, from a draw until  *)
(* they are used up (MsgIdUtil::GenMsgId): only CallMethod takes one.       *)
THEOREM IdsCountUp == Spec => IdsSuccessive
<1>1. ASSUME CallInv, [Next]_vars, t_msg_id_no' # t_msg_id_no, t_msg_id_no \notin {<<>>, MaxId}
      PROVE  Value(t_msg_id_no') = Value(t_msg_id_no) + 1
  <2>1. t_msg_id_no \in Ids
    BY <1>1 DEF CallInv, TypeOK
  <2>2. PICK c \in Calls, k \in Controllers : CallMethod(c, k)
    <3>1. Next
      BY <1>1 DEF vars
    <3>2. ASSUME NEW k \in Controllers, Reset(k) \/ StartCancel(k) PROVE UNCHANGED t_msg_id_no
      BY <3>2 DEF Reset, StartCancel, User
    <3>3. ASSUME NEW c \in Calls, CallUncontrolled(c) \/ OtherOpens(c) PROVE UNCHANGED t_msg_id_no
      BY <3>3 DEF CallUncontrolled, OtherOpens
    <3>4. ASSUME NEW R \in SUBSET Ready, Wait(R) PROVE UNCHANGED t_msg_id_no
      BY <3>4 DEF Wait, callVars
    <3>5. ASSUME CheckStop \/ BatchDone PROVE UNCHANGED t_msg_id_no
      BY <3>5 DEF CheckStop, BatchDone, callVars
    <3>6. ASSUME NEW h, Take(h) PROVE UNCHANGED t_msg_id_no
      BY <3>6 DEF Take
    <3>7. ASSUME NEW c \in Calls, OnConnected(c) \/ OnConnectFailed(c) \/ OnWrite(c)
                                     \/ OnReadNothing(c) \/ OnReadClosed(c)
          PROVE  UNCHANGED t_msg_id_no
      BY <3>6, <3>7 DEF OnConnected, OnConnectFailed, OnWrite, OnReadNothing, OnReadClosed
    <3>8. ASSUME NEW c \in Calls, NEW r \in rpc[c].replies, OnAnswer(c, r) \/ OnAnswerCanceled(c, r)
          PROVE  UNCHANGED t_msg_id_no
      BY <3>6, <3>8, AnsweredFinds, <1>1 DEF OnAnswer, OnAnswerCanceled
    <3>9. ASSUME NEW D \in SUBSET Calls, OnTimer(D) PROVE UNCHANGED t_msg_id_no
      BY <3>6, <3>9 DEF OnTimer
    <3> QED
      BY <1>1, <3>1, <3>2, <3>3, <3>4, <3>5, <3>7, <3>8, <3>9 DEF Next, LoopStep, Run
  <2>3. PICK err \in ErrorCodes : Begin(c, k, err)
    BY <2>2 DEF CallMethod, CallRejected, CallFailsAtOnce, CallConnects, ErrorCodes
  <2>4. PICK gen \in MsgIds(k) : t_msg_id_no' = gen.no
    BY <2>3 DEF Begin
  <2>5. t_msg_id_no' = Increment(t_msg_id_no)
    BY <1>1, <2>4 DEF MsgIds, GenMsgId
  <2> QED
    BY <1>1, <2>1, <2>5, CountsUp
<1>2. CallInv /\ [Next]_vars =>
        [t_msg_id_no' # t_msg_id_no /\ t_msg_id_no \notin {<<>>, MaxId}
           => Value(t_msg_id_no') = Value(t_msg_id_no) + 1]_vars
  BY <1>1
<1> QED
  BY <1>2, CallSafe, PTL DEF Spec, IdsSuccessive
=============================================================================
