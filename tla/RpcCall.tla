------------------------------ MODULE RpcCall ------------------------------
(* A client thread making RPC calls one after another: RpcChannel on top of *)
(* TcpClient, TcpConnection, a TimerEvent and the thread's EventLoop        *)
(* (src/net/rpc/rpc_channel.cc, tcp/tcp_client.cc, tcp/tcp_connection.cc),  *)
(* with the ids it gives its calls (MsgId), their coding (TinyPB) and what  *)
(* the server's Dispatcher answers them.                                    *)
(*                                                                          *)
(* All of the client runs in one thread; what makes it hard is that the     *)
(* loop first queues a callback for everything epoll reports and only then  *)
(* runs them, in an order it does not choose, and heeds stop() only at its  *)
(* next turn. The peer, the clock and the process's other threads, which    *)
(* take the descriptor numbers this one frees, decide the rest.             *)
EXTENDS Dispatcher, MsgId, FiniteSets

CONSTANTS Calls,        \* the calls of the program, each with a channel of its own
          Controllers,  \* its RpcControllers; a call may reuse one
          ControllersOf, \* those each call may use
          RequestsOf,   \* what each call may ask for: [name, data]
          Unreadable    \* responses that do not parse as the client's type

ASSUME RequestsAssumption ==
  \A c \in Calls : \A r \in RequestsOf[c] : IsString(r.name) /\ IsString(r.data)

VARIABLES
  pc,            \* "user", or where the loop is: "check", "run", "wait"
  m_is_looping,
  m_stop_flag,
  batch,         \* the callbacks queued by the last epoll_wait
  status,        \* of each call: "new", "looping", "looped", "failed", "returned"
  client,        \* TcpClient and its TcpConnection
  timer,         \* m_timer_event: "none", "pending", "canceled"
  controller,    \* each RpcController
  rpc,           \* each call's request, controller, response and closure
  t_msg_id_no,
  touched        \* history: calls that used a descriptor of another thread

loopVars == <<pc, m_is_looping, m_stop_flag, batch>>
vars     == <<loopVars, status, client, timer, controller, rpc, t_msg_id_no, touched>>

NoOne == "none"

(* Error, without the codes nothing sets.                                   *)
ErrorCodes == {"OK", "SYS_CHANNEL_NOT_INIT", "SYS_FAILED_SERIALIZE", "SYS_FAILED_CONNECT",
               "SYS_PEER_CLOSED", "SYS_RPC_CALL_TIMEOUT", "SYS_FAILED_DESERIALIZE",
               "SYS_SERVICE_NOT_FOUND", "SYS_METHOD_NOT_FOUND", "SYS_FAILED_PARSE_SERVICE_NAME"}

NewClient == [state |-> "NotConnected", fd |-> "own", interest |-> {}, onOut |-> "connect",
              readCb |-> {}]

(* RpcController as constructed, and after Reset.                           *)
NewController == [m_is_canceled |-> FALSE, m_is_failed |-> FALSE, m_error_code |-> "OK",
                  m_msg_id |-> NoId]

NewCall == [request |-> NewProtocol, controller |-> NoOne, replies |-> {}, response |-> <<>>,
            answer |-> "none", done |-> 0]

Init ==
  /\ pc = "user"
  /\ m_is_looping = FALSE
  /\ m_stop_flag = FALSE
  /\ batch = {}
  /\ status = [c \in Calls |-> "new"]
  /\ client = [c \in Calls |-> NewClient]
  /\ timer = [c \in Calls |-> "none"]
  /\ controller = [k \in Controllers |-> NewController]
  /\ rpc = [c \in Calls |-> NewCall]
  /\ t_msg_id_no = <<>>
  /\ touched = {}

-----------------------------------------------------------------------------
(* Pieces of the callbacks.                                                 *)

SetError(k, err) == [k EXCEPT !.m_is_failed = TRUE, !.m_error_code = err]

(* SetError on a call's controller and done->Run().                         *)
Finish(c, err) ==
  /\ controller' = [controller EXCEPT ![rpc[c].controller] = SetError(@, err)]
  /\ rpc' = [rpc EXCEPT ![c].done = @ + 1]

(* TcpClient::close: only inside a loop does it stop and close anything.    *)
CloseFd(cl) == [cl EXCEPT !.fd = "free", !.interest = {}]
Close(cl)   == IF m_is_looping THEN CloseFd(cl) ELSE cl
StopLoop    == m_stop_flag' = (m_stop_flag \/ m_is_looping)

(* A system call on a number that another thread has been given meanwhile.  *)
Touch(C) == touched' = touched \cup {c \in C : client[c].fd = "other"}

(* writeMessage on a connected client.                                      *)
Connected(cl) == [cl EXCEPT !.state = "Connected", !.interest = {"OUT"}, !.onOut = "write"]

-----------------------------------------------------------------------------
(* The user of the calls, between them.                                     *)

User == pc = "user" /\ UNCHANGED <<loopVars, status, client, timer, rpc, t_msg_id_no, touched>>

Reset(k) ==
  /\ User
  /\ controller[k] # NewController
  /\ controller' = [controller EXCEPT ![k] = NewController]

StartCancel(k) ==
  /\ User
  /\ ~controller[k].m_is_canceled
  /\ controller' = [controller EXCEPT ![k].m_is_canceled = TRUE]

-----------------------------------------------------------------------------
(* CallMethod, up to the point where it returns or enters the loop.         *)

(* Something that is no RpcController is given as one.                      *)
CallUncontrolled(c) ==
  /\ pc = "user"
  /\ status[c] = "new"
  /\ status' = [status EXCEPT ![c] = "returned"]
  /\ UNCHANGED <<loopVars, client, timer, controller, rpc, t_msg_id_no, touched>>

(* The id a call gets: its controller's, or a new one.                      *)
MsgIds(k) ==
  IF controller[k].m_msg_id # NoId THEN {[no |-> t_msg_id_no, id |-> controller[k].m_msg_id]}
  ELSE GenMsgId(t_msg_id_no)

(* What comes back for a request, decoded: the response the server's        *)
(* dispatcher, which keeps no state between calls, gives what it received.  *)
Replies(msg) ==
  UNION {Received(response) : response \in {Dispatch(request) : request \in Received(msg)}}

CallMessage(id, r) == SetPbData(SetMethodName(SetMsgId(NewProtocol, id), r.name), r.data)

(* The call starts: its message, and the id noted in the controller, which  *)
(* gets err unless that is "OK".                                            *)
Begin(c, k, err) ==
  /\ pc = "user"
  /\ status[c] = "new"
  /\ \E gen \in MsgIds(k), r \in RequestsOf[c] :
       LET named == [controller[k] EXCEPT !.m_msg_id = gen.id]
           msg   == CallMessage(gen.id, r)
       IN
       /\ t_msg_id_no' = gen.no
       /\ controller' = [controller EXCEPT ![k] = IF err = "OK" THEN named ELSE SetError(named, err)]
       /\ rpc' = [rpc EXCEPT ![c] =
            [@ EXCEPT !.controller = k, !.done = IF err = "OK" THEN 0 ELSE 1,
                      !.request = msg, !.replies = Replies(msg)]]

(* The channel is not initialised or the request does not serialize.        *)
CallRejected(c, k) ==
  /\ \E err \in {"SYS_CHANNEL_NOT_INIT", "SYS_FAILED_SERIALIZE"} : Begin(c, k, err)
  /\ status' = [status EXCEPT ![c] = "returned"]
  /\ UNCHANGED <<loopVars, client, timer, touched>>

(* connect() fails at once: the callback runs, close() finds no loop, and   *)
(* connect returns without starting one.                                    *)
CallFailsAtOnce(c, k) ==
  /\ Begin(c, k, "SYS_FAILED_CONNECT")
  /\ status' = [status EXCEPT ![c] = "failed"]
  /\ timer' = [timer EXCEPT ![c] = "pending"]
  /\ client' = [client EXCEPT ![c] = Close(@)]
  /\ StopLoop
  /\ UNCHANGED <<pc, m_is_looping, batch, touched>>

(* connect() succeeds at once or is in progress; then the loop, unless the  *)
(* thread has already run it.                                               *)
CallConnects(c, k) ==
  /\ Begin(c, k, "OK")
  /\ timer' = [timer EXCEPT ![c] = "pending"]
  /\ client' \in {[client EXCEPT ![c] = Connected(@)], [client EXCEPT ![c].interest = {"OUT"}]}
  /\ m_is_looping' = TRUE
  /\ IF m_is_looping
     THEN status' = [status EXCEPT ![c] = "returned"] /\ UNCHANGED pc
     ELSE status' = [status EXCEPT ![c] = "looping"] /\ pc' = "check"
  /\ UNCHANGED <<m_stop_flag, batch, touched>>

-----------------------------------------------------------------------------
(* EventLoop::loop, seen from its only thread.                              *)

callVars == <<client, timer, controller, rpc, t_msg_id_no, touched>>

CheckStop ==
  /\ pc = "check"
  /\ IF m_stop_flag
     THEN /\ pc' = "user"
          /\ status' = [c \in Calls |-> IF status[c] = "looping" THEN "looped" ELSE status[c]]
     ELSE pc' = "run" /\ UNCHANGED status
  /\ UNCHANGED <<m_is_looping, m_stop_flag, batch, callVars>>

BatchDone ==
  /\ pc = "run"
  /\ batch = {}
  /\ pc' = "wait"
  /\ UNCHANGED <<m_is_looping, m_stop_flag, batch, status, callVars>>

TimerTask == [kind |-> "timer", call |-> NoOne]
Ready == [kind : {"IN", "OUT"}, call : Calls] \cup {TimerTask}

(* epoll_wait: any part of what may be ready, one callback a descriptor.    *)
(* After stop() and after 10 s it returns with nothing to do.               *)
Wait(R) ==
  /\ pc = "wait"
  /\ \A h \in R : IF h = TimerTask THEN \E c \in Calls : timer[c] # "none"
                  ELSE h.kind \in client[h.call].interest
  /\ \A g, h \in R : g.call = h.call => g = h
  /\ batch' = R
  /\ pc' = "check"
  /\ UNCHANGED <<m_is_looping, m_stop_flag, status, callVars>>

(* Mutant: the task is run and left at the front of the queue.              *)
TakeCopy(h) ==
  /\ pc = "run"
  /\ h \in batch
  /\ UNCHANGED <<pc, m_is_looping, batch, status, t_msg_id_no>>

Take(h) ==
  /\ pc = "run"
  /\ h \in batch
  /\ batch' = batch \ {h}
  /\ UNCHANGED <<pc, m_is_looping, status, t_msg_id_no>>

-----------------------------------------------------------------------------
(* The callbacks. A task before them in the batch may have closed their     *)
(* descriptor, and another thread been given its number: what they do then  *)
(* fails, or happens to the other's file.                                   *)

(* The one-shot callback of a connect in progress: connecting again tells   *)
(* how it ended.                                                            *)
OnConnected(c) ==
  /\ Take([kind |-> "OUT", call |-> c])
  /\ client[c].onOut = "connect"
  /\ client[c].fd # "free"
  /\ client' = [client EXCEPT ![c] = Connected(@)]
  /\ Touch({c})
  /\ UNCHANGED <<m_stop_flag, timer, controller, rpc>>

OnConnectFailed(c) ==
  /\ Take([kind |-> "OUT", call |-> c])
  /\ client[c].onOut = "connect"
  /\ \E err \in {"SYS_PEER_CLOSED", "SYS_FAILED_CONNECT"} :
       /\ client[c].fd = "free" => err = "SYS_FAILED_CONNECT"
       /\ Finish(c, err)
  /\ client' = [client EXCEPT ![c] = Close([@ EXCEPT !.interest = {}])]
  /\ StopLoop
  /\ Touch({c})
  /\ UNCHANGED timer

(* Mutant: the answer is awaited under the id the call began with.          *)
AwaitedGiven(c) == rpc[c].request.m_msg_id

(* The id the answer is awaited under: the message's, which encode has set. *)
Awaited(c) == EncodedId(rpc[c].request.m_msg_id)

(* onWrite sends all of the request or a part of it; either way the message *)
(* callbacks run, and the request's asks for the answer. A write error      *)
(* leaves everything as it was.                                             *)
OnWrite(c) ==
  /\ Take([kind |-> "OUT", call |-> c])
  /\ client[c].onOut = "write"
  /\ \/ /\ client[c].state = "Connected"
        /\ client[c].fd # "free"
        /\ \E rest \in {{}, {"OUT"}} :
             client' = [client EXCEPT ![c].interest = rest \cup {"IN"},
                                      ![c].readCb = @ \cup {Awaited(c)}]
     \/ UNCHANGED client
  /\ Touch({c})
  /\ UNCHANGED <<m_stop_flag, timer, controller, rpc>>

(* onRead finds no complete answer, or fails.                               *)
OnReadNothing(c) ==
  /\ Take([kind |-> "IN", call |-> c])
  /\ Touch({c})
  /\ UNCHANGED <<m_stop_flag, client, timer, controller, rpc>>

(* onRead finds the peer gone: the connection closes; nobody is told.       *)
OnReadClosed(c) ==
  /\ Take([kind |-> "IN", call |-> c])
  /\ client[c].state = "Connected"
  /\ client[c].fd # "free"
  /\ client' = [client EXCEPT ![c] = [CloseFd(@) EXCEPT !.state = "Closed"]]
  /\ Touch({c})
  /\ UNCHANGED <<m_stop_flag, timer, controller, rpc>>

(* execute: the response r has come in and its id is looked up.             *)
Answered(c, r) ==
  /\ Take([kind |-> "IN", call |-> c])
  /\ client[c].state = "Connected"
  /\ client[c].fd = "own"
  /\ "OUT" \notin client[c].interest
  /\ r \in rpc[c].replies
  /\ rpc[c].answer = "none"
  /\ r.m_msg_id \in client[c].readCb

(* The controller after a response r.                                       *)
Outcome(k, r) ==
  IF r.m_err_code # "OK" THEN SetError(k, r.m_err_code)
  ELSE IF r.m_pb_data \in Unreadable THEN SetError(k, "SYS_FAILED_DESERIALIZE")
  ELSE k

(* The controller, the response and the closure; the callback is forgotten. *)
Deliver(c, r) ==
  /\ controller' = [controller EXCEPT ![rpc[c].controller] = Outcome(@, r)]
  /\ rpc' = [rpc EXCEPT ![c].answer = "taken",
                        ![c].done = @ + 1,
                        ![c].response = IF r.m_err_code = "OK" THEN r.m_pb_data ELSE @]

Forget(cl, r) == [cl EXCEPT !.readCb = @ \ {r.m_msg_id}]

NotCanceled(c) == ~controller[rpc[c].controller].m_is_canceled

(* Mutant: the timeout is left pending.                                     *)
OnAnswerKeepingTimer(c, r) ==
  /\ Answered(c, r)
  /\ NotCanceled(c)
  /\ Deliver(c, r)
  /\ client' = [client EXCEPT ![c] = Forget(Close(@), r)]
  /\ StopLoop
  /\ UNCHANGED <<timer, touched>>

(* Mutant: the loop is stopped but the descriptor stays open.               *)
OnAnswerKeepingFd(c, r) ==
  /\ Answered(c, r)
  /\ NotCanceled(c)
  /\ timer' = [timer EXCEPT ![c] = IF @ = "pending" THEN "canceled" ELSE @]
  /\ Deliver(c, r)
  /\ client' = [client EXCEPT ![c] = Forget(@, r)]
  /\ StopLoop
  /\ UNCHANGED touched

(* The answer: the timeout is canceled, the closure run, the loop stopped.  *)
OnAnswer(c, r) ==
  /\ Answered(c, r)
  /\ NotCanceled(c)
  /\ timer' = [timer EXCEPT ![c] = IF @ = "pending" THEN "canceled" ELSE @]
  /\ Deliver(c, r)
  /\ client' = [client EXCEPT ![c] = Forget(Close(@), r)]
  /\ StopLoop
  /\ UNCHANGED touched

(* A canceled call does not look at its answer.                             *)
OnAnswerCanceled(c, r) ==
  /\ Answered(c, r)
  /\ ~NotCanceled(c)
  /\ client' = [client EXCEPT ![c] = Forget(@, r)]
  /\ rpc' = [rpc EXCEPT ![c].answer = "ignored"]
  /\ UNCHANGED <<m_stop_flag, timer, controller, touched>>

(* The timeouts of the calls late, but for what follows them.               *)
TimeOut(late) ==
  /\ rpc' = [c \in Calls |-> IF c \in late THEN [rpc[c] EXCEPT !.done = @ + 1] ELSE rpc[c]]
  /\ controller' =
       [k \in Controllers |->
          IF \E c \in late : rpc[c].controller = k
          THEN [SetError(controller[k], "SYS_RPC_CALL_TIMEOUT") EXCEPT !.m_is_canceled = TRUE]
          ELSE controller[k]]

(* Mutant: the timeout only reports; nobody stops the loop.                 *)
OnTimerNoClose(D) ==
  /\ Take(TimerTask)
  /\ D # {}
  /\ \A c \in D : timer[c] # "none"
  /\ TimeOut({c \in D : timer[c] = "pending"})
  /\ timer' = [c \in Calls |-> IF c \in D THEN "none" ELSE timer[c]]
  /\ UNCHANGED <<client, m_stop_flag, touched>>

(* Mutant: the timeout closes the descriptor and the loop goes on.          *)
OnTimerNoStop(D) ==
  /\ Take(TimerTask)
  /\ D # {}
  /\ \A c \in D : timer[c] # "none"
  /\ LET late == {c \in D : timer[c] = "pending"} IN
     /\ TimeOut(late)
     /\ client' = [c \in Calls |-> IF c \in late THEN Close(client[c]) ELSE client[c]]
     /\ Touch(late)
  /\ timer' = [c \in Calls |-> IF c \in D THEN "none" ELSE timer[c]]
  /\ UNCHANGED m_stop_flag

(* onTimer: the events D are due; the canceled ones are dropped, the others *)
(* end their calls.                                                         *)
OnTimer(D) ==
  /\ Take(TimerTask)
  /\ D # {}
  /\ \A c \in D : timer[c] # "none"
  /\ LET late == {c \in D : timer[c] = "pending"} IN
     /\ TimeOut(late)
     /\ client' = [c \in Calls |-> IF c \in late THEN Close(client[c]) ELSE client[c]]
     /\ m_stop_flag' = (m_stop_flag \/ late # {})
     /\ Touch(late)
  /\ timer' = [c \in Calls |-> IF c \in D THEN "none" ELSE timer[c]]

-----------------------------------------------------------------------------
(* Another thread of the process is given the number.                       *)
OtherOpens(c) ==
  /\ client[c].fd = "free"
  /\ client' = [client EXCEPT ![c].fd = "other"]
  /\ UNCHANGED <<loopVars, status, timer, controller, rpc, t_msg_id_no, touched>>

-----------------------------------------------------------------------------
Run ==
  \/ \E c \in Calls : \/ OnConnected(c) \/ OnConnectFailed(c) \/ OnWrite(c)
                      \/ OnReadNothing(c) \/ OnReadClosed(c)
                      \/ \E r \in rpc[c].replies : OnAnswer(c, r) \/ OnAnswerCanceled(c, r)
  \/ \E D \in SUBSET Calls : OnTimer(D)

LoopStep == CheckStop \/ BatchDone \/ Run

CallMethod(c, k) == CallRejected(c, k) \/ CallFailsAtOnce(c, k) \/ CallConnects(c, k)

Next ==
  \/ \E k \in Controllers : \/ Reset(k) \/ StartCancel(k)
                            \/ \E c \in Calls : k \in ControllersOf[c] /\ CallMethod(c, k)
  \/ \E c \in Calls : CallUncontrolled(c) \/ OtherOpens(c)
  \/ LoopStep
  \/ \E R \in SUBSET Ready : Wait(R)

Spec == Init /\ [][Next]_vars

(* The thread runs; a pending timeout is due some day, and is reported then.*)
Fairness == /\ WF_vars(LoopStep)
            /\ WF_vars(\E R \in SUBSET Ready : Wait(R))
            /\ SF_vars(\E R \in SUBSET Ready : TimerTask \in R /\ Wait(R))

FairSpec == Spec /\ Fairness

-----------------------------------------------------------------------------
(* Properties.                                                              *)

MessageIds == Ids \cup {NoId, DefaultId}

(* The types of the client thread's state; no closure runs a third time.    *)
TypeOK ==
  /\ pc \in {"user", "check", "run", "wait"}
  /\ m_is_looping \in BOOLEAN
  /\ m_stop_flag \in BOOLEAN
  /\ batch \subseteq Ready
  /\ status \in [Calls -> {"new", "looping", "looped", "failed", "returned"}]
  /\ client \in [Calls -> [state : {"NotConnected", "Connected", "Closed"},
                           fd : {"own", "free", "other"}, interest : SUBSET {"IN", "OUT"},
                           onOut : {"connect", "write"}, readCb : SUBSET MessageIds]]
  /\ timer \in [Calls -> {"none", "pending", "canceled"}]
  /\ controller \in [Controllers -> [m_is_canceled : BOOLEAN, m_is_failed : BOOLEAN,
                                     m_error_code : ErrorCodes, m_msg_id : MessageIds]]
  /\ \A c \in Calls : /\ rpc[c].controller \in Controllers \cup {NoOne}
                      /\ rpc[c].request.m_msg_id \in MessageIds
                      /\ rpc[c].answer \in {"none", "taken", "ignored"}
                      /\ rpc[c].done \in 0..2
  /\ t_msg_id_no \in Ids \cup {<<>>}
  /\ touched \subseteq Calls

(* Once connected, a call's closure runs at most once: the answer and the   *)
(* timeout exclude each other even when both are in the same batch.         *)
OnceIfConnected == \A c \in Calls : client[c].state # "NotConnected" => rpc[c].done <= 1

(* What a call has been given with its answer stays: no late timeout, close *)
(* or second answer touches its response, its closure or, unless the user   *)
(* does or another call was made with it, its controller.                   *)
AnswerFinal ==
  [][\A c \in Calls : rpc[c].answer = "taken" =>
       /\ rpc'[c] = rpc[c]
       /\ LET k == rpc[c].controller IN
          \/ controller'[k] = controller[k]
          \/ pc = "user"
          \/ \E d \in Calls \ {c} : rpc[d].controller = k]_vars

(* What the services compute for a call's message, whose method name is the *)
(* service's, a dot and the method's; of a name registered again the last.  *)
LastRegistered(i) ==
  \A j \in (i + 1)..Len(Registered) : Registered[j].full_name # Registered[i].full_name
Computed(service, msg) ==
  {service.methods[m][msg.m_pb_data] : m \in
     {n \in DOMAIN service.methods : /\ service.full_name \o <<".">> \o n = msg.m_method_name
                                    /\ msg.m_pb_data \in DOMAIN service.methods[n]}}
Results(msg) ==
  UNION {Computed(Registered[i], msg) : i \in {j \in 1..Len(Registered) : LastRegistered(j)}}
InPackage(msg) == Cardinality(Dots(msg.m_method_name)) > 1

(* An answer without an error is the result of the call's own request, and  *)
(* a request that has a result is answered without an error: through the    *)
(* id, the coding both ways, the dispatcher's lookups and the client's. Not *)
(* so for a service in a package, whose name the dispatcher cuts at its     *)
(* first dot, and for an empty result: both come back as errors.            *)
AnsweredRight ==
  [][\A c \in Calls : rpc[c].answer # "taken" /\ rpc'[c].answer = "taken" =>
       LET k == rpc[c].controller
           results == Results(rpc[c].request)
       IN /\ ~controller'[k].m_is_failed => rpc'[c].response \in results
          /\ results \ (Unreadable \cup {<<>>}) # {} /\ ~InPackage(rpc[c].request)
               => controller'[k] = controller[k]]_vars

(* A call whose request has left and whose peer answers is not left to its  *)
(* timeout: whatever became of its id, the answer finds the callback.       *)
AnswerFound ==
  \A c \in Calls : client[c].state = "Connected" /\ client[c].fd = "own"
                     /\ "IN" \in client[c].interest /\ rpc[c].answer = "none"
    => \E r \in rpc[c].replies : r.m_msg_id \in client[c].readCb

(* The ids of a thread count up, digits and carry, until they are used up:  *)
(* none comes twice between two draws.                                      *)
Value(no) == FoldLeft(LAMBDA v, digit : v * Base + digit, 0, no)
IdsSuccessive ==
  [][t_msg_id_no' # t_msg_id_no /\ t_msg_id_no \notin {<<>>, MaxId}
       => Value(t_msg_id_no') = Value(t_msg_id_no) + 1]_vars

(* A thread uses a number it has closed only in the loop's last batch, or   *)
(* after its peer had closed the connection: then the timeout closes the    *)
(* number again, whoever has it now.                                        *)
TouchesOwn ==
  [][\A c \in touched' \ touched : client[c].state = "Closed" \/ m_stop_flag]_vars

(* A CallMethod that ran the loop returns with its closure run and its      *)
(* socket closed, unless an earlier call of the thread failed at once and   *)
(* left its timeout behind.                                                 *)
ReturnsDone ==
  \A c \in Calls : status[c] = "looped" /\ (\A o \in Calls : status[o] # "failed")
    => rpc[c].done >= 1 /\ client[c].fd # "own"

(* CallMethod returns: the loop it runs ends.                               *)
LoopReturns == pc # "user" ~> pc = "user"

(* rpc_closure.h: "a callback to be executed when the RPC is done". It runs *)
(* once for each call.                                                      *)
DoneOnce == \A c \in Calls : rpc[c].done <= 1
=============================================================================
