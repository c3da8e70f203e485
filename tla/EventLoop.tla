----------------------------- MODULE EventLoop -----------------------------
(* One reactor (src/net/eventloop.cc): the thread inside EventLoop::loop(), *)
(* the threads that hand it work through addTask/addEpollEvent/             *)
(* deleteEpollEvent/stop, the eventfd that wakes it, and epoll.             *)
(*                                                                          *)
(* A std::function in m_pending_tasks is a record [kind, arg]:              *)
(*   "IN" / "OUT"  the read / write callback of the FdEvent arg,            *)
(*   "add" / "del" the closures that addEpollEvent / deleteEpollEvent post, *)
(*   "job"         a caller's own closure.                                  *)
(* The callbacks do to the loop what TcpConnection's do. Which file         *)
(* descriptors are ready is up to the environment; the eventfd is ready     *)
(* exactly when its counter is positive.                                    *)
EXTENDS Integers, Sequences, FiniteSets

CONSTANTS Threads,    \* threads other than the loop's own
          Jobs,       \* closures those threads may post, each once
          Fds,        \* descriptors of the connections the loop serves
          WakeFd,     \* m_wakeup_event's descriptor
          MaxEvents,  \* g_epoll_max_events
          MaxOpens    \* bound: how often the descriptors are handed to the loop

ASSUME MaxEventsAssumption == MaxEvents \in Nat \ {0}
ASSUME MaxOpensAssumption == MaxOpens \in Nat
ASSUME WakeFdAssumption == WakeFd \notin Fds

VARIABLES
  pc,               \* where the loop thread is in loop()
  m_is_looping,
  m_stop_flag,
  m_pending_tasks,  \* shared, under m_mutex
  tasks,            \* the batch swapped out of m_pending_tasks
  results,          \* result_events not yet turned into tasks
  wakeups,          \* the eventfd counter
  m_listen_fds,
  watched,          \* descriptors registered with epoll
  interest,         \* the event mask epoll holds for each of them
  open,             \* descriptors in use by a connection
  events,           \* m_listen_events.events of each FdEvent
  callbacks,        \* which of m_read_callback, m_write_callback are set
  post,             \* "wake": the thread has pushed and not yet written
  jobs,             \* progress of each job
  clientClosed,     \* history: descriptors TcpClient::close has closed
  opens             \* bound counter for MaxOpens

loopVars == <<pc, m_is_looping, tasks, results>>
fdVars   == <<m_listen_fds, watched, interest, open, events, callbacks, clientClosed, opens>>
vars     == <<loopVars, m_stop_flag, m_pending_tasks, wakeups, fdVars, post, jobs>>

Event == {"IN", "OUT"}
Task  == [kind : Event \cup {"add", "del"}, arg : Fds]
         \cup [kind : {"job"}, arg : Jobs]
         \cup [kind : {"IN"}, arg : {WakeFd}]

WakeTask == [kind |-> "IN", arg |-> WakeFd]
WakeEvent == [fd |-> WakeFd, mask |-> {"IN"}]

Init ==
  /\ pc = "idle"
  /\ m_is_looping = FALSE
  /\ m_stop_flag = FALSE
  /\ m_pending_tasks = <<>>
  /\ tasks = <<>>
  /\ results = {}
  /\ wakeups = 0
  /\ m_listen_fds = {}
  /\ watched = {}
  /\ interest = [f \in Fds |-> {}]
  /\ open = {}
  /\ events = [f \in Fds |-> {}]
  /\ callbacks = [f \in Fds |-> {}]
  /\ post = [t \in Threads |-> "idle"]
  /\ jobs = [j \in Jobs |-> "new"]
  /\ clientClosed = {}
  /\ opens = 0

-----------------------------------------------------------------------------
(* Pieces of the handlers.                                                  *)

(* ADD_TO_EPOLL: m_listen_fds decides between EPOLL_CTL_ADD and _MOD; epoll *)
(* refuses to add what it has, to modify what it has not, and a descriptor  *)
(* that is closed.                                                          *)
AddToEpoll(f, mask) ==
  LET accepted == f \in open /\ (f \in m_listen_fds) = (f \in watched) IN
  /\ m_listen_fds' = m_listen_fds \cup {f}
  /\ watched' = IF accepted THEN watched \cup {f} ELSE watched
  /\ interest' = IF accepted THEN [interest EXCEPT ![f] = mask] ELSE interest

(* Mutant: the erase of m_listen_fds is forgotten.                          *)
DeleteWithoutErase(f) ==
  /\ watched' = IF f \in m_listen_fds THEN watched \ {f} ELSE watched
  /\ UNCHANGED <<m_listen_fds, interest>>

(* DELETE_FROM_EPOLL: nothing unless the set knows the descriptor.          *)
DeleteFromEpoll(f) ==
  /\ m_listen_fds' = m_listen_fds \ {f}
  /\ watched' = IF f \in m_listen_fds THEN watched \ {f} ELSE watched
  /\ UNCHANGED interest

(* FdEvent::listen and FdEvent::clearEvent.                                 *)
Listen(f, ev) ==
  /\ events' = [events EXCEPT ![f] = @ \cup {ev}]
  /\ callbacks' = [callbacks EXCEPT ![f] = @ \cup {ev}]

ClearEvent(f, ev) ==
  /\ events' = [events EXCEPT ![f] = @ \ {ev}]
  /\ callbacks' = [callbacks EXCEPT ![f] = @ \ {ev}]

(* FdEvent::close zeroes the mask and keeps the callbacks.                  *)
CloseFd(f) ==
  /\ open' = open \ {f}
  /\ events' = [events EXCEPT ![f] = {}]
  /\ UNCHANGED callbacks

(* TcpClient::close in a running loop: it stops the loop and closes the     *)
(* descriptor without deleteEpollEvent. The kernel drops what is closed     *)
(* from epoll; m_listen_fds and the queued callbacks know nothing of it.    *)
ClientClose(f) ==
  /\ m_stop_flag' = TRUE
  /\ wakeups' = wakeups + 1
  /\ CloseFd(f)
  /\ watched' = watched \ {f}
  /\ clientClosed' = clientClosed \cup {f}
  /\ UNCHANGED <<m_listen_fds, interest, opens>>

-----------------------------------------------------------------------------
(* The loop thread.                                                         *)

StartLoop ==
  /\ pc = "idle"
  /\ m_is_looping' = TRUE
  /\ pc' = "check"
  /\ UNCHANGED <<tasks, results, m_stop_flag, m_pending_tasks, wakeups, fdVars, post, jobs>>

(* Mutant: the loop drains m_pending_tasks before it heeds the flag.        *)
CheckStopWhenDrained ==
  /\ pc = "check"
  /\ pc' = IF m_stop_flag /\ m_pending_tasks = <<>> THEN "exited" ELSE "swap"
  /\ UNCHANGED <<m_is_looping, tasks, results, m_stop_flag, m_pending_tasks,
                 wakeups, fdVars, post, jobs>>

CheckStop ==
  /\ pc = "check"
  /\ pc' = IF m_stop_flag THEN "exited" ELSE "swap"
  /\ UNCHANGED <<m_is_looping, tasks, results, m_stop_flag, m_pending_tasks,
                 wakeups, fdVars, post, jobs>>

(* Mutant: the pending tasks are copied and not swapped out.                *)
CopyTasks ==
  /\ pc = "swap"
  /\ tasks' = m_pending_tasks
  /\ pc' = "run"
  /\ UNCHANGED <<m_is_looping, results, m_stop_flag, m_pending_tasks, wakeups,
                 fdVars, post, jobs>>

SwapTasks ==
  /\ pc = "swap"
  /\ tasks' = m_pending_tasks
  /\ m_pending_tasks' = <<>>
  /\ pc' = "run"
  /\ UNCHANGED <<m_is_looping, results, m_stop_flag, wakeups, fdVars, post, jobs>>

(* Take the first task of the batch; what it does is in the Run actions.    *)
Running(kind) ==
  /\ pc = "run"
  /\ tasks # <<>>
  /\ Head(tasks).kind = kind
  /\ tasks' = Tail(tasks)
  /\ UNCHANGED <<pc, m_is_looping, results, m_pending_tasks, post>>

(* The wakeup callback reads the eventfd, which zeroes it. While there is   *)
(* nothing to read it spins on EAGAIN: the step is not enabled.             *)
RunWake ==
  /\ Running("IN")
  /\ Head(tasks).arg = WakeFd
  /\ wakeups > 0
  /\ wakeups' = 0
  /\ UNCHANGED <<m_stop_flag, fdVars, jobs>>

(* A caller's closure. It may close a client of this loop, whatever the     *)
(* client's connection has in the batch and whether it was closed before.   *)
RunJob ==
  /\ Running("job")
  /\ jobs' = [jobs EXCEPT ![Head(tasks).arg] = "done"]
  /\ \/ UNCHANGED <<m_stop_flag, wakeups, fdVars>>
     \/ \E f \in Fds : ClientClose(f)

RunAdd ==
  /\ Running("add")
  /\ LET f == Head(tasks).arg IN AddToEpoll(f, events[f])
  /\ UNCHANGED <<open, events, callbacks, clientClosed, opens, m_stop_flag, wakeups, jobs>>

RunDelete ==
  /\ Running("del")
  /\ DeleteFromEpoll(Head(tasks).arg)
  /\ UNCHANGED <<open, events, callbacks, clientClosed, opens, m_stop_flag, wakeups, jobs>>

(* The read callback of a connection: it consumes input and stops there,    *)
(* or has an answer and listens for writability, or finds the peer gone, or *)
(* hands an answer to a callback that closes the client. On a descriptor    *)
(* that is closed the read fails and onRead returns.                        *)
RunRead ==
  /\ Running("IN")
  /\ Head(tasks).arg # WakeFd
  /\ LET f == Head(tasks).arg IN
     \/ UNCHANGED <<m_stop_flag, wakeups, fdVars>>
     \/ /\ f \in open
        /\ Listen(f, "OUT")
        /\ AddToEpoll(f, events'[f])
        /\ UNCHANGED <<m_stop_flag, wakeups, open, clientClosed, opens>>
     \/ /\ f \in open
        /\ DeleteFromEpoll(f)
        /\ CloseFd(f)
        /\ UNCHANGED <<m_stop_flag, wakeups, clientClosed, opens>>
     \/ /\ f \in open
        /\ ClientClose(f)
  /\ UNCHANGED jobs

(* The write callback: it sends a part, or everything and stops listening;  *)
(* on a descriptor that is closed the write fails and onWrite returns.      *)
RunWrite ==
  /\ Running("OUT")
  /\ LET f == Head(tasks).arg IN
     \/ UNCHANGED fdVars
     \/ /\ f \in open
        /\ ClearEvent(f, "OUT")
        /\ AddToEpoll(f, events'[f])
        /\ UNCHANGED <<open, clientClosed, opens>>
  /\ UNCHANGED <<m_stop_flag, wakeups, jobs>>

BatchDone ==
  /\ pc = "run"
  /\ tasks = <<>>
  /\ pc' = "wait"
  /\ UNCHANGED <<m_is_looping, tasks, results, m_stop_flag, m_pending_tasks,
                 wakeups, fdVars, post, jobs>>

(* epoll_wait returns a nonempty set of at most MaxEvents ready entries. An *)
(* error or hang-up is reported with no bit of the mask set. When there is  *)
(* room the eventfd is among them if its counter is positive.               *)
Ready(R) ==
  /\ R # {}
  /\ Cardinality(R) <= MaxEvents
  /\ \A e1, e2 \in R : e1.fd = e2.fd => e1 = e2
  /\ WakeEvent \in R => wakeups > 0
  /\ wakeups > 0 /\ Cardinality(R) < MaxEvents => WakeEvent \in R

Reports == {WakeEvent} \cup UNION {[fd : {f}, mask : SUBSET interest[f]] : f \in watched}

EpollReturn(R) ==
  /\ pc = "wait"
  /\ Ready(R)
  /\ results' = R
  /\ pc' = "deliver"
  /\ UNCHANGED <<m_is_looping, tasks, m_stop_flag, m_pending_tasks, wakeups,
                 fdVars, post, jobs>>

(* Mutant: epoll_wait with timeout -1.                                      *)
NoTimeout == FALSE

EpollTimeout ==
  /\ pc = "wait"
  /\ wakeups = 0
  /\ pc' = "check"
  /\ UNCHANGED <<m_is_looping, tasks, results, m_stop_flag, m_pending_tasks,
                 wakeups, fdVars, post, jobs>>

(* rt < 0 (a signal): continue.                                             *)
EpollInterrupted ==
  /\ pc = "wait"
  /\ pc' = "check"
  /\ UNCHANGED <<m_is_looping, tasks, results, m_stop_flag, m_pending_tasks,
                 wakeups, fdVars, post, jobs>>

(* One callback per ready entry: the read one wins.                         *)
Handler(e) ==
  IF e = WakeEvent THEN WakeTask
  ELSE [kind |-> IF "IN" \in e.mask THEN "IN" ELSE "OUT", arg |-> e.fd]

(* Mutant: an `if` for EPOLLOUT where the code has `else if`.               *)
BothHandlers(e) ==
  IF e = WakeEvent THEN <<WakeTask>>
  ELSE (IF "IN" \in e.mask THEN <<[kind |-> "IN", arg |-> e.fd]>> ELSE <<>>)
       \o (IF "OUT" \in e.mask THEN <<[kind |-> "OUT", arg |-> e.fd]>> ELSE <<>>)

(* Mutant: an error is queued too, as a kind no one knows.                  *)
ErrorHandlerTasks(e) == IF e.mask = {} THEN <<[kind |-> "ERR", arg |-> e.fd]>> ELSE <<Handler(e)>>

(* None for an error, and none for an empty std::function, which the batch  *)
(* would skip.                                                              *)
HandlerTasks(e) ==
  IF e = WakeEvent \/ (e.mask # {} /\ Handler(e).kind \in callbacks[e.fd])
  THEN <<Handler(e)>> ELSE <<>>

(* Mutant: the callbacks of ready descriptors jump the queue.               *)
DeliverFirst ==
  /\ pc = "deliver"
  /\ \E e \in results :
       /\ results' = results \ {e}
       /\ m_pending_tasks' = HandlerTasks(e) \o m_pending_tasks
  /\ UNCHANGED <<pc, m_is_looping, tasks, m_stop_flag, wakeups, fdVars, post, jobs>>

DeliverEvent ==
  /\ pc = "deliver"
  /\ \E e \in results :
       /\ results' = results \ {e}
       /\ m_pending_tasks' = m_pending_tasks \o HandlerTasks(e)
  /\ UNCHANGED <<pc, m_is_looping, tasks, m_stop_flag, wakeups, fdVars, post, jobs>>

DeliverDone ==
  /\ pc = "deliver"
  /\ results = {}
  /\ pc' = "check"
  /\ UNCHANGED <<m_is_looping, tasks, results, m_stop_flag, m_pending_tasks,
                 wakeups, fdVars, post, jobs>>

-----------------------------------------------------------------------------
(* The other threads. addTask(cb, true) is two steps: the push under the    *)
(* lock, then the write to the eventfd.                                     *)

Push(t, task) ==
  /\ post[t] = "idle"
  /\ m_pending_tasks' = Append(m_pending_tasks, task)
  /\ post' = [post EXCEPT ![t] = "wake"]

AddTask(t, j) ==
  /\ jobs[j] = "new"
  /\ jobs' = [jobs EXCEPT ![j] = "queued"]
  /\ Push(t, [kind |-> "job", arg |-> j])
  /\ UNCHANGED <<loopVars, m_stop_flag, wakeups, fdVars>>

(* A new connection: listen in the caller's thread, then addEpollEvent      *)
(* posts the registration (TcpConnection::listenReadEvent).                 *)
RemoteAdd(t, f) ==
  /\ f \notin open
  /\ opens < MaxOpens
  /\ opens' = opens + 1
  /\ open' = open \cup {f}
  /\ Listen(f, "IN")
  /\ Push(t, [kind |-> "add", arg |-> f])
  /\ UNCHANGED <<loopVars, m_stop_flag, wakeups, m_listen_fds, watched, interest,
                 clientClosed, jobs>>

(* deleteEpollEvent of a descriptor the loop serves.                        *)
RemoteDelete(t, f) ==
  /\ f \in open
  /\ opens < MaxOpens
  /\ opens' = opens + 1
  /\ Push(t, [kind |-> "del", arg |-> f])
  /\ UNCHANGED <<loopVars, m_stop_flag, wakeups, m_listen_fds, watched, interest,
                 open, events, callbacks, clientClosed, jobs>>

(* m_stop_flag is never reset; a second stop() of the same loop would only  *)
(* add a wakeup and is left out.                                            *)
Stop(t) ==
  /\ post[t] = "idle"
  /\ ~m_stop_flag
  /\ m_stop_flag' = TRUE
  /\ post' = [post EXCEPT ![t] = "wake"]
  /\ UNCHANGED <<loopVars, m_pending_tasks, wakeups, fdVars, jobs>>

Wakeup(t) ==
  /\ post[t] = "wake"
  /\ wakeups' = wakeups + 1
  /\ post' = [post EXCEPT ![t] = "idle"]
  /\ UNCHANGED <<loopVars, m_stop_flag, m_pending_tasks, fdVars, jobs>>

-----------------------------------------------------------------------------
RunTask == RunWake \/ RunJob \/ RunAdd \/ RunDelete \/ RunRead \/ RunWrite

EpollStep == (\E R \in SUBSET Reports : EpollReturn(R)) \/ EpollTimeout \/ EpollInterrupted

LoopStep == \/ StartLoop \/ CheckStop \/ SwapTasks \/ RunTask \/ BatchDone
            \/ EpollStep \/ DeliverEvent \/ DeliverDone

PosterStep(t) ==
  \/ \E j \in Jobs : AddTask(t, j)
  \/ \E f \in Fds : RemoteAdd(t, f) \/ RemoteDelete(t, f)
  \/ Stop(t)
  \/ Wakeup(t)

(* loop() has returned and no caller is in the middle of a call.            *)
Ended ==
  /\ pc = "exited"
  /\ \A t \in Threads : post[t] = "idle"
  /\ UNCHANGED vars

Next == LoopStep \/ (\E t \in Threads : PosterStep(t)) \/ Ended

Spec == Init /\ [][Next]_vars

(* The loop thread keeps running. At epoll_wait it is only sure to come     *)
(* back for the eventfd or after g_epoll_max_timeout; no descriptor has to  *)
(* become ready and no signal has to arrive.                                *)
FairLoopStep ==
  \/ StartLoop \/ CheckStop \/ SwapTasks \/ RunTask \/ BatchDone
  \/ (\E R \in SUBSET Reports : WakeEvent \in R /\ EpollReturn(R))
  \/ EpollTimeout \/ DeliverEvent \/ DeliverDone

Fairness == WF_vars(FairLoopStep) /\ \A t \in Threads : WF_vars(Wakeup(t))

FairSpec == Spec /\ Fairness

-----------------------------------------------------------------------------
(* Properties.                                                              *)

Queued == tasks \o m_pending_tasks
Elements(s) == {s[i] : i \in 1..Len(s)}

(* The types of the loop's state.                                           *)
TypeOK ==
  /\ pc \in {"idle", "check", "swap", "run", "wait", "deliver", "exited"}
  /\ m_is_looping \in BOOLEAN
  /\ m_stop_flag \in BOOLEAN
  /\ m_pending_tasks \in Seq(Task)
  /\ tasks \in Seq(Task)
  /\ results \subseteq [fd : {WakeFd}, mask : {{"IN"}}] \cup [fd : Fds, mask : SUBSET Event]
  /\ wakeups \in Nat
  /\ m_listen_fds \subseteq Fds
  /\ watched \subseteq Fds
  /\ interest \in [Fds -> SUBSET Event]
  /\ open \subseteq Fds
  /\ events \in [Fds -> SUBSET Event]
  /\ callbacks \in [Fds -> SUBSET Event]
  /\ post \in [Threads -> {"idle", "wake"}]
  /\ jobs \in [Jobs -> {"new", "queued", "done"}]
  /\ clientClosed \subseteq Fds
  /\ opens \in Nat

(* The wakeup callback never spins: whenever one is waiting to run, it is   *)
(* the only one, and the eventfd has something to read (the EAGAIN loop of  *)
(* WakeupFdEvent's callback would hang the reactor).                        *)
WakeReadable ==
  /\ WakeTask \in Elements(Queued) => wakeups > 0
  /\ \A i, j \in 1..Len(Queued) : Queued[i] = WakeTask /\ Queued[j] = WakeTask => i = j

(* A callback taken from an FdEvent and waiting in the queue belongs to a   *)
(* connection that still exists (the callbacks capture a raw `this`): the   *)
(* close inside one callback leaves no second callback of the same          *)
(* descriptor behind, although events are queued and run later. The one     *)
(* exception is TcpClient::close, which leaves them in the batch; the loop  *)
(* it has stopped runs that batch to its end and takes no other.            *)
NoStaleHandler ==
  /\ \A task \in Elements(Queued) :
       task.kind \in Event /\ task.arg # WakeFd => task.arg \in open \cup clientClosed
  /\ clientClosed # {} => m_stop_flag /\ pc \notin {"idle", "swap"}

(* m_listen_fds and epoll agree on what is registered, except for what      *)
(* TcpClient::close has closed: there m_listen_fds may know a number that   *)
(* epoll has not, never the other way round. The mask epoll holds is the    *)
(* one in the FdEvent, each of whose events has a callback, so that no      *)
(* event is waited for that nobody handles.                                 *)
InterestMatches ==
  /\ watched \subseteq m_listen_fds \cap open
  /\ m_listen_fds \subseteq watched \cup clientClosed
  /\ \A f \in watched : interest[f] = events[f] /\ events[f] \subseteq callbacks[f]

(* Seen as one queue, the batch being run and the pending tasks are a FIFO  *)
(* that loses, duplicates and reorders nothing, whoever posts.              *)
Queue == INSTANCE TaskQueue WITH queue <- Queued, closed <- pc = "exited"
ImplementsQueue == Queue!Spec

(* A closure handed to addTask(cb, true) is eventually run unless the loop  *)
(* is stopped.                                                              *)
PostedRuns == \A j \in Jobs : jobs[j] = "queued" ~> jobs[j] = "done" \/ m_stop_flag

(* stop() eventually makes loop() return.                                   *)
StopReturns == m_stop_flag ~> pc = "exited"

(* eventloop.h: with is_wakeup the loop thread is woken at once. Whenever   *)
(* the loop is blocked in epoll_wait and every addTask(cb, true) has        *)
(* returned, work waiting in m_pending_tasks has the eventfd readable.      *)
WokenAtOnce ==
  pc = "wait" /\ m_pending_tasks # <<>> /\ (\A t \in Threads : post[t] = "idle")
    => wakeups > 0
=============================================================================
