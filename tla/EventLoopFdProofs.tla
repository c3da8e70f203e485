------------------------- MODULE EventLoopFdProofs -------------------------
(* Proofs about the descriptors of the event loop: which of them epoll      *)
(* watches, and which callbacks of theirs wait in the queue.                *)
EXTENDS EventLoopProofs

(* A task that uses the connection behind f: a callback of its FdEvent, or  *)
(* the closure of addEpollEvent.                                            *)
Uses(task, f) == task.arg = f /\ task.kind \in Event \cup {"add"}
Adds(task, f) == task.arg = f /\ task.kind = "add"

(* The descriptors no TcpClient::close has closed: the ones the rest of the *)
(* invariant can speak of.                                                  *)
Kept == Fds \ clientClosed

(* A sequence of tasks that uses f, and one that uses no f of F twice.      *)
Used(s, f)   == \E i \in 1..Len(s) : Uses(s[i], f)
Adding(s, f) == \E i \in 1..Len(s) : Adds(s[i], f)
UsedOnce(s, F) == \A i, j \in 1..Len(s) : \A f \in F : Uses(s[i], f) /\ Uses(s[j], f) => i = j

(* A sequence without callbacks of connections; an f epoll has reported.    *)
NoHandler(s) == \A i \in 1..Len(s) : s[i].kind \in Event => s[i].arg = WakeFd
Reported(f)  == \E e \in results : e.fd = f

(* The inductive invariant behind NoStaleHandler and InterestMatches. First *)
(* where tasks, results and callbacks can be at each point of the loop.     *)
LoopPoints ==
  /\ pc # "run" => tasks = <<>>
  /\ pc # "deliver" => results = {}
  /\ pc \in {"idle", "run", "wait"} => NoHandler(m_pending_tasks)

(* Only one place at a time holds a use of a connection.                    *)
OneUse ==
  /\ UsedOnce(tasks, Kept) /\ UsedOnce(m_pending_tasks, Kept)
  /\ \A e1, e2 \in results : e1.fd = e2.fd => e1 = e2
  /\ \A f \in Kept : /\ ~(Used(tasks, f) /\ Used(m_pending_tasks, f))
                     /\ Reported(f) => ~Used(tasks, f) /\ ~Used(m_pending_tasks, f)

(* What is used is open; what is being added is not watched yet.            *)
UseOpen ==
  \A f \in Kept :
    /\ Used(tasks, f) \/ Used(m_pending_tasks, f) \/ Reported(f) => f \in open
    /\ Adding(tasks, f) \/ Adding(m_pending_tasks, f) => f \notin watched

(* The loop, epoll and the FdEvents agree on what is watched; only numbers  *)
(* that TcpClient::close has closed can be in m_listen_fds alone.           *)
Registered ==
  /\ watched \subseteq m_listen_fds
  /\ watched \subseteq open
  /\ m_listen_fds \subseteq watched \cup clientClosed
  /\ \A f \in watched : interest[f] = events[f]
  /\ \A f \in Fds : events[f] \subseteq callbacks[f]

(* TcpClient::close has stopped the loop, which starts no further batch.    *)
LastBatch == clientClosed # {} => m_stop_flag /\ pc \notin {"idle", "swap"}

FdInv == LoopPoints /\ OneUse /\ UseOpen /\ Registered /\ LastBatch

-----------------------------------------------------------------------------
(* Uses in a queue that grows and shrinks.                                  *)

LEMMA EmptyUse ==
  NoHandler(<<>>) /\ (\A F : UsedOnce(<<>>, F)) /\ \A f : ~Used(<<>>, f) /\ ~Adding(<<>>, f)
  BY DEF NoHandler, UsedOnce, Used, Adding

LEMMA AddingUses ==
  ASSUME NEW s, NEW f, Adding(s, f)
  PROVE  Used(s, f)
  BY DEF Adding, Used, Adds, Uses

LEMMA AppendUse ==
  ASSUME NEW s \in Seq(Task), NEW task \in Task, NEW F
  PROVE  /\ \A f : Used(Append(s, task), f) <=> Used(s, f) \/ Uses(task, f)
         /\ \A f : Adding(Append(s, task), f) <=> Adding(s, f) \/ Adds(task, f)
         /\ UsedOnce(s, F) /\ (\A f \in F : Uses(task, f) => ~Used(s, f)) => UsedOnce(Append(s, task), F)
         /\ NoHandler(s) /\ task.kind \notin Event => NoHandler(Append(s, task))
<1>1. /\ Len(s) \in Nat /\ Len(Append(s, task)) = Len(s) + 1
      /\ \A i \in 1..Len(s) : Append(s, task)[i] = s[i]
      /\ Append(s, task)[Len(s) + 1] = task
  BY AppendProperties, LenProperties
<1>2. \A i \in 1..Len(s) + 1 : i \in 1..Len(s) \/ i = Len(s) + 1
  BY <1>1
<1>3. Len(s) + 1 \in 1..Len(s) + 1 /\ \A i \in 1..Len(s) : i \in 1..Len(s) + 1
  BY <1>1
<1>4. \A f : Used(Append(s, task), f) <=> Used(s, f) \/ Uses(task, f)
  BY <1>1, <1>2, <1>3 DEF Used
<1>5. \A f : Adding(Append(s, task), f) <=> Adding(s, f) \/ Adds(task, f)
  BY <1>1, <1>2, <1>3 DEF Adding
<1>6. ASSUME UsedOnce(s, F), \A f \in F : Uses(task, f) => ~Used(s, f)
      PROVE  UsedOnce(Append(s, task), F)
  <2> SUFFICES ASSUME NEW i \in 1..Len(s) + 1, NEW j \in 1..Len(s) + 1, NEW f \in F,
                      Uses(Append(s, task)[i], f), Uses(Append(s, task)[j], f)
               PROVE  i = j
    BY <1>1 DEF UsedOnce
  <2> QED
    BY <1>1, <1>2, <1>6 DEF UsedOnce, Used
<1>7. NoHandler(s) /\ task.kind \notin Event => NoHandler(Append(s, task))
  BY <1>1, <1>2 DEF NoHandler
<1> QED
  BY <1>4, <1>5, <1>6, <1>7

LEMMA TailUse ==
  ASSUME NEW s \in Seq(Task), s # <<>>, NEW F
  PROVE  /\ \A f : Used(Tail(s), f) => Used(s, f)
         /\ \A f : Adding(Tail(s), f) => Adding(s, f)
         /\ \A f : Uses(Head(s), f) => Used(s, f)
         /\ UsedOnce(s, F) => UsedOnce(Tail(s), F)
         /\ UsedOnce(s, F) => \A f \in F : Uses(Head(s), f) => ~Used(Tail(s), f)
<1>1. /\ Len(Tail(s)) = Len(s) - 1
      /\ \A i \in 1..Len(Tail(s)) : Tail(s)[i] = s[i + 1]
      /\ Head(s) = s[1] /\ Len(s) \in Nat /\ Len(s) >= 1
  BY HeadTailProperties, LenProperties, EmptySeq
<1>2. \A i \in 1..Len(Tail(s)) : i + 1 \in 1..Len(s) /\ i + 1 # 1
  BY <1>1
<1>3. 1 \in 1..Len(s)
  BY <1>1
<1>4. /\ \A f : Used(Tail(s), f) => Used(s, f)
      /\ \A f : Adding(Tail(s), f) => Adding(s, f)
      /\ \A f : Uses(Head(s), f) => Used(s, f)
  BY <1>1, <1>2, <1>3 DEF Used, Adding
<1>5. ASSUME UsedOnce(s, F)
      PROVE  UsedOnce(Tail(s), F) /\ \A f \in F : Uses(Head(s), f) => ~Used(Tail(s), f)
  <2>1. UsedOnce(Tail(s), F)
    <3> SUFFICES ASSUME NEW i \in 1..Len(Tail(s)), NEW j \in 1..Len(Tail(s)), NEW f \in F,
                        Uses(Tail(s)[i], f), Uses(Tail(s)[j], f)
                 PROVE  i = j
      BY DEF UsedOnce
    <3>1. i + 1 = j + 1
      BY <1>1, <1>2, <1>5 DEF UsedOnce
    <3> QED
      BY <3>1
  <2>2. ASSUME NEW f \in F, Uses(Head(s), f), Used(Tail(s), f) PROVE FALSE
    <3>1. PICK i \in 1..Len(Tail(s)) : Uses(Tail(s)[i], f)
      BY <2>2 DEF Used
    <3>2. i + 1 = 1
      BY <1>1, <1>2, <1>3, <1>5, <2>2, <3>1 DEF UsedOnce
    <3> QED
      BY <3>2
  <2> QED
    BY <2>1, <2>2
<1> QED
  BY <1>4, <1>5

-----------------------------------------------------------------------------
(* Every action keeps the invariant.                                        *)

LEMMA InitFdInv == Init => FdInv
<1> SUFFICES ASSUME Init PROVE FdInv
  OBVIOUS
<1>1. LoopPoints
  BY EmptyUse DEF Init, LoopPoints
<1>2. OneUse /\ UseOpen
  BY EmptyUse DEF Init, OneUse, UseOpen, Reported
<1>3. Registered /\ LastBatch
  BY DEF Init, Registered, LastBatch
<1> QED
  BY <1>1, <1>2, <1>3 DEF FdInv

(* Closing a descriptor takes it, and at most it, out of what the invariant *)
(* speaks of.                                                               *)
LEMMA ClientCloseRegistered ==
  ASSUME TypeOK, Registered, NEW f \in Fds, ClientClose(f)
  PROVE  Registered' /\ (\A g \in Kept' : g \in Kept /\ g # f) /\ open' = open \ {f} /\ watched' \subseteq watched
<1>1. /\ clientClosed' = clientClosed \cup {f} /\ open' = open \ {f} /\ watched' = watched \ {f}
      /\ events' = [events EXCEPT ![f] = {}]
      /\ UNCHANGED <<callbacks, m_listen_fds, interest>>
  BY DEF ClientClose, CloseFd
<1>2. Registered'
  BY <1>1 DEF Registered, TypeOK
<1> QED
  BY <1>1, <1>2 DEF Kept

(* ADD_TO_EPOLL with the mask of the FdEvent: accepted or refused, epoll's  *)
(* mask and the FdEvent's agree for what is watched.                        *)
LEMMA AddRegistered ==
  ASSUME TypeOK, Registered, NEW f \in Fds, f \in open \cup clientClosed,
         AddToEpoll(f, events'[f]), UNCHANGED <<open, clientClosed>>,
         \A g \in Fds \ {f} : events'[g] = events[g],
         \A g \in Fds : events'[g] \subseteq callbacks'[g]
  PROVE  Registered'
<1> DEFINE accepted == f \in open /\ (f \in m_listen_fds) = (f \in watched)
<1>1. m_listen_fds' = m_listen_fds \cup {f} /\ interest \in [Fds -> SUBSET Event] /\ watched \subseteq Fds
  BY DEF AddToEpoll, TypeOK
<1>2. CASE accepted
  <2>1. watched' = watched \cup {f} /\ interest' = [interest EXCEPT ![f] = events'[f]]
    BY <1>2 DEF AddToEpoll
  <2>2. \A g \in watched' : interest'[g] = events'[g]
    BY <1>1, <2>1 DEF Registered
  <2> QED
    BY <1>1, <1>2, <2>1, <2>2 DEF Registered
<1>3. CASE ~accepted
  <2>1. watched' = watched /\ interest' = interest /\ f \notin watched
    BY <1>3 DEF AddToEpoll, Registered
  <2>2. f \in m_listen_fds' => f \in watched' \cup clientClosed'
    <3>1. f \in m_listen_fds \/ f \notin open
      BY <1>3, <2>1
    <3> QED
      BY <2>1, <3>1 DEF Registered
  <2>3. \A g \in watched' : interest'[g] = events'[g]
    BY <1>1, <2>1 DEF Registered
  <2> QED
    BY <1>1, <2>1, <2>2, <2>3 DEF Registered
<1> QED
  BY <1>2, <1>3

(* What the invariant says of the queue survives a step that runs the first *)
(* task of the batch and closes no descriptor the queue still uses.         *)
LEMMA RunQueue ==
  ASSUME TypeOK, FdInv, tasks # <<>>, pc = "run", pc' = "run", tasks' = Tail(tasks),
         UNCHANGED <<results, m_pending_tasks>>, Kept' \subseteq Kept,
         \A g \in Kept' : /\ g \in open' \/ g \notin open
                            \/ (~Used(tasks', g) /\ ~Used(m_pending_tasks', g))
                          /\ g \in watched' => g \in watched \/ Uses(Head(tasks), g)
  PROVE  LoopPoints' /\ OneUse' /\ UseOpen'
<1>1. /\ tasks \in Seq(Task) /\ Head(tasks) \in Task /\ results = {}
  BY HeadTailProperties DEF TypeOK, FdInv, LoopPoints
<1>2. LoopPoints'
  BY <1>1 DEF LoopPoints, FdInv
<1>3. /\ UsedOnce(tasks, Kept')
      /\ UsedOnce(m_pending_tasks, Kept')
  BY DEF FdInv, OneUse, UsedOnce
<1>4. /\ UsedOnce(tasks', Kept')
      /\ \A g \in Kept' : Uses(Head(tasks), g) => ~Used(tasks', g)
  BY <1>1, <1>3, TailUse
<1>5. /\ \A g : Used(tasks', g) => Used(tasks, g)
      /\ \A g : Adding(tasks', g) => Adding(tasks, g)
      /\ \A g : Uses(Head(tasks), g) => Used(tasks, g)
  BY <1>1, TailUse
<1>6. \A g \in Kept' : ~(Used(tasks', g) /\ Used(m_pending_tasks', g)) /\ ~Reported(g)'
  BY <1>1, <1>5 DEF FdInv, OneUse, Reported
<1>7. OneUse'
  BY <1>1, <1>3, <1>4, <1>6 DEF OneUse
<1>8. ASSUME NEW g \in Kept'
      PROVE  /\ Used(tasks', g) \/ Used(m_pending_tasks', g) \/ Reported(g)' => g \in open'
             /\ Adding(tasks', g) \/ Adding(m_pending_tasks', g) => g \notin watched'
  <2>1. g \in Kept /\ (Used(tasks', g) \/ Used(m_pending_tasks', g) => g \in open)
    BY <1>5 DEF FdInv, UseOpen
  <2>2. Used(tasks', g) \/ Used(m_pending_tasks', g) \/ Reported(g)' => g \in open'
    BY <1>6, <1>8, <2>1
  <2>3. Uses(Head(tasks), g) => ~Used(tasks', g) /\ ~Used(m_pending_tasks', g)
    BY <1>4, <1>5, <1>8, <2>1 DEF FdInv, OneUse
  <2>4. Adding(tasks', g) \/ Adding(m_pending_tasks', g) => g \notin watched /\ ~Uses(Head(tasks), g)
    BY <1>5, <2>1, <2>3, AddingUses DEF FdInv, UseOpen
  <2> QED
    BY <1>8, <2>2, <2>4
<1>9. UseOpen'
  BY <1>8 DEF UseOpen
<1> QED
  BY <1>2, <1>7, <1>9

LEMMA RunFdInv ==
  ASSUME TypeOK, FdInv, RunTask
  PROVE  FdInv'
<1> DEFINE f == Head(tasks).arg
<1>1. /\ pc = "run" /\ pc' = "run" /\ tasks # <<>> /\ tasks' = Tail(tasks)
      /\ UNCHANGED <<results, m_pending_tasks>>
      /\ results = {} /\ tasks \in Seq(Task) /\ Head(tasks) \in Task
  BY HeadTailProperties
  DEF RunTask, RunWake, RunJob, RunAdd, RunDelete, RunRead, RunWrite, Running,
         FdInv, LoopPoints, TypeOK
<1>2. ASSUME UNCHANGED fdVars, m_stop_flag' = m_stop_flag PROVE FdInv'
  <2>1. Registered' /\ LastBatch' /\ Kept' = Kept /\ open' = open /\ watched' = watched
    BY <1>1, <1>2 DEF Registered, LastBatch, Kept, FdInv, fdVars
  <2> QED
    BY <1>1, <2>1, RunQueue DEF FdInv
<1>3. ASSUME NEW g \in Fds, ClientClose(g) PROVE FdInv'
  <2>1. /\ Registered' /\ (\A h \in Kept' : h \in Kept /\ h # g)
        /\ open' = open \ {g} /\ watched' \subseteq watched
    BY <1>3, ClientCloseRegistered DEF FdInv
  <2>2. LastBatch'
    BY <1>1, <1>3 DEF LastBatch, ClientClose
  <2>3. LoopPoints' /\ OneUse' /\ UseOpen'
    BY <1>1, <2>1, RunQueue
  <2> QED
    BY <2>1, <2>2, <2>3 DEF FdInv
<1>4. ASSUME f \in Fds, Uses(Head(tasks), f), open' = open, clientClosed' = clientClosed,
             m_stop_flag' = m_stop_flag,
             \A g \in Fds \ {f} : g \in watched' <=> g \in watched,
             Registered'
      PROVE  FdInv'
  <2>1. Kept' = Kept /\ LastBatch'
    BY <1>1, <1>4 DEF Kept, LastBatch, FdInv
  <2>2. \A g \in Kept' : g \in watched' => g \in watched \/ Uses(Head(tasks), g)
    BY <1>4, <2>1 DEF Kept
  <2>3. LoopPoints' /\ OneUse' /\ UseOpen'
    BY <1>1, <1>4, <2>1, <2>2, RunQueue
  <2> QED
    BY <1>4, <2>1, <2>3 DEF FdInv
<1>5. CASE RunWake
  BY <1>2, <1>5 DEF RunWake
<1>6. CASE RunJob
  BY <1>2, <1>3, <1>6 DEF RunJob
<1>7. ASSUME f \in Kept, Uses(Head(tasks), f)
      PROVE  f \in open /\ ~Used(tasks', f) /\ ~Used(m_pending_tasks', f)
  BY <1>1, <1>7, TailUse DEF FdInv, OneUse, UseOpen
<1>8. CASE RunAdd
  <2>1. f \in Fds /\ Uses(Head(tasks), f)
    BY <1>1, <1>8 DEF RunAdd, Running, Task, Event, Uses
  <2>2. f \in open \/ f \in clientClosed
    BY <1>7, <2>1 DEF Kept
  <2>3. /\ AddToEpoll(f, events[f])
        /\ UNCHANGED <<open, events, callbacks, clientClosed, m_stop_flag>>
    BY <1>8 DEF RunAdd
  <2>4. Registered'
    BY <2>1, <2>2, <2>3 DEF AddToEpoll, Registered, FdInv, TypeOK
  <2> QED
    BY <1>4, <2>1, <2>3, <2>4 DEF AddToEpoll
<1>9. CASE RunDelete
  <2>1. /\ DeleteFromEpoll(f)
        /\ UNCHANGED <<open, events, callbacks, clientClosed, m_stop_flag>>
    BY <1>9 DEF RunDelete
  <2>2. Registered' /\ LastBatch' /\ Kept' = Kept /\ watched' \subseteq watched
    BY <1>1, <2>1 DEF DeleteFromEpoll, Registered, LastBatch, Kept, FdInv
  <2>3. LoopPoints' /\ OneUse' /\ UseOpen'
    BY <1>1, <2>1, <2>2, RunQueue
  <2> QED
    BY <2>2, <2>3 DEF FdInv
<1>10. CASE RunRead
  <2>1. f \in Fds /\ Uses(Head(tasks), f)
    BY <1>1, <1>10 DEF RunRead, Running, Task, Event, Uses
  <2>2. CASE UNCHANGED <<m_stop_flag, wakeups, fdVars>>
    BY <1>2, <2>2
  <2>3. CASE /\ f \in open /\ Listen(f, "OUT") /\ AddToEpoll(f, events'[f])
             /\ UNCHANGED <<m_stop_flag, wakeups, open, clientClosed, opens>>
    <3>1. /\ \A g \in Fds \ {f} : events'[g] = events[g]
          /\ \A g \in Fds : events'[g] \subseteq callbacks'[g]
      BY <2>1, <2>3 DEF Listen, Registered, FdInv, TypeOK
    <3>2. Registered'
      BY <2>1, <2>3, <3>1, AddRegistered DEF FdInv
    <3> QED
      BY <1>4, <2>1, <2>3, <3>2 DEF AddToEpoll
  <2>4. CASE /\ f \in open /\ DeleteFromEpoll(f) /\ CloseFd(f)
             /\ UNCHANGED <<m_stop_flag, wakeups, clientClosed, opens>>
    <3>1. Registered'
      BY <2>1, <2>4 DEF DeleteFromEpoll, CloseFd, Registered, FdInv, TypeOK
    <3>2. /\ LastBatch' /\ Kept' = Kept /\ watched' \subseteq watched /\ open' = open \ {f}
      BY <1>1, <2>4 DEF LastBatch, Kept, DeleteFromEpoll, CloseFd, FdInv
    <3>3. \A g \in Kept' : g \in open' \/ g \notin open
                             \/ (~Used(tasks', g) /\ ~Used(m_pending_tasks', g))
      BY <1>7, <2>1, <3>2
    <3>4. LoopPoints' /\ OneUse' /\ UseOpen'
      BY <1>1, <3>2, <3>3, RunQueue
    <3> QED
      BY <3>1, <3>2, <3>4 DEF FdInv
  <2>5. CASE f \in open /\ ClientClose(f)
    BY <1>3, <2>1, <2>5
  <2> QED
    BY <1>10, <2>2, <2>3, <2>4, <2>5 DEF RunRead
<1>11. CASE RunWrite
  <2>1. f \in Fds /\ Uses(Head(tasks), f) /\ m_stop_flag' = m_stop_flag
    BY <1>1, <1>11 DEF RunWrite, Running, Task, Event, Uses
  <2>2. CASE UNCHANGED fdVars
    BY <1>2, <2>1, <2>2
  <2>3. CASE /\ f \in open /\ ClearEvent(f, "OUT") /\ AddToEpoll(f, events'[f])
             /\ UNCHANGED <<open, clientClosed, opens>>
    <3>1. /\ \A g \in Fds \ {f} : events'[g] = events[g]
          /\ \A g \in Fds : events'[g] \subseteq callbacks'[g]
      BY <2>1, <2>3 DEF ClearEvent, Registered, FdInv, TypeOK
    <3>2. Registered'
      BY <2>1, <2>3, <3>1, AddRegistered DEF FdInv
    <3> QED
      BY <1>4, <2>1, <2>3, <3>2 DEF AddToEpoll
  <2> QED
    BY <1>11, <2>2, <2>3 DEF RunWrite
<1> QED
  BY <1>5, <1>6, <1>8, <1>9, <1>10, <1>11 DEF RunTask

(* epoll_wait reports watched descriptors only, when no callback and no     *)
(* registration of theirs is waiting.                                       *)
LEMMA ReturnFdInv ==
  ASSUME TypeOK, FdInv, NEW R \in SUBSET Reports, EpollReturn(R)
  PROVE  FdInv'
<1>1. /\ pc = "wait" /\ pc' = "deliver" /\ results' = R /\ tasks = <<>> /\ results = {}
      /\ UNCHANGED <<tasks, m_pending_tasks, fdVars>>
      /\ NoHandler(m_pending_tasks) /\ Ready(R)
  BY DEF EpollReturn, FdInv, LoopPoints
<1>2. LoopPoints'
  BY <1>1 DEF LoopPoints
<1>3. ASSUME NEW f \in Kept, Reported(f)'
      PROVE  f \in watched /\ f \in open /\ ~Used(tasks, f) /\ ~Used(m_pending_tasks, f)
  <2>1. f \in watched
    BY <1>1, <1>3, WakeFdAssumption DEF Reported, Reports, WakeEvent, Kept
  <2>2. f \in open
    BY <2>1 DEF FdInv, Registered
  <2>3. ~Adding(m_pending_tasks, f)
    BY <2>1 DEF FdInv, UseOpen
  <2>4. ~Used(m_pending_tasks, f)
    BY <1>1, <1>3, <2>3, WakeFdAssumption DEF Used, Uses, Adding, Adds, NoHandler, Kept
  <2> QED
    BY <1>1, <2>1, <2>2, <2>4, EmptyUse
<1>4. (\A e1, e2 \in R : e1.fd = e2.fd => e1 = e2) /\ Kept' = Kept
  BY <1>1 DEF Ready, Kept, fdVars
<1>5. OneUse'
  BY <1>1, <1>3, <1>4 DEF OneUse, FdInv
<1>6. UseOpen'
  BY <1>1, <1>3, <1>4 DEF UseOpen, FdInv, fdVars
<1>7. Registered' /\ LastBatch'
  BY <1>1 DEF Registered, LastBatch, FdInv, fdVars, EpollReturn
<1> QED
  BY <1>2, <1>5, <1>6, <1>7 DEF FdInv

LEMMA DeliverFdInv ==
  ASSUME TypeOK, FdInv, DeliverEvent
  PROVE  FdInv'
<1>1. PICK e \in results : /\ results' = results \ {e}
                           /\ m_pending_tasks' = m_pending_tasks \o HandlerTasks(e)
  BY DEF DeliverEvent
<1>2. /\ pc = "deliver" /\ UNCHANGED <<pc, tasks, fdVars>> /\ tasks = <<>>
      /\ m_pending_tasks \in Seq(Task)
      /\ e \in [fd : {WakeFd}, mask : {{"IN"}}] \cup [fd : Fds, mask : SUBSET Event]
  BY DEF DeliverEvent, FdInv, LoopPoints, TypeOK
<1>3. /\ Handler(e) \in Task
      /\ m_pending_tasks' = m_pending_tasks \/ m_pending_tasks' = Append(m_pending_tasks, Handler(e))
  BY <1>1, <1>2, HandlerTasksType, ConcatEmptySeq, AppendIsConcat
<1>4. /\ \A f \in Fds : Uses(Handler(e), f) => e.fd = f
      /\ \A f \in Fds : ~Adds(Handler(e), f)
  BY <1>2, WakeFdAssumption DEF Handler, Uses, Adds, WakeTask, WakeEvent
<1>5. ASSUME NEW f \in Kept, Uses(Handler(e), f)
      PROVE  /\ f \in open /\ ~Used(tasks, f) /\ ~Used(m_pending_tasks, f)
             /\ \A d \in results' : d.fd # f
  <2>1. Reported(f) /\ \A d \in results' : d.fd # f
    BY <1>1, <1>4, <1>5 DEF Reported, FdInv, OneUse, Kept
  <2> QED
    BY <2>1 DEF FdInv, OneUse, UseOpen
<1>6. \A f \in Fds : Used(m_pending_tasks', f) => Used(m_pending_tasks, f) \/ Uses(Handler(e), f)
  <2>1. CASE m_pending_tasks' = m_pending_tasks
    BY <2>1
  <2>2. CASE m_pending_tasks' = Append(m_pending_tasks, Handler(e))
    BY <1>2, <1>3, <2>2, AppendUse
  <2> QED
    BY <1>3, <2>1, <2>2
<1>7. \A f \in Fds : Adding(m_pending_tasks', f) => Adding(m_pending_tasks, f)
  <2>1. CASE m_pending_tasks' = m_pending_tasks
    BY <2>1
  <2>2. CASE m_pending_tasks' = Append(m_pending_tasks, Handler(e))
    BY <1>2, <1>3, <1>4, <2>2, AppendUse
  <2> QED
    BY <1>3, <2>1, <2>2
<1>8. \A f \in Fds : Reported(f)' => Reported(f)
  BY <1>1 DEF Reported
<1>9. UsedOnce(m_pending_tasks', Kept)
  <2>1. UsedOnce(m_pending_tasks, Kept) /\ \A f \in Kept : Uses(Handler(e), f) => ~Used(m_pending_tasks, f)
    BY <1>5 DEF FdInv, OneUse
  <2>2. UsedOnce(Append(m_pending_tasks, Handler(e)), Kept)
    BY <1>2, <1>3, <2>1, AppendUse
  <2> QED
    BY <1>3, <2>1, <2>2
<1>10. LoopPoints' /\ Kept' = Kept /\ Kept \subseteq Fds
  BY <1>2 DEF LoopPoints, Kept, fdVars
<1>11. OneUse'
  <2>1. \A e1, e2 \in results' : e1.fd = e2.fd => e1 = e2
    BY <1>1 DEF FdInv, OneUse
  <2>2. ASSUME NEW f \in Kept
        PROVE  /\ ~(Used(tasks', f) /\ Used(m_pending_tasks', f))
               /\ Reported(f)' => ~Used(tasks', f) /\ ~Used(m_pending_tasks', f)
    BY <1>2, <1>5, <1>6, <1>8, <1>10 DEF FdInv, OneUse, Reported
  <2> QED
    BY <1>2, <1>9, <1>10, <2>1, <2>2 DEF FdInv, OneUse
<1>12. UseOpen'
  BY <1>2, <1>5, <1>6, <1>7, <1>8, <1>10 DEF FdInv, UseOpen, fdVars
<1>13. Registered' /\ LastBatch'
  BY <1>2 DEF FdInv, Registered, LastBatch, fdVars, DeliverEvent
<1> QED
  BY <1>10, <1>11, <1>12, <1>13 DEF FdInv

LEMMA LoopFdInv ==
  ASSUME TypeOK, FdInv, LoopStep
  PROVE  FdInv'
<1>1. ASSUME UNCHANGED <<tasks, results, m_pending_tasks, fdVars>>, LoopPoints', LastBatch'
      PROVE  FdInv'
  BY <1>1 DEF FdInv, OneUse, UseOpen, Registered, Kept, Reported, fdVars
<1>2. CASE StartLoop
  BY <1>1, <1>2 DEF StartLoop, FdInv, LoopPoints, LastBatch, fdVars
<1>3. CASE CheckStop
  BY <1>1, <1>3 DEF CheckStop, FdInv, LoopPoints, LastBatch, fdVars
<1>4. CASE SwapTasks
  <2>1. /\ tasks = <<>> /\ tasks' = m_pending_tasks /\ m_pending_tasks' = <<>>
        /\ UNCHANGED <<results, fdVars>> /\ results = {} /\ pc' = "run"
    BY <1>4 DEF SwapTasks, FdInv, LoopPoints
  <2>2. LoopPoints' /\ OneUse'
    BY <2>1, EmptyUse DEF FdInv, LoopPoints, OneUse, Kept, Reported, fdVars
  <2>3. UseOpen' /\ Registered'
    BY <2>1, EmptyUse DEF FdInv, UseOpen, Registered, Kept, Reported, fdVars
  <2>4. LastBatch'
    BY <1>4 DEF SwapTasks, FdInv, LastBatch, fdVars
  <2> QED
    BY <2>2, <2>3, <2>4 DEF FdInv
<1>5. CASE RunTask
  BY <1>5, RunFdInv
<1>6. CASE BatchDone
  BY <1>1, <1>6 DEF BatchDone, FdInv, LoopPoints, LastBatch, fdVars
<1>7. CASE EpollStep
  <2>1. CASE EpollTimeout \/ EpollInterrupted
    BY <1>1, <2>1 DEF EpollTimeout, EpollInterrupted, FdInv, LoopPoints, LastBatch, fdVars
  <2> QED
    BY <1>7, <2>1, ReturnFdInv DEF EpollStep
<1>8. CASE DeliverEvent
  BY <1>8, DeliverFdInv
<1>9. CASE DeliverDone
  BY <1>1, <1>9 DEF DeliverDone, FdInv, LoopPoints, LastBatch, fdVars
<1> QED
  BY <1>2, <1>3, <1>4, <1>5, <1>6, <1>7, <1>8, <1>9 DEF LoopStep

(* Other threads add only descriptors that are not in use.                  *)
LEMMA PosterFdInv ==
  ASSUME TypeOK, FdInv, NEW t \in Threads, PosterStep(t)
  PROVE  FdInv'
<1>1. ASSUME NEW task \in Task, task.kind \notin Event, m_pending_tasks' = Append(m_pending_tasks, task),
             UNCHANGED <<loopVars, clientClosed, m_stop_flag>>
      PROVE  /\ LoopPoints' /\ LastBatch' /\ Kept' = Kept
             /\ \A f : Used(m_pending_tasks', f) <=> Used(m_pending_tasks, f) \/ Uses(task, f)
             /\ \A f : Adding(m_pending_tasks', f) <=> Adding(m_pending_tasks, f) \/ Adds(task, f)
             /\ (\A f \in Kept : Uses(task, f) => ~Used(m_pending_tasks, f)) => UsedOnce(m_pending_tasks', Kept)
             /\ \A f : Reported(f)' <=> Reported(f)
  <2>1. m_pending_tasks \in Seq(Task) /\ UsedOnce(m_pending_tasks, Kept)
    BY DEF TypeOK, FdInv, OneUse
  <2>2. NoHandler(m_pending_tasks) => NoHandler(m_pending_tasks')
    BY <1>1, <2>1, AppendUse
  <2>3. LoopPoints'
    BY <1>1, <2>2 DEF LoopPoints, FdInv, loopVars
  <2>4. LastBatch' /\ Kept' = Kept
    BY <1>1 DEF LastBatch, Kept, FdInv, loopVars
  <2> QED
    BY <1>1, <2>1, <2>3, <2>4, AppendUse DEF Reported, loopVars
<1>2. ASSUME NEW task \in Task, task.kind \notin Event \cup {"add"},
             m_pending_tasks' = Append(m_pending_tasks, task),
             UNCHANGED <<loopVars, m_stop_flag, m_listen_fds, watched, interest, open, events,
                         callbacks, clientClosed>>
      PROVE  FdInv'
  <2>1. \A f : ~Uses(task, f) /\ ~Adds(task, f)
    BY <1>2 DEF Uses, Adds
  <2>2. LoopPoints' /\ OneUse'
    BY <1>1, <1>2, <2>1 DEF FdInv, OneUse, loopVars
  <2>3. UseOpen' /\ LastBatch'
    BY <1>1, <1>2, <2>1 DEF FdInv, UseOpen, loopVars
  <2>4. Registered'
    BY <1>2 DEF FdInv, Registered
  <2> QED
    BY <2>2, <2>3, <2>4 DEF FdInv
<1>3. ASSUME NEW j \in Jobs, AddTask(t, j) PROVE FdInv'
  BY <1>2, <1>3 DEF AddTask, Push, Task, Event, fdVars
<1>4. ASSUME NEW f \in Fds, RemoteDelete(t, f) PROVE FdInv'
  BY <1>2, <1>4 DEF RemoteDelete, Push, Task, Event
<1>5. ASSUME NEW f \in Fds, RemoteAdd(t, f) PROVE FdInv'
  <2> DEFINE task == [kind |-> "add", arg |-> f]
  <2>1. /\ f \notin open /\ open' = open \cup {f} /\ Listen(f, "IN")
        /\ m_pending_tasks' = Append(m_pending_tasks, task)
        /\ UNCHANGED <<loopVars, m_stop_flag, m_listen_fds, watched, interest, clientClosed>>
    BY <1>5 DEF RemoteAdd, Push
  <2>2. task \in Task /\ task.kind \notin Event
    BY DEF Task, Event
  <2>3. \A g : Uses(task, g) <=> g = f
    BY DEF Uses, Event
  <2>4. \A g : Adds(task, g) <=> g = f
    BY DEF Adds
  <2>5. /\ f \notin watched
        /\ f \in Kept => ~Used(tasks, f) /\ ~Used(m_pending_tasks, f) /\ ~Reported(f)
    BY <2>1 DEF FdInv, UseOpen, Registered
  <2> HIDE DEF task
  <2>6. /\ LoopPoints' /\ LastBatch' /\ Kept' = Kept /\ UsedOnce(m_pending_tasks', Kept)
        /\ \A g : Used(m_pending_tasks', g) <=> Used(m_pending_tasks, g) \/ g = f
        /\ \A g : Adding(m_pending_tasks', g) <=> Adding(m_pending_tasks, g) \/ g = f
        /\ \A g : Reported(g)' <=> Reported(g)
    BY <1>1, <2>1, <2>2, <2>3, <2>4, <2>5
  <2>7. OneUse'
    BY <2>1, <2>5, <2>6 DEF FdInv, OneUse, loopVars
  <2>8. UseOpen'
    BY <2>1, <2>5, <2>6 DEF FdInv, UseOpen, loopVars
  <2>9. Registered'
    BY <2>1, <2>5 DEF FdInv, Registered, Listen, TypeOK
  <2> QED
    BY <2>6, <2>7, <2>8, <2>9 DEF FdInv
<1>6. CASE Stop(t) \/ Wakeup(t)
  BY <1>6 DEF Stop, Wakeup, FdInv, LoopPoints, OneUse, UseOpen, Registered, LastBatch, Kept,
              Reported, loopVars, fdVars
<1> QED
  BY <1>3, <1>4, <1>5, <1>6 DEF PosterStep

LEMMA NextFdInv == TypeOK /\ FdInv /\ [Next]_vars => FdInv'
<1> SUFFICES ASSUME TypeOK, FdInv, [Next]_vars PROVE FdInv'
  OBVIOUS
<1>1. CASE UNCHANGED vars
  BY <1>1 DEF vars, loopVars, fdVars, FdInv, LoopPoints, OneUse, UseOpen, Registered, LastBatch, Kept,
              Reported
<1>2. CASE Next
  BY <1>1, <1>2, LoopFdInv, PosterFdInv DEF Next, Ended
<1> QED
  BY <1>1, <1>2

LEMMA FdSpec == Spec => [](TypeOK /\ FdInv)
  BY InitTypeOK, NextTypeOK, InitFdInv, NextFdInv, PTL DEF Spec

LEMMA FdInvSuffices == TypeOK /\ FdInv => NoStaleHandler /\ InterestMatches
<1> SUFFICES ASSUME TypeOK, FdInv PROVE NoStaleHandler /\ InterestMatches
  OBVIOUS
<1>1. InterestMatches
  BY DEF FdInv, Registered, InterestMatches, TypeOK
<1>2. ASSUME NEW i \in 1..Len(Queued), Queued[i].kind \in Event, Queued[i].arg # WakeFd
      PROVE  Queued[i].arg \in open \cup clientClosed
  <2> DEFINE f == Queued[i].arg
  <2>1. /\ tasks \in Seq(Task) /\ m_pending_tasks \in Seq(Task)
        /\ Len(tasks) \in Nat /\ Len(m_pending_tasks) \in Nat
    BY LenProperties DEF TypeOK
  <2>2. /\ Queued \in Seq(Task) /\ Len(Queued) = Len(tasks) + Len(m_pending_tasks)
        /\ Queued[i] = IF i <= Len(tasks) THEN tasks[i] ELSE m_pending_tasks[i - Len(tasks)]
    BY <2>1, ConcatProperties DEF Queued
  <2>3. Queued[i] \in Task
    BY <2>2, ElementOfSeq
  <2>4. f \in Fds /\ Uses(Queued[i], f)
    BY <1>2, <2>3 DEF Task, Event, Uses
  <2>5. Used(tasks, f) \/ Used(m_pending_tasks, f)
    <3>1. CASE i <= Len(tasks)
      BY <2>1, <2>2, <2>4, <3>1 DEF Used
    <3>2. CASE ~(i <= Len(tasks))
      <4>1. i - Len(tasks) \in 1..Len(m_pending_tasks)
        BY <2>1, <2>2, <3>2
      <4> QED
        BY <2>2, <2>4, <3>2, <4>1 DEF Used
    <3> QED
      BY <3>1, <3>2
  <2> QED
    BY <2>4, <2>5 DEF FdInv, UseOpen, Kept
<1> QED
  BY <1>1, <1>2 DEF NoStaleHandler, Elements, FdInv, LastBatch

(* A callback waiting in the queue belongs to a connection that is open,    *)
(* unless TcpClient::close closed it; then the loop is stopped and begins   *)
(* no other batch.                                                          *)
THEOREM HandlersFresh == Spec => []NoStaleHandler
  BY FdSpec, FdInvSuffices, PTL

(* What epoll watches is open, known to m_listen_fds and watched with the   *)
(* mask of its FdEvent, and m_listen_fds knows nothing more but what        *)
(* TcpClient::close closed, however ADD_TO_EPOLL and DELETE_FROM_EPOLL      *)
(* interleave.                                                              *)
THEOREM InterestKept == Spec => []InterestMatches
  BY FdSpec, FdInvSuffices, PTL
=============================================================================
