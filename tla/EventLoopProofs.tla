-------------------------- MODULE EventLoopProofs --------------------------
(* Proofs about the event loop, for any number of threads, jobs and         *)
(* descriptors and any size of the epoll result array.                      *)
EXTENDS EventLoop, SequenceTheorems, TLAPS

NoWake(s)  == \A i \in 1..Len(s) : s[i] # WakeTask
OneWake(s) == \A i, j \in 1..Len(s) : s[i] = WakeTask /\ s[j] = WakeTask => i = j

(* The inductive invariant behind WakeReadable: where the wakeup callback   *)
(* can be at each point of loop(). Between the swap and the next epoll_wait *)
(* m_pending_tasks holds only what other threads posted, so a callback is   *)
(* queued only after the one before it has run and emptied the eventfd.     *)
WakeInv ==
  /\ pc # "run" => tasks = <<>>
  /\ pc # "deliver" => results = {}
  /\ pc \in {"idle", "run", "wait"} => NoWake(m_pending_tasks)
  /\ OneWake(tasks) /\ OneWake(m_pending_tasks)
  /\ WakeEvent \in results => NoWake(m_pending_tasks)
  /\ ~NoWake(tasks) \/ ~NoWake(m_pending_tasks) \/ WakeEvent \in results => wakeups > 0

-----------------------------------------------------------------------------
(* What the queue operations do to the tasks of a queue.                    *)

LEMMA WakeTaskType == WakeTask \in Task
  BY DEF WakeTask, Task

LEMMA AppendNoWake ==
  ASSUME NEW s \in Seq(Task), NEW task \in Task, task # WakeTask
  PROVE  /\ NoWake(s) => NoWake(Append(s, task))
         /\ NoWake(Append(s, task)) => NoWake(s)
         /\ OneWake(s) => OneWake(Append(s, task))
  BY AppendProperties DEF NoWake, OneWake

LEMMA AppendWake ==
  ASSUME NEW s \in Seq(Task), NoWake(s)
  PROVE  OneWake(Append(s, WakeTask))
  BY AppendProperties, WakeTaskType DEF NoWake, OneWake

LEMMA TailWake ==
  ASSUME NEW s \in Seq(Task), s # <<>>
  PROVE  /\ NoWake(s) => NoWake(Tail(s))
         /\ OneWake(s) => OneWake(Tail(s))
         /\ OneWake(s) /\ Head(s) = WakeTask => NoWake(Tail(s))
<1>1. /\ Tail(s) \in Seq(Task) /\ Len(Tail(s)) = Len(s) - 1
      /\ \A i \in 1..Len(Tail(s)) : Tail(s)[i] = s[i + 1]
      /\ Head(s) = s[1] /\ Len(s) \in Nat /\ Len(s) >= 1
  BY HeadTailProperties, LenProperties, EmptySeq
<1>2. \A i \in 1..Len(Tail(s)) : i + 1 \in 1..Len(s) /\ i + 1 # 1
  BY <1>1
<1> QED
  BY <1>1, <1>2 DEF NoWake, OneWake

(* The tasks of one epoll event are no task at all or a single one.         *)
LEMMA HandlerTasksType ==
  ASSUME TypeOK, NEW e \in results
  PROVE  /\ HandlerTasks(e) \in Seq(Task)
         /\ HandlerTasks(e) = <<>> \/ HandlerTasks(e) = <<Handler(e)>>
         /\ Handler(e) \in Task
         /\ e # WakeEvent => Handler(e) # WakeTask
         /\ Handler(WakeEvent) = WakeTask
<1>1. Handler(e) \in Task /\ (e # WakeEvent => Handler(e) # WakeTask)
  <2>1. CASE e = WakeEvent
    BY <2>1, WakeTaskType DEF Handler
  <2>2. CASE e # WakeEvent
    <3>1. e.fd \in Fds
      BY <2>2 DEF TypeOK, WakeEvent
    <3> DEFINE ev == IF "IN" \in e.mask THEN "IN" ELSE "OUT"
    <3>2. [kind |-> ev, arg |-> e.fd] \in Task
      BY <3>1 DEF Task, Event
    <3>3. [kind |-> ev, arg |-> e.fd] # WakeTask
      BY <3>1, WakeFdAssumption DEF WakeTask
    <3> QED
      BY <2>2, <3>2, <3>3, WakeTaskType DEF Handler
  <2> QED
    BY <2>1, <2>2
<1>2. Handler(WakeEvent) = WakeTask
  BY DEF Handler
<1> QED
  BY <1>1, <1>2 DEF HandlerTasks

-----------------------------------------------------------------------------
(* Type correctness.                                                        *)

LEMMA InitTypeOK == Init => TypeOK
<1> SUFFICES ASSUME Init PROVE TypeOK
  OBVIOUS
<1>1. <<>> \in Seq(Task) /\ [f \in Fds |-> {}] \in [Fds -> SUBSET Event]
  BY EmptySeq
<1> QED
  BY <1>1 DEF Init, TypeOK

(* The types of what the handlers of a descriptor change.                   *)
FdTypeOK ==
  /\ m_listen_fds \subseteq Fds /\ watched \subseteq Fds /\ open \subseteq Fds
  /\ interest \in [Fds -> SUBSET Event] /\ events \in [Fds -> SUBSET Event]
  /\ callbacks \in [Fds -> SUBSET Event]
  /\ clientClosed \subseteq Fds /\ opens \in Nat

SignalTypeOK == m_stop_flag \in BOOLEAN /\ wakeups \in Nat

LEMMA ClientCloseType ==
  ASSUME TypeOK, NEW f \in Fds, ClientClose(f)
  PROVE  FdTypeOK' /\ SignalTypeOK'
<1>1. wakeups \in Nat /\ wakeups' = wakeups + 1
  BY DEF ClientClose, TypeOK
<1>2. SignalTypeOK'
  BY <1>1 DEF ClientClose, SignalTypeOK
<1>3. FdTypeOK'
  BY DEF ClientClose, CloseFd, FdTypeOK, TypeOK
<1> QED
  BY <1>2, <1>3

LEMMA RunTypeOK ==
  ASSUME TypeOK, RunTask
  PROVE  TypeOK'
<1>1. tasks # <<>> /\ tasks' = Tail(tasks) /\ Head(tasks) \in Task /\ Tail(tasks) \in Seq(Task)
  BY HeadTailProperties
  DEF RunTask, RunWake, RunJob, RunAdd, RunDelete, RunRead, RunWrite, Running, TypeOK
<1>2. CASE RunWake
  BY <1>1, <1>2 DEF RunWake, Running, fdVars, TypeOK
<1>3. CASE RunJob
  <2>1. Head(tasks).arg \in Jobs
    BY <1>1, <1>3 DEF RunJob, Running, Task, Event
  <2>2. jobs' \in [Jobs -> {"new", "queued", "done"}]
    BY <1>3, <2>1 DEF RunJob, TypeOK
  <2>3. FdTypeOK' /\ SignalTypeOK'
    <3>1. CASE UNCHANGED <<m_stop_flag, wakeups, fdVars>>
      BY <3>1 DEF fdVars, FdTypeOK, SignalTypeOK, TypeOK
    <3>2. CASE \E f \in Fds : ClientClose(f)
      BY <3>2, ClientCloseType
    <3> QED
      BY <1>3, <3>1, <3>2 DEF RunJob
  <2>4. /\ pc' = pc /\ m_is_looping' = m_is_looping /\ results' = results
        /\ m_pending_tasks' = m_pending_tasks /\ post' = post
    BY <1>3 DEF RunJob, Running
  <2> QED
    BY <1>1, <2>2, <2>3, <2>4 DEF FdTypeOK, SignalTypeOK, TypeOK
<1>4. CASE RunAdd
  <2>1. Head(tasks).arg \in Fds
    BY <1>1, <1>4 DEF RunAdd, Running, Task, Event
  <2> QED
    BY <1>1, <1>4, <2>1 DEF RunAdd, Running, AddToEpoll, TypeOK
<1>5. CASE RunDelete
  <2>1. Head(tasks).arg \in Fds
    BY <1>1, <1>5 DEF RunDelete, Running, Task, Event
  <2> QED
    BY <1>1, <1>5, <2>1 DEF RunDelete, Running, DeleteFromEpoll, TypeOK
<1>6. CASE RunRead
  <2> DEFINE f == Head(tasks).arg
  <2>1. f \in Fds
    BY <1>1, <1>6 DEF RunRead, Running, Task, Event
  <2>2. FdTypeOK' /\ SignalTypeOK'
    <3>1. CASE UNCHANGED <<m_stop_flag, wakeups, fdVars>>
      BY <3>1 DEF fdVars, FdTypeOK, SignalTypeOK, TypeOK
    <3>2. CASE /\ Listen(f, "OUT") /\ AddToEpoll(f, events'[f])
               /\ UNCHANGED <<m_stop_flag, wakeups, open, clientClosed, opens>>
      BY <3>2, <2>1 DEF Listen, AddToEpoll, FdTypeOK, SignalTypeOK, TypeOK, Event
    <3>3. CASE /\ DeleteFromEpoll(f) /\ CloseFd(f)
               /\ UNCHANGED <<m_stop_flag, wakeups, clientClosed, opens>>
      BY <3>3, <2>1 DEF DeleteFromEpoll, CloseFd, FdTypeOK, SignalTypeOK, TypeOK
    <3>4. CASE ClientClose(f)
      BY <2>1, <3>4, ClientCloseType
    <3> QED
      BY <1>6, <3>1, <3>2, <3>3, <3>4 DEF RunRead
  <2> QED
    BY <1>1, <1>6, <2>2 DEF RunRead, Running, FdTypeOK, SignalTypeOK, TypeOK
<1>7. CASE RunWrite
  <2> DEFINE f == Head(tasks).arg
  <2>1. f \in Fds
    BY <1>1, <1>7 DEF RunWrite, Running, Task, Event
  <2>2. FdTypeOK'
    <3>1. CASE UNCHANGED fdVars
      BY <3>1 DEF fdVars, FdTypeOK, TypeOK
    <3>2. CASE ClearEvent(f, "OUT") /\ AddToEpoll(f, events'[f]) /\ UNCHANGED <<open, clientClosed, opens>>
      BY <3>2, <2>1 DEF ClearEvent, AddToEpoll, FdTypeOK, TypeOK, Event
    <3> QED
      BY <1>7, <3>1, <3>2 DEF RunWrite
  <2> QED
    BY <1>1, <1>7, <2>2 DEF RunWrite, Running, FdTypeOK, TypeOK
<1> QED
  BY <1>2, <1>3, <1>4, <1>5, <1>6, <1>7 DEF RunTask

LEMMA ReturnTypeOK ==
  ASSUME TypeOK, NEW R \in SUBSET Reports, EpollReturn(R)
  PROVE  TypeOK'
<1>1. Reports \subseteq [fd : {WakeFd}, mask : {{"IN"}}] \cup [fd : Fds, mask : SUBSET Event]
  <2>1. \A f \in watched : f \in Fds /\ interest[f] \in SUBSET Event
    BY DEF TypeOK
  <2> QED
    BY <2>1 DEF Reports, WakeEvent
<1> QED
  BY <1>1 DEF EpollReturn, TypeOK, fdVars

LEMMA DeliverTypeOK ==
  ASSUME TypeOK, DeliverEvent
  PROVE  TypeOK'
<1>1. PICK e \in results : /\ results' = results \ {e}
                           /\ m_pending_tasks' = m_pending_tasks \o HandlerTasks(e)
  BY DEF DeliverEvent
<1>2. m_pending_tasks' \in Seq(Task)
  BY <1>1, HandlerTasksType, ConcatProperties DEF TypeOK
<1> QED
  BY <1>1, <1>2 DEF DeliverEvent, TypeOK, fdVars

LEMMA LoopTypeOK ==
  ASSUME TypeOK, LoopStep
  PROVE  TypeOK'
<1>1. CASE StartLoop
  BY <1>1 DEF StartLoop, TypeOK, fdVars
<1>2. CASE CheckStop
  BY <1>2 DEF CheckStop, TypeOK, fdVars
<1>3. CASE SwapTasks
  BY <1>3 DEF SwapTasks, TypeOK, fdVars
<1>4. CASE RunTask
  BY <1>4, RunTypeOK
<1>5. CASE BatchDone
  BY <1>5 DEF BatchDone, TypeOK, fdVars
<1>6. CASE EpollStep
  BY <1>6, ReturnTypeOK DEF EpollStep, EpollTimeout, EpollInterrupted, TypeOK, fdVars
<1>7. CASE DeliverEvent
  BY <1>7, DeliverTypeOK
<1>8. CASE DeliverDone
  BY <1>8 DEF DeliverDone, TypeOK, fdVars
<1> QED
  BY <1>1, <1>2, <1>3, <1>4, <1>5, <1>6, <1>7, <1>8 DEF LoopStep

LEMMA PosterTypeOK ==
  ASSUME TypeOK, NEW t \in Threads, PosterStep(t)
  PROVE  TypeOK'
<1>1. ASSUME NEW j \in Jobs, AddTask(t, j) PROVE TypeOK'
  <2>1. [kind |-> "job", arg |-> j] \in Task
    BY DEF Task
  <2> QED
    BY <1>1, <2>1, AppendProperties DEF AddTask, Push, TypeOK, loopVars, fdVars
<1>2. ASSUME NEW f \in Fds, RemoteAdd(t, f) PROVE TypeOK'
  <2>1. [kind |-> "add", arg |-> f] \in Task
    BY DEF Task
  <2> QED
    BY <1>2, <2>1, AppendProperties DEF RemoteAdd, Push, Listen, TypeOK, loopVars, Event
<1>3. ASSUME NEW f \in Fds, RemoteDelete(t, f) PROVE TypeOK'
  <2>1. [kind |-> "del", arg |-> f] \in Task
    BY DEF Task
  <2> QED
    BY <1>3, <2>1, AppendProperties DEF RemoteDelete, Push, TypeOK, loopVars
<1>4. CASE Stop(t)
  BY <1>4 DEF Stop, TypeOK, loopVars, fdVars
<1>5. CASE Wakeup(t)
  BY <1>5 DEF Wakeup, TypeOK, loopVars, fdVars
<1> QED
  BY <1>1, <1>2, <1>3, <1>4, <1>5 DEF PosterStep

LEMMA NextTypeOK == TypeOK /\ [Next]_vars => TypeOK'
<1> SUFFICES ASSUME TypeOK, [Next]_vars PROVE TypeOK'
  OBVIOUS
<1>1. CASE UNCHANGED vars
  BY <1>1 DEF vars, loopVars, fdVars, TypeOK
<1>2. CASE Next
  BY <1>1, <1>2, LoopTypeOK, PosterTypeOK DEF Next, Ended
<1> QED
  BY <1>1, <1>2

(* The loop's state always has its type (EventLoop's members, loop()).      *)
THEOREM TypeCorrect == Spec => []TypeOK
  BY InitTypeOK, NextTypeOK, PTL DEF Spec

-----------------------------------------------------------------------------
(* The wakeup callback.                                                     *)

LEMMA InitWakeInv == Init => WakeInv
  BY DEF Init, WakeInv, NoWake, OneWake

LEMMA RunWakeInv ==
  ASSUME TypeOK, WakeInv, RunTask
  PROVE  WakeInv'
<1>1. /\ pc = "run" /\ pc' = "run" /\ tasks # <<>> /\ tasks' = Tail(tasks)
      /\ UNCHANGED <<results, m_pending_tasks>>
      /\ NoWake(m_pending_tasks) /\ results = {} /\ OneWake(tasks) /\ tasks \in Seq(Task)
  BY DEF RunTask, RunWake, RunJob, RunAdd, RunDelete, RunRead, RunWrite, Running,
         WakeInv, TypeOK
<1>2. NoWake(tasks') \/ (~NoWake(tasks) /\ Head(tasks) # WakeTask)
  BY <1>1, TailWake
<1>3. OneWake(tasks') /\ OneWake(m_pending_tasks') /\ NoWake(m_pending_tasks')
  BY <1>1, TailWake DEF WakeInv
<1>4. ~NoWake(tasks') => wakeups' > 0
  <2> SUFFICES ASSUME ~NoWake(tasks') PROVE wakeups' > 0
    OBVIOUS
  <2>1. ~NoWake(tasks) /\ Head(tasks) # WakeTask /\ wakeups > 0 /\ wakeups \in Nat
    BY <1>2 DEF WakeInv, TypeOK
  <2>2. ~RunWake
    <3>1. Head(tasks) \in Task
      BY <1>1, HeadTailProperties
    <3> QED
      BY <2>1, <3>1, WakeFdAssumption DEF RunWake, Running, WakeTask, Task, Event
  <2> QED
    <3>1. wakeups' = wakeups \/ wakeups' = wakeups + 1
      BY <2>2 DEF RunTask, RunJob, RunAdd, RunDelete, RunRead, RunWrite, ClientClose
    <3> QED
      BY <2>1, <3>1
<1> QED
  BY <1>1, <1>3, <1>4 DEF WakeInv

LEMMA DeliverWakeInv ==
  ASSUME TypeOK, WakeInv, DeliverEvent
  PROVE  WakeInv'
<1>1. PICK e \in results : /\ results' = results \ {e}
                           /\ m_pending_tasks' = m_pending_tasks \o HandlerTasks(e)
  BY DEF DeliverEvent
<1>2. /\ pc = "deliver" /\ UNCHANGED <<pc, tasks, wakeups>> /\ tasks = <<>>
      /\ m_pending_tasks \in Seq(Task)
  BY DEF DeliverEvent, WakeInv, TypeOK
<1>3. m_pending_tasks' = m_pending_tasks \/ m_pending_tasks' = Append(m_pending_tasks, Handler(e))
  BY <1>1, <1>2, HandlerTasksType, ConcatEmptySeq, AppendIsConcat
<1>4. CASE e = WakeEvent
  <2>1. NoWake(m_pending_tasks) /\ wakeups > 0 /\ WakeEvent \notin results'
    BY <1>1, <1>4 DEF WakeInv
  <2>2. OneWake(m_pending_tasks')
    BY <1>2, <1>3, <1>4, <2>1, HandlerTasksType, AppendWake DEF WakeInv
  <2> QED
    BY <1>2, <2>1, <2>2 DEF WakeInv
<1>5. CASE e # WakeEvent
  <2>1. Handler(e) \in Task /\ Handler(e) # WakeTask
    BY <1>5, HandlerTasksType
  <2>2. /\ NoWake(m_pending_tasks) <=> NoWake(m_pending_tasks')
        /\ OneWake(m_pending_tasks')
    BY <1>2, <1>3, <2>1, AppendNoWake DEF WakeInv
  <2> QED
    BY <1>1, <1>2, <2>2 DEF WakeInv
<1> QED
  BY <1>4, <1>5

LEMMA LoopWakeInv ==
  ASSUME TypeOK, WakeInv, LoopStep
  PROVE  WakeInv'
<1>1. CASE StartLoop
  BY <1>1 DEF StartLoop, WakeInv
<1>2. CASE CheckStop
  BY <1>2 DEF CheckStop, WakeInv
<1>3. CASE SwapTasks
  <2>1. NoWake(<<>>) /\ OneWake(<<>>)
    BY DEF NoWake, OneWake
  <2> QED
    BY <1>3, <2>1 DEF SwapTasks, WakeInv
<1>4. CASE RunTask
  BY <1>4, RunWakeInv
<1>5. CASE BatchDone
  BY <1>5 DEF BatchDone, WakeInv
<1>6. CASE EpollStep
  <2>1. ASSUME NEW R \in SUBSET Reports, EpollReturn(R) PROVE WakeInv'
    BY <2>1 DEF EpollReturn, Ready, WakeInv
  <2> QED
    BY <1>6, <2>1 DEF EpollStep, EpollTimeout, EpollInterrupted, WakeInv
<1>7. CASE DeliverEvent
  BY <1>7, DeliverWakeInv
<1>8. CASE DeliverDone
  BY <1>8 DEF DeliverDone, WakeInv
<1> QED
  BY <1>1, <1>2, <1>3, <1>4, <1>5, <1>6, <1>7, <1>8 DEF LoopStep

(* Other threads post no wakeup callback and only ever raise the counter.   *)
LEMMA PosterWakeInv ==
  ASSUME TypeOK, WakeInv, NEW t \in Threads, PosterStep(t)
  PROVE  WakeInv'
<1>1. ASSUME NEW task \in Task, task # WakeTask, Push(t, task),
             UNCHANGED <<loopVars, wakeups>>
      PROVE  WakeInv'
  <2>1. /\ NoWake(m_pending_tasks) <=> NoWake(m_pending_tasks')
        /\ OneWake(m_pending_tasks')
    BY <1>1, AppendNoWake DEF Push, WakeInv, TypeOK
  <2> QED
    BY <1>1, <2>1 DEF WakeInv, loopVars
<1>2. ASSUME NEW j \in Jobs, AddTask(t, j) PROVE WakeInv'
  BY <1>1, <1>2 DEF AddTask, Task, WakeTask
<1>3. ASSUME NEW f \in Fds, RemoteAdd(t, f) \/ RemoteDelete(t, f) PROVE WakeInv'
  BY <1>1, <1>3 DEF RemoteAdd, RemoteDelete, Task, WakeTask
<1>4. CASE Stop(t)
  BY <1>4 DEF Stop, WakeInv, loopVars
<1>5. CASE Wakeup(t)
  BY <1>5 DEF Wakeup, WakeInv, TypeOK, loopVars
<1> QED
  BY <1>2, <1>3, <1>4, <1>5 DEF PosterStep

LEMMA NextWakeInv == TypeOK /\ WakeInv /\ [Next]_vars => WakeInv'
<1> SUFFICES ASSUME TypeOK, WakeInv, [Next]_vars PROVE WakeInv'
  OBVIOUS
<1>1. CASE UNCHANGED vars
  BY <1>1 DEF vars, loopVars, WakeInv
<1>2. CASE Next
  BY <1>1, <1>2, LoopWakeInv, PosterWakeInv DEF Next, Ended
<1> QED
  BY <1>1, <1>2

(* The batch and the pending tasks never hold a wakeup callback each, so    *)
(* the invariant speaks of one queue.                                       *)
LEMMA WakeInvSuffices == TypeOK /\ WakeInv => WakeReadable
<1> SUFFICES ASSUME TypeOK, WakeInv PROVE WakeReadable
  OBVIOUS
<1>1. tasks \in Seq(Task) /\ m_pending_tasks \in Seq(Task)
  BY DEF TypeOK
<1>2. CASE tasks = <<>>
  <2>1. Queued = m_pending_tasks
    BY <1>1, <1>2, ConcatEmptySeq DEF Queued
  <2> QED
    BY <2>1 DEF WakeReadable, Elements, WakeInv, NoWake, OneWake
<1>3. CASE tasks # <<>>
  <2>1. NoWake(m_pending_tasks)
    BY <1>3 DEF WakeInv
  <2>2. /\ Len(Queued) = Len(tasks) + Len(m_pending_tasks)
        /\ \A i \in 1..Len(Queued) :
             Queued[i] = IF i <= Len(tasks) THEN tasks[i] ELSE m_pending_tasks[i - Len(tasks)]
    BY <1>1, ConcatProperties DEF Queued
  <2>3. \A i \in 1..Len(Queued) : Queued[i] = WakeTask => i \in 1..Len(tasks) /\ tasks[i] = WakeTask
    BY <1>1, <2>1, <2>2 DEF NoWake
  <2> QED
    BY <2>3 DEF WakeReadable, Elements, WakeInv, NoWake, OneWake
<1> QED
  BY <1>2, <1>3

(* The reactor never hangs in the EAGAIN loop of the wakeup callback.       *)
THEOREM WakeSafe == Spec => []WakeReadable
<1>1. Spec => [](TypeOK /\ WakeInv)
  BY InitTypeOK, NextTypeOK, InitWakeInv, NextWakeInv, PTL DEF Spec
<1> QED
  BY <1>1, WakeInvSuffices, PTL

-----------------------------------------------------------------------------
(* The loop implements the task queue.                                      *)

LEMMA ConcatAppend ==
  ASSUME NEW s \in Seq(Task), NEW u \in Seq(Task), NEW task \in Task
  PROVE  s \o Append(u, task) = Append(s \o u, task)
  BY AppendIsConcat, ConcatAssociative, ConcatProperties

LEMMA TailConcat ==
  ASSUME NEW s \in Seq(Task), NEW u \in Seq(Task), s # <<>>
  PROVE  s \o u # <<>> /\ Tail(s \o u) = Tail(s) \o u
<1>1. /\ s \o u \in Seq(Task) /\ Len(s \o u) = Len(s) + Len(u)
      /\ Len(s) \in Nat /\ Len(u) \in Nat /\ Len(s) >= 1
      /\ \A i \in 1..Len(s) + Len(u) : (s \o u)[i] = IF i <= Len(s) THEN s[i] ELSE u[i - Len(s)]
  BY ConcatProperties, LenProperties, EmptySeq
<1>2. s \o u # <<>>
  BY <1>1, EmptySeq
<1>3. /\ Tail(s) \in Seq(Task) /\ Len(Tail(s)) = Len(s) - 1
      /\ \A i \in 1..Len(Tail(s)) : Tail(s)[i] = s[i + 1]
  BY HeadTailProperties
<1>4. /\ Tail(s) \o u \in Seq(Task) /\ Len(Tail(s) \o u) = Len(s) - 1 + Len(u)
      /\ \A i \in 1..Len(s) - 1 + Len(u) :
           (Tail(s) \o u)[i] = IF i <= Len(s) - 1 THEN Tail(s)[i] ELSE u[i - (Len(s) - 1)]
  BY <1>3, ConcatProperties
<1>5. /\ Tail(s \o u) \in Seq(Task) /\ Len(Tail(s \o u)) = Len(s) + Len(u) - 1
      /\ \A i \in 1..Len(s) + Len(u) - 1 : Tail(s \o u)[i] = (s \o u)[i + 1]
  BY <1>1, <1>2, HeadTailProperties
<1>6. ASSUME NEW i \in 1..Len(s) + Len(u) - 1 PROVE Tail(s \o u)[i] = (Tail(s) \o u)[i]
  <2>1. i + 1 \in 1..Len(s) + Len(u) /\ i \in 1..Len(s) - 1 + Len(u)
    BY <1>1
  <2>2. Tail(s \o u)[i] = IF i + 1 <= Len(s) THEN s[i + 1] ELSE u[i + 1 - Len(s)]
    BY <1>1, <1>5, <2>1
  <2>3. CASE i + 1 <= Len(s)
    BY <1>1, <1>3, <1>4, <2>1, <2>2, <2>3
  <2>4. CASE ~(i + 1 <= Len(s))
    <3>1. i + 1 - Len(s) = i - (Len(s) - 1)
      BY <1>1
    <3> QED
      BY <1>1, <1>4, <2>1, <2>2, <2>4, <3>1
  <2> QED
    BY <2>3, <2>4
<1> QED
  BY <1>1, <1>2, <1>4, <1>5, <1>6, SeqEqual

LEMMA InitQueue == Init => Queue!Init
<1> SUFFICES ASSUME Init PROVE Queue!Init
  OBVIOUS
<1>1. <<>> \in Seq(Task) /\ <<>> \o <<>> = <<>>
  BY EmptySeq, ConcatEmptySeq
<1> QED
  BY <1>1 DEF Init, Queue!Init, Queued

LEMMA PushQueue ==
  ASSUME TypeOK, NEW task \in Task, m_pending_tasks' = Append(m_pending_tasks, task),
         UNCHANGED <<pc, tasks>>
  PROVE  Queue!Post
<1>1. Queued' = Append(Queued, task)
  BY ConcatAppend DEF Queued, TypeOK
<1> QED
  BY <1>1 DEF Queue!Post

LEMMA LoopQueue ==
  ASSUME TypeOK, WakeInv, LoopStep
  PROVE  Queue!Next \/ UNCHANGED <<Queued, pc = "exited">>
<1>1. CASE StartLoop
  BY <1>1 DEF StartLoop, Queued
<1>2. CASE CheckStop
  BY <1>2 DEF CheckStop, Queued, Queue!Next, Queue!Close
<1>3. CASE SwapTasks
  <2>1. tasks = <<>> /\ tasks' = m_pending_tasks /\ m_pending_tasks' = <<>>
        /\ m_pending_tasks \in Seq(Task) /\ pc # "exited" /\ pc' # "exited"
    BY <1>3 DEF SwapTasks, WakeInv, TypeOK
  <2>2. Queued' = Queued
    BY <2>1, ConcatEmptySeq DEF Queued
  <2> QED
    BY <2>1, <2>2
<1>4. CASE RunTask
  <2>1. /\ pc = "run" /\ pc' = "run" /\ tasks # <<>> /\ tasks' = Tail(tasks)
        /\ UNCHANGED m_pending_tasks /\ tasks \in Seq(Task) /\ m_pending_tasks \in Seq(Task)
    BY <1>4 DEF RunTask, RunWake, RunJob, RunAdd, RunDelete, RunRead, RunWrite,
                Running, TypeOK
  <2>2. Queued # <<>> /\ Queued' = Tail(Queued)
    BY <2>1, TailConcat DEF Queued
  <2> QED
    BY <2>1, <2>2 DEF Queue!Next, Queue!Take
<1>5. CASE BatchDone
  BY <1>5 DEF BatchDone, Queued
<1>6. CASE EpollStep
  BY <1>6 DEF EpollStep, EpollReturn, EpollTimeout, EpollInterrupted, Queued
<1>7. CASE DeliverEvent
  <2>1. PICK e \in results : m_pending_tasks' = m_pending_tasks \o HandlerTasks(e)
    BY <1>7 DEF DeliverEvent
  <2>2. UNCHANGED <<pc, tasks>> /\ m_pending_tasks \in Seq(Task)
    BY <1>7 DEF DeliverEvent, TypeOK
  <2>3. CASE HandlerTasks(e) = <<>>
    BY <2>1, <2>2, <2>3, ConcatEmptySeq DEF Queued
  <2>4. CASE HandlerTasks(e) = <<Handler(e)>>
    <3>1. m_pending_tasks' = Append(m_pending_tasks, Handler(e)) /\ Handler(e) \in Task
      BY <2>1, <2>2, <2>4, HandlerTasksType, AppendIsConcat
    <3> QED
      BY <2>2, <3>1, PushQueue DEF Queue!Next
  <2> QED
    BY <2>3, <2>4, HandlerTasksType
<1>8. CASE DeliverDone
  BY <1>8 DEF DeliverDone, Queued
<1> QED
  BY <1>1, <1>2, <1>3, <1>4, <1>5, <1>6, <1>7, <1>8 DEF LoopStep

LEMMA PosterQueue ==
  ASSUME TypeOK, NEW t \in Threads, PosterStep(t)
  PROVE  Queue!Next \/ UNCHANGED <<Queued, pc = "exited">>
<1>1. ASSUME NEW task \in Task, Push(t, task), UNCHANGED loopVars
      PROVE  Queue!Next
  BY <1>1, PushQueue DEF Push, loopVars, Queue!Next
<1>2. ASSUME NEW j \in Jobs, AddTask(t, j) PROVE Queue!Next
  BY <1>1, <1>2 DEF AddTask, Task
<1>3. ASSUME NEW f \in Fds, RemoteAdd(t, f) \/ RemoteDelete(t, f) PROVE Queue!Next
  BY <1>1, <1>3 DEF RemoteAdd, RemoteDelete, Task
<1>4. CASE Stop(t) \/ Wakeup(t)
  BY <1>4 DEF Stop, Wakeup, loopVars, Queued
<1> QED
  BY <1>2, <1>3, <1>4 DEF PosterStep

LEMMA NextQueue ==
  TypeOK /\ WakeInv /\ [Next]_vars => [Queue!Next]_<<Queued, pc = "exited">>
<1> SUFFICES ASSUME TypeOK, WakeInv, [Next]_vars
             PROVE  Queue!Next \/ UNCHANGED <<Queued, pc = "exited">>
  OBVIOUS
<1>1. CASE UNCHANGED vars
  BY <1>1 DEF vars, loopVars, Queued
<1>2. CASE Next
  BY <1>1, <1>2, LoopQueue, PosterQueue DEF Next, Ended
<1> QED
  BY <1>1, <1>2

(* loop() and addTask() together implement one FIFO queue of tasks.         *)
THEOREM QueueImplemented == Spec => ImplementsQueue
<1>1. Spec => [](TypeOK /\ WakeInv)
  BY InitTypeOK, NextTypeOK, InitWakeInv, NextWakeInv, PTL DEF Spec
<1> QED
  BY <1>1, InitQueue, NextQueue, PTL DEF Spec, ImplementsQueue, Queue!Spec
=============================================================================
