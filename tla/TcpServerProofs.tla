-------------------------- MODULE TcpServerProofs --------------------------
(* Proofs about the server, for any number of IO threads, connections and   *)
(* descriptor numbers, and any initial size of the group of FdEvents.       *)
EXTENDS TcpServer, SequenceTheorems, FiniteSetTheorems, TLAPS

-----------------------------------------------------------------------------
(* The threads' life: how far each thread can be when the owner of the      *)
(* group is at a given point of a given thread, and what the semaphores     *)
(* between them can hold.                                                   *)

(* The owner is past the wait for thread i's loop, past its join.           *)
Passed(i) == group.at \notin {"create", "init"} \/ i < group.i
Joined(i) == group.at = "gone" \/ (group.at \in {"stop", "join"} /\ i < group.i)

Created(i) ==
  IF group.at = "init" /\ i = group.i
  THEN /\ thread[i] \in {"begun", "made", "waiting"}
       /\ m_init_semaphore[i] = IF thread[i] = "waiting" THEN 1 ELSE 0
  ELSE thread[i] = "none" /\ m_init_semaphore[i] = 0

ThreadOK(i) ==
  /\ Passed(i) => thread[i] \in {"waiting", "looping", "stuck", "exited"} /\ m_init_semaphore[i] = 0
  /\ ~Passed(i) => Created(i)
  /\ group.at \in {"create", "init", "made"} \/ (group.at = "start" /\ i >= group.i) => m_start_semaphore[i] = 0
  /\ Joined(i) => thread[i] = "exited"
  /\ i \in destroyed => group.at \in {"stop", "join", "gone"}
  /\ thread[i] \in {"made", "waiting", "looping", "stuck", "exited"} /\ ~Joined(i) => i \in m_event_loop

ThreadInv ==
  /\ ThreadTypeOK
  /\ group.at \in {"made", "running", "gone"} => group.i = 0
  /\ \A i \in Loops : ThreadOK(i)

LEMMA LoopsNat == /\ Loops \subseteq Nat /\ 0 \in Loops /\ IOThreads \in Nat
                  /\ \A i \in Loops : i + 1 \notin Loops => \A j \in Loops : j <= i
<1>1. IOThreads \in Nat /\ IOThreads > 0 /\ Loops = 0..IOThreads - 1
  BY IOThreadsAssumption DEF Loops
<1>2. Loops \subseteq Nat /\ 0 \in Loops
  BY <1>1
<1>3. ASSUME NEW i \in Loops, i + 1 \notin Loops, NEW j \in Loops PROVE j <= i
  BY <1>1, <1>3
<1> QED
  BY <1>1, <1>2, <1>3

LEMMA InitThreadInv == InitThreads => ThreadInv
<1> SUFFICES ASSUME InitThreads PROVE ThreadInv
  OBVIOUS
<1>1. ThreadTypeOK
  <2>1. group \in [at : {"create", "init", "made", "start", "running", "stop", "join", "gone"}, i : Loops]
    BY LoopsNat DEF InitThreads
  <2>2. /\ thread \in [Loops -> {"none", "begun", "made", "waiting", "looping", "stuck", "exited"}]
        /\ m_init_semaphore \in [Loops -> 0..1] /\ m_start_semaphore \in [Loops -> 0..1]
    BY DEF InitThreads
  <2> QED
    BY <2>1, <2>2 DEF InitThreads, ThreadTypeOK
<1>2. \A i \in Loops : ThreadOK(i)
  BY LoopsNat DEF InitThreads, ThreadOK, Passed, Joined, Created
<1> QED
  BY <1>1, <1>2 DEF InitThreads, ThreadInv

(* Where the owner stands after its last or another thread.                 *)
LEMMA NextThreadAt ==
  ASSUME ThreadTypeOK, NEW point, NEW past, NextThread(point, past)
  PROVE  \/ group.i + 1 \in Loops /\ group'.at = point /\ group'.i = group.i + 1
         \/ (\A j \in Loops : j <= group.i) /\ group'.at = past /\ group'.i = 0
  BY LoopsNat DEF NextThread, ThreadTypeOK

LEMMA GroupType ==
  ASSUME NEW at \in {"create", "init", "made", "start", "running", "stop", "join", "gone"},
         ThreadTypeOK, GroupGoes(at)
  PROVE  /\ group' \in [at : {"create", "init", "made", "start", "running", "stop", "join", "gone"},
                        i : Loops]
         /\ group'.at = at /\ group'.i = group.i
  BY DEF GroupGoes, ThreadTypeOK

LEMMA NextThreadType ==
  ASSUME NEW point \in {"create", "init", "made", "start", "running", "stop", "join", "gone"},
         NEW past \in {"create", "init", "made", "start", "running", "stop", "join", "gone"},
         ThreadTypeOK, NextThread(point, past)
  PROVE  group' \in [at : {"create", "init", "made", "start", "running", "stop", "join", "gone"},
                     i : Loops]
  BY LoopsNat DEF NextThread, ThreadTypeOK

LEMMA GroupThreadInv ==
  ASSUME ThreadInv, GroupStep \/ StartGroup \/ Destroy
  PROVE  ThreadInv'
<1> DEFINE k == group.i
<1>0. ThreadTypeOK /\ k \in Loops /\ k \in Nat /\ \A i \in Loops : i \in Nat
  BY LoopsNat DEF ThreadInv, ThreadTypeOK
<1>1. CASE Create
  <2>1. group.at = "create" /\ group'.at = "init" /\ group'.i = k
    BY <1>0, <1>1, GroupType DEF Create, GroupAt
  <2>2. ThreadTypeOK'
    BY <1>0, <1>1, GroupType DEF Create, ThreadTypeOK
  <2>3. ASSUME NEW i \in Loops PROVE ThreadOK(i)'
    <3>1. ThreadOK(i)
      BY DEF ThreadInv
    <3> QED
      BY <1>0, <1>1, <2>1, <3>1 DEF Create, ThreadOK, Passed, Joined, Created, ThreadTypeOK
  <2> QED
    BY <2>1, <2>2, <2>3 DEF ThreadInv
<1>2. CASE WaitInit
  <2>1. group.at = "init" /\ NextThread("create", "made") /\ m_init_semaphore[k] > 0
    BY <1>2 DEF WaitInit, GroupAt
  <2>2. \/ k + 1 \in Loops /\ group'.at = "create" /\ group'.i = k + 1
        \/ (\A j \in Loops : j <= k) /\ group'.at = "made" /\ group'.i = 0
    BY <1>0, <2>1, NextThreadAt
  <2>3. thread[k] = "waiting" /\ m_init_semaphore[k] = 1
    <3>1. ThreadOK(k) /\ ~Passed(k)
      BY <1>0, <2>1 DEF ThreadInv, Passed
    <3> QED
      BY <1>0, <2>1, <3>1 DEF ThreadOK, Created
  <2>4. \A i \in Loops : m_init_semaphore'[i] = IF i = k THEN 0 ELSE m_init_semaphore[i]
    BY <1>0, <1>2, <2>3 DEF WaitInit, ThreadTypeOK
  <2>5. ThreadTypeOK'
    <3>1. m_init_semaphore' \in [Loops -> 0..1]
      BY <1>0, <1>2, <2>3 DEF WaitInit, ThreadTypeOK
    <3> QED
      BY <1>0, <1>2, <2>1, <3>1, NextThreadType DEF WaitInit, ThreadTypeOK
  <2>6. ASSUME NEW i \in Loops PROVE ThreadOK(i)'
    <3>1. ThreadOK(i) /\ i \in Nat
      BY <1>0 DEF ThreadInv
    <3>2. UNCHANGED <<thread, m_start_semaphore, m_event_loop, destroyed>>
      BY <1>2 DEF WaitInit
    <3>3. Passed(i)' <=> Passed(i) \/ i = k
      BY <1>0, <2>1, <2>2, <3>1 DEF Passed
    <3>4. ~Joined(i) /\ ~Joined(i)'
      BY <2>1, <2>2 DEF Joined
    <3>5. m_start_semaphore[i] = 0
      BY <2>1, <3>1 DEF ThreadOK
    <3> QED
      BY <2>1, <2>2, <2>3, <2>4, <3>1, <3>2, <3>3, <3>4, <3>5 DEF ThreadOK, Created
  <2> QED
    BY <2>2, <2>5, <2>6 DEF ThreadInv
<1>3. CASE StartGroup
  <2>1. group.at = "made" /\ group'.at = "start" /\ group'.i = k
        /\ UNCHANGED <<thread, m_event_loop, m_init_semaphore, m_start_semaphore, m_stop_flag, destroyed>>
    BY <1>0, <1>3, GroupType DEF StartGroup, GroupAt
  <2>2. ThreadTypeOK'
    BY <1>0, <1>3, GroupType DEF StartGroup, ThreadTypeOK
  <2>3. ASSUME NEW i \in Loops PROVE ThreadOK(i)'
    <3>1. ThreadOK(i)
      BY DEF ThreadInv
    <3> QED
      BY <2>1, <3>1 DEF ThreadOK, Passed, Joined
  <2> QED
    BY <2>1, <2>2, <2>3 DEF ThreadInv
<1>4. CASE StartThread
  <2>1. /\ group.at = "start" /\ NextThread("start", "running")
        /\ UNCHANGED <<thread, m_event_loop, m_init_semaphore, m_stop_flag, destroyed, started>>
    BY <1>4 DEF StartThread, GroupAt
  <2>2. \/ k + 1 \in Loops /\ group'.at = "start" /\ group'.i = k + 1
        \/ (\A j \in Loops : j <= k) /\ group'.at = "running" /\ group'.i = 0
    BY <1>0, <2>1, NextThreadAt
  <2>3. m_start_semaphore[k] = 0
    BY <1>0, <2>1 DEF ThreadInv, ThreadOK
  <2>4. /\ m_start_semaphore' \in [Loops -> 0..1]
        /\ \A i \in Loops : i # k => m_start_semaphore'[i] = m_start_semaphore[i]
    BY <1>0, <1>4, <2>3 DEF StartThread, ThreadTypeOK
  <2>5. ThreadTypeOK'
    BY <1>0, <2>1, <2>4, NextThreadType DEF ThreadTypeOK
  <2>6. ASSUME NEW i \in Loops PROVE ThreadOK(i)'
    <3>1. ThreadOK(i) /\ i \in Nat
      BY <1>0 DEF ThreadInv
    <3>2. Passed(i) /\ Passed(i)' /\ ~Joined(i) /\ ~Joined(i)'
      BY <2>1, <2>2 DEF Passed, Joined
    <3>3. group'.at = "start" /\ i >= group'.i => m_start_semaphore'[i] = 0
      BY <1>0, <2>1, <2>2, <2>4, <3>1 DEF ThreadOK
    <3> QED
      BY <2>1, <2>2, <3>1, <3>2, <3>3 DEF ThreadOK
  <2> QED
    BY <2>2, <2>5, <2>6 DEF ThreadInv
<1>5. CASE Destroy
  <2>1. group.at \in {"made", "running"} /\ k = 0 /\ group'.at = "stop" /\ group'.i = k
        /\ UNCHANGED <<thread, m_event_loop, m_init_semaphore, m_start_semaphore, m_stop_flag, destroyed>>
    BY <1>0, <1>5, GroupType DEF Destroy, ThreadInv
  <2>2. ThreadTypeOK'
    BY <1>0, <1>5, GroupType DEF Destroy, ThreadTypeOK
  <2>3. ASSUME NEW i \in Loops PROVE ThreadOK(i)'
    <3>1. ThreadOK(i) /\ i \in Nat
      BY <1>0 DEF ThreadInv
    <3> QED
      BY <2>1, <3>1 DEF ThreadOK, Passed, Joined
  <2> QED
    BY <2>1, <2>2, <2>3 DEF ThreadInv
<1>6. CASE StopThread
  <2>1. group.at = "stop" /\ group'.at = "join" /\ group'.i = k
        /\ UNCHANGED <<thread, m_event_loop, m_init_semaphore, m_start_semaphore>>
    BY <1>0, <1>6, GroupType DEF StopThread, GroupAt
  <2>2. ThreadTypeOK'
    BY <1>0, <1>6, GroupType DEF StopThread, ThreadTypeOK
  <2>3. ASSUME NEW i \in Loops PROVE ThreadOK(i)'
    <3>1. ThreadOK(i)
      BY DEF ThreadInv
    <3> QED
      BY <2>1, <3>1 DEF ThreadOK, Passed, Joined
  <2> QED
    BY <2>1, <2>2, <2>3 DEF ThreadInv
<1>7. CASE JoinThread
  <2>1. /\ group.at = "join" /\ NextThread("stop", "gone") /\ thread[k] = "exited"
        /\ m_event_loop' = m_event_loop \ {k}
        /\ UNCHANGED <<thread, m_init_semaphore, m_start_semaphore, m_stop_flag, destroyed>>
    BY <1>7 DEF JoinThread, GroupAt
  <2>2. \/ k + 1 \in Loops /\ group'.at = "stop" /\ group'.i = k + 1
        \/ (\A j \in Loops : j <= k) /\ group'.at = "gone" /\ group'.i = 0
    BY <1>0, <2>1, NextThreadAt
  <2>3. ThreadTypeOK'
    BY <1>0, <1>7, <2>1, NextThreadType DEF JoinThread, ThreadTypeOK
  <2>4. ASSUME NEW i \in Loops PROVE ThreadOK(i)'
    <3>1. ThreadOK(i) /\ i \in Nat
      BY <1>0 DEF ThreadInv
    <3>2. Passed(i) /\ Passed(i)'
      BY <2>1, <2>2 DEF Passed
    <3>3. Joined(i)' <=> Joined(i) \/ i = k
      BY <1>0, <2>1, <2>2, <3>1 DEF Joined
    <3> QED
      BY <2>1, <2>2, <3>1, <3>2, <3>3 DEF ThreadOK
  <2> QED
    BY <2>2, <2>3, <2>4 DEF ThreadInv
<1> QED
  BY <1>1, <1>2, <1>3, <1>4, <1>5, <1>6, <1>7 DEF GroupStep

(* The thread's own steps.                                                  *)
LEMMA MainThreadInv ==
  ASSUME ThreadInv, NEW k \in Loops,
         MakeLoop(k) \/ PostInit(k) \/ WaitStart(k) \/ WaitDestroyed(k) \/ LeaveLoop(k)
  PROVE  ThreadInv'
<1>1. ThreadTypeOK /\ ThreadOK(k) /\ UNCHANGED group /\ \A i \in Loops : i # k => ThreadOK(i)
  BY DEF ThreadInv, MakeLoop, PostInit, WaitStart, WaitDestroyed, LeaveLoop
<1>2. ASSUME NEW to \in {"made", "waiting", "looping", "stuck", "exited"},
             thread' = [thread EXCEPT ![k] = to],
             m_event_loop \subseteq m_event_loop', m_event_loop' \subseteq Loops,
             m_init_semaphore' \in [Loops -> 0..1], m_start_semaphore' \in [Loops -> 0..1],
             UNCHANGED <<m_stop_flag, destroyed, started>>,
             \A i \in Loops : i # k => m_init_semaphore'[i] = m_init_semaphore[i]
                                    /\ m_start_semaphore'[i] = m_start_semaphore[i],
             ThreadOK(k)'
      PROVE  ThreadInv'
  <2>1. thread' \in [Loops -> {"none", "begun", "made", "waiting", "looping", "stuck", "exited"}]
        /\ \A i \in Loops : i # k => thread'[i] = thread[i]
    BY <1>1, <1>2 DEF ThreadTypeOK
  <2>2. ThreadTypeOK'
    BY <1>1, <1>2, <2>1 DEF ThreadTypeOK
  <2>3. ASSUME NEW i \in Loops, i # k PROVE ThreadOK(i)'
    BY <1>1, <1>2, <2>1, <2>3 DEF ThreadOK, Passed, Joined, Created
  <2> QED
    BY <1>1, <1>2, <2>2, <2>3 DEF ThreadInv
<1>3. CASE MakeLoop(k)
  <2>1. /\ thread[k] = "begun" /\ thread' = [thread EXCEPT ![k] = "made"]
        /\ m_event_loop' = m_event_loop \cup {k}
        /\ UNCHANGED <<m_init_semaphore, m_start_semaphore, m_stop_flag, destroyed, started>>
    BY <1>3 DEF MakeLoop, Proceed
  <2>2. thread'[k] = "made"
    BY <1>1, <2>1 DEF ThreadTypeOK
  <2>3. ThreadOK(k)'
    BY <1>1, <2>1, <2>2 DEF ThreadOK, Passed, Joined, Created
  <2> QED
    BY <1>1, <1>2, <2>1, <2>3 DEF ThreadTypeOK
<1>4. CASE PostInit(k)
  <2>1. /\ thread[k] = "made" /\ thread' = [thread EXCEPT ![k] = "waiting"]
        /\ m_init_semaphore' = [m_init_semaphore EXCEPT ![k] = @ + 1]
        /\ UNCHANGED <<m_event_loop, m_start_semaphore, m_stop_flag, destroyed, started>>
    BY <1>4 DEF PostInit, Proceed
  <2>2. ~Passed(k) /\ m_init_semaphore[k] = 0
    BY <1>1, <2>1 DEF ThreadOK, Created
  <2>3. /\ thread'[k] = "waiting" /\ m_init_semaphore' \in [Loops -> 0..1]
        /\ m_init_semaphore'[k] = 1
        /\ \A i \in Loops : i # k => m_init_semaphore'[i] = m_init_semaphore[i]
    BY <1>1, <2>1, <2>2 DEF ThreadTypeOK
  <2>4. ThreadOK(k)'
    BY <1>1, <2>1, <2>2, <2>3 DEF ThreadOK, Passed, Joined, Created
  <2> QED
    BY <1>1, <1>2, <2>1, <2>3, <2>4 DEF ThreadTypeOK
<1>5. CASE WaitStart(k)
  <2>1. /\ thread[k] = "waiting" /\ thread' = [thread EXCEPT ![k] = "looping"]
        /\ m_start_semaphore[k] > 0
        /\ m_start_semaphore' = [m_start_semaphore EXCEPT ![k] = @ - 1]
        /\ UNCHANGED <<m_event_loop, m_init_semaphore, m_stop_flag, destroyed, started>>
    BY <1>5 DEF WaitStart, Proceed
  <2>2. /\ thread'[k] = "looping" /\ m_start_semaphore' \in [Loops -> 0..1]
        /\ \A i \in Loops : i # k => m_start_semaphore'[i] = m_start_semaphore[i]
    BY <1>1, <2>1 DEF ThreadTypeOK
  <2>3. Passed(k)
    BY <1>1, <2>1 DEF ThreadOK, Passed
  <2>4. ThreadOK(k)'
    BY <1>1, <2>1, <2>2, <2>3 DEF ThreadOK, Passed, Joined
  <2> QED
    BY <1>1, <1>2, <2>1, <2>2, <2>4 DEF ThreadTypeOK
<1>6. CASE LeaveLoop(k)
  <2>1. /\ thread[k] = "looping" /\ thread' = [thread EXCEPT ![k] = "exited"]
        /\ UNCHANGED <<m_event_loop, m_init_semaphore, m_start_semaphore, m_stop_flag, destroyed, started>>
    BY <1>6 DEF LeaveLoop, Proceed
  <2>2. thread'[k] = "exited"
    BY <1>1, <2>1 DEF ThreadTypeOK
  <2>3. ThreadOK(k)'
    BY <1>1, <2>1, <2>2 DEF ThreadOK, Passed, Joined, Created
  <2> QED
    BY <1>1, <1>2, <2>1, <2>3 DEF ThreadTypeOK
<1>7. CASE WaitDestroyed(k)
  <2>1. PICK to \in {"looping", "stuck"} :
             /\ thread[k] = "waiting" /\ thread' = [thread EXCEPT ![k] = to]
             /\ UNCHANGED <<m_event_loop, m_init_semaphore, m_start_semaphore, m_stop_flag, destroyed,
                            started>>
    BY <1>7 DEF WaitDestroyed, Proceed
  <2>2. thread'[k] = to
    BY <1>1, <2>1 DEF ThreadTypeOK
  <2>3. Passed(k) /\ Passed(k)' /\ (Joined(k)' <=> Joined(k))
    BY <1>1, <1>7 DEF ThreadOK, WaitDestroyed, Passed, Joined
  <2>4. ThreadOK(k)'
    BY <1>1, <2>1, <2>2, <2>3 DEF ThreadOK
  <2> QED
    BY <1>1, <1>2, <2>1, <2>4 DEF ThreadTypeOK
<1> QED
  BY <1>3, <1>4, <1>5, <1>6, <1>7

-----------------------------------------------------------------------------
(* The server's own inductive invariant.                                    *)

Has(s, f)   == \E k \in 1..Len(s) : s[k] = f
NoRepeat(s) == \A k, l \in 1..Len(s) : s[k] = s[l] => k = l

Posted(i, f) == Has(tasks[i], f)

(* What OwnDescriptors says of a registered descriptor.                     *)
Bound(i, f) ==
  /\ f < m_fd_event_group
  /\ owner[f] \in Conns
  /\ callback[f] = owner[f]
  /\ loop[owner[f]] = i

(* It holds from the moment the registration is posted, and a number is     *)
(* posted once.                                                             *)
Registered(i) ==
  /\ interest[i] \subseteq watched[i]
  /\ \A f \in Fds : f \in watched[i] \/ Posted(i, f) => Bound(i, f)
  /\ \A f \in watched[i] : ~Posted(i, f)
  /\ NoRepeat(tasks[i])

Registration ==
  /\ m_fd_event_group >= 2
  /\ \A i \in Loops : Registered(i)
  /\ \A f \in Fds : owner[f] \in Conns => fd[owner[f]] = f

(* onAccept: the connection it is busy with is nobody else's yet.           *)
Accepting ==
  /\ main.at = "idle" => main = Idle
  /\ main.at # "idle" => /\ group.at = "running" /\ main.conn \in Conns
                         /\ fd[main.conn] \in Fds /\ main.conn \notin m_connections
  /\ main.at \in {"construct", "setState"} => state[main.conn] = "NotConnected"
  /\ main.at = "construct" =>
       /\ owner[fd[main.conn]] = main.conn
       /\ \A i \in Loops : fd[main.conn] \notin watched[i] /\ ~Posted(i, fd[main.conn])

(* onRead: an IO thread closes a connection of its own, whose number is not *)
(* free for others before it has left epoll.                                *)
ClosingBy(i) ==
  /\ io[i].at = "idle" => io[i] = Idle
  /\ io[i].at # "idle" => /\ io[i].conn \in Conns /\ fd[io[i].conn] \in Fds
                          /\ loop[io[i].conn] = i /\ state[io[i].conn] = "Closed"
                          /\ io[i].conn \in m_connections \cup early
  /\ io[i].at \in {"delete", "close"} => /\ owner[fd[io[i].conn]] = io[i].conn
                                         /\ \A j \in Loops : ~Posted(j, fd[io[i].conn])
  /\ io[i].at = "close" => fd[io[i].conn] \notin watched[i]

Closing == \A i \in Loops : ClosingBy(i)

(* A connection not accepted yet, and one taken down early.                 *)
Lives ==
  /\ early \subseteq Conns
  /\ \A c \in Conns : /\ fd[c] = NoFd => state[c] = "NotConnected" /\ c \notin m_connections
                      /\ c \in early => state[c] = "Closed"

ServerInv == TypeOK /\ ThreadInv /\ Registration /\ Accepting /\ Closing /\ Lives

-----------------------------------------------------------------------------
(* Lemmas about queues, the descriptors and the points of onAccept and      *)
(* onRead.                                                                  *)

LEMMA AppendHas ==
  ASSUME NEW s \in Seq(Fds), NEW f \in Fds
  PROVE  /\ \A g : Has(Append(s, f), g) <=> Has(s, g) \/ g = f
         /\ NoRepeat(s) /\ ~Has(s, f) => NoRepeat(Append(s, f))
<1>1. /\ Len(s) \in Nat /\ Len(Append(s, f)) = Len(s) + 1
      /\ \A k \in 1..Len(s) : Append(s, f)[k] = s[k]
      /\ Append(s, f)[Len(s) + 1] = f
  BY AppendProperties, LenProperties
<1>2. /\ \A k \in 1..Len(s) + 1 : k \in 1..Len(s) \/ k = Len(s) + 1
      /\ Len(s) + 1 \in 1..Len(s) + 1 /\ \A k \in 1..Len(s) : k \in 1..Len(s) + 1
  BY <1>1
<1>3. \A g : Has(Append(s, f), g) <=> Has(s, g) \/ g = f
  BY <1>1, <1>2 DEF Has
<1>4. ASSUME NoRepeat(s), ~Has(s, f) PROVE NoRepeat(Append(s, f))
  BY <1>1, <1>2, <1>4 DEF Has, NoRepeat
<1> QED
  BY <1>3, <1>4

LEMMA TailHas ==
  ASSUME NEW s \in Seq(Fds), s # <<>>
  PROVE  /\ Head(s) \in Fds /\ Has(s, Head(s)) /\ Tail(s) \in Seq(Fds)
         /\ \A g : Has(Tail(s), g) => Has(s, g)
         /\ \A g : Has(s, g) /\ g # Head(s) => Has(Tail(s), g)
         /\ NoRepeat(s) => NoRepeat(Tail(s)) /\ ~Has(Tail(s), Head(s))
<1>1. /\ Tail(s) \in Seq(Fds) /\ Len(Tail(s)) = Len(s) - 1
      /\ \A k \in 1..Len(Tail(s)) : Tail(s)[k] = s[k + 1]
      /\ Head(s) = s[1] /\ Len(s) \in Nat /\ Len(s) >= 1 /\ Head(s) \in Fds
  BY HeadTailProperties, LenProperties, EmptySeq
<1>2. /\ \A k \in 1..Len(Tail(s)) : k + 1 \in 1..Len(s) /\ k + 1 # 1
      /\ \A k \in 1..Len(s) : k # 1 => k - 1 \in 1..Len(Tail(s)) /\ k - 1 + 1 = k
      /\ 1 \in 1..Len(s)
  BY <1>1
<1>3. Has(s, Head(s)) /\ \A g : Has(Tail(s), g) => Has(s, g)
  BY <1>1, <1>2 DEF Has
<1>4. ASSUME NEW g, Has(s, g), g # Head(s) PROVE Has(Tail(s), g)
  <2>1. PICK k \in 1..Len(s) : s[k] = g
    BY <1>4 DEF Has
  <2>2. k # 1
    BY <1>1, <1>4, <2>1
  <2>3. Tail(s)[k - 1] = g
    BY <1>1, <1>2, <2>1, <2>2
  <2> QED
    BY <1>2, <2>2, <2>3 DEF Has
<1>5. ASSUME NoRepeat(s) PROVE NoRepeat(Tail(s)) /\ ~Has(Tail(s), Head(s))
  <2>1. ASSUME NEW k \in 1..Len(Tail(s)), NEW l \in 1..Len(Tail(s)), Tail(s)[k] = Tail(s)[l]
        PROVE  k = l
    <3>1. k + 1 = l + 1
      BY <1>1, <1>2, <1>5, <2>1 DEF NoRepeat
    <3> QED
      BY <3>1
  <2>2. ASSUME NEW k \in 1..Len(Tail(s)), Tail(s)[k] = Head(s) PROVE FALSE
    BY <1>1, <1>2, <1>5, <2>2 DEF NoRepeat
  <2> QED
    BY <2>1, <2>2 DEF NoRepeat, Has
<1> QED
  BY <1>1, <1>3, <1>4, <1>5

LEMMA EmptyHas == NoRepeat(<<>>) /\ \A f : ~Has(<<>>, f)
  BY DEF Has, NoRepeat

(* getFdEvent leaves an FdEvent for the number, and those it had.           *)
LEMMA GrownHolds ==
  ASSUME NEW size \in Nat, size >= 2, NEW f \in Nat
  PROVE  /\ Grown(size, f) \in Nat /\ f < Grown(size, f) /\ size <= Grown(size, f)
  BY DEF Grown

LEMMA NumberTypes ==
  /\ NoFd \notin Fds /\ Fds \subseteq Nat
  /\ NoConn \notin Conns /\ Listener \notin Conns /\ Listener # NoConn
  BY FdsAssumption, ConnsAssumption DEF NoFd, NoConn, Listener

LEMMA IndexType == m_index \in Loops => NextIndex \in Loops
  BY IOThreadsAssumption DEF NextIndex, Loops

LEMMA MainGoes ==
  ASSUME TypeOK, NEW point, NEW next \in {"idle", "setState", "setRemoveCb", "insert"},
         MainAt(point, next)
  PROVE  /\ main.at = point /\ main'.at = next
         /\ next = "idle" => main' = Idle
         /\ next # "idle" => main'.conn = main.conn
         /\ main' \in [at : {"idle", "construct", "setState", "setRemoveCb", "insert"},
                       conn : Conns \cup {NoConn}]
  BY DEF MainAt, TypeOK, Idle

LEMMA IOGoes ==
  ASSUME TypeOK, NEW i \in Loops, NEW point, NEW next \in {"idle", "close", "zero", "remove"},
         IOAt(i, point, next)
  PROVE  /\ io[i].at = point /\ io'[i].at = next
         /\ next = "idle" => io'[i] = Idle
         /\ next # "idle" => io'[i].conn = io[i].conn
         /\ \A j \in Loops : j # i => io'[j] = io[j]
         /\ io' \in [Loops -> [at : {"idle", "delete", "close", "zero", "remove"},
                               conn : Conns \cup {NoConn}]]
<1> DEFINE new == IF next = "idle" THEN Idle ELSE [io[i] EXCEPT !.at = next]
<1>1. io[i] \in [at : {"idle", "delete", "close", "zero", "remove"}, conn : Conns \cup {NoConn}]
  BY DEF TypeOK
<1>2. /\ new \in [at : {"idle", "delete", "close", "zero", "remove"}, conn : Conns \cup {NoConn}]
      /\ new.at = next /\ (next = "idle" => new = Idle) /\ (next # "idle" => new.conn = io[i].conn)
  BY <1>1 DEF Idle
<1>3. io[i].at = point /\ io' = [io EXCEPT ![i] = new]
  BY DEF IOAt
<1> HIDE DEF new
<1> QED
  BY <1>2, <1>3 DEF TypeOK

LEMMA ThreadsStay ==
  ASSUME ThreadInv, UNCHANGED threadVars
  PROVE  ThreadInv' /\ ThreadTypeOK'
  BY DEF ThreadInv, ThreadTypeOK, ThreadOK, Passed, Joined, Created, threadVars, Loops

LEMMA InitServerInv == Init => ServerInv
<1> SUFFICES ASSUME Init PROVE ServerInv
  OBVIOUS
<1>1. ThreadInv
  BY InitThreadInv DEF Init
<1>2. GroupSize \in Nat /\ GroupSize >= 2 /\ ListenFd \in Nat
  BY GroupSizeAssumption, FdsAssumption
<1>3. m_fd_event_group \in Nat /\ m_fd_event_group >= 2
  BY <1>2, GrownHolds DEF Init
<1>4. /\ main \in [at : {"idle", "construct", "setState", "setRemoveCb", "insert"},
                   conn : Conns \cup {NoConn}]
      /\ io \in [Loops -> [at : {"idle", "delete", "close", "zero", "remove"},
                           conn : Conns \cup {NoConn}]]
  BY DEF Init, Idle
<1>5. tasks \in [Loops -> Seq(Fds)]
  BY EmptySeq DEF Init
<1>6. owner \in [Fds -> Conns \cup {Listener, NoConn}] /\ callback \in [Fds -> Conns \cup {NoConn}]
  BY DEF Init
<1>7. /\ watched \in [Loops -> SUBSET Fds] /\ interest \in [Loops -> SUBSET Fds]
      /\ fd \in [Conns -> Fds \cup {NoFd}] /\ loop \in [Conns -> Loops]
      /\ state \in [Conns -> {"NotConnected", "Connected", "Closed"}]
  BY LoopsNat DEF Init
<1>8. TypeOK
  BY <1>1, <1>3, <1>4, <1>5, <1>6, <1>7, LoopsNat DEF Init, TypeOK, ThreadInv
<1>9. Registration
  BY <1>3, EmptyHas, NumberTypes DEF Init, Registration, Registered, Posted
<1>10. Accepting
  BY DEF Init, Accepting, Idle
<1>11. Closing
  BY DEF Init, Closing, ClosingBy, Idle
<1>12. Lives
  BY DEF Init, Lives
<1> QED
  BY <1>1, <1>8, <1>9, <1>10, <1>11, <1>12 DEF ServerInv

LEMMA AcceptInv ==
  ASSUME ServerInv, NEW c \in Conns, Accept(c)
  PROVE  ServerInv'
<1>1. PICK f \in Fds : /\ owner[f] = NoConn
                       /\ owner' = [owner EXCEPT ![f] = c]
                       /\ fd' = [fd EXCEPT ![c] = f]
  BY DEF Accept
<1>2. /\ group.at = "running" /\ main = Idle /\ fd[c] = NoFd
      /\ main' = [at |-> "construct", conn |-> c]
      /\ loop' = [loop EXCEPT ![c] = m_index] /\ m_index' = NextIndex
      /\ UNCHANGED <<io, threadVars, m_fd_event_group, events, callback, loopVars, state, removeCb,
                     gone, setVars, history>>
  BY DEF Accept, GroupAt
<1>3. TypeOK
  BY DEF ServerInv
<1>4. /\ \A g \in Fds : owner'[g] = IF g = f THEN c ELSE owner[g]
      /\ \A d \in Conns : fd'[d] = (IF d = c THEN f ELSE fd[d])
                          /\ loop'[d] = IF d = c THEN m_index ELSE loop[d]
  BY <1>1, <1>2, <1>3 DEF TypeOK
<1>5. ThreadInv' /\ ThreadTypeOK'
  BY <1>2, ThreadsStay DEF ServerInv
<1>6. TypeOK'
  <2>1. owner' \in [Fds -> Conns \cup {Listener, NoConn}] /\ fd' \in [Conns -> Fds \cup {NoFd}]
    BY <1>1, <1>3 DEF TypeOK
  <2>2. loop' \in [Conns -> Loops] /\ m_index' \in Loops
    BY <1>2, <1>3, IndexType DEF TypeOK
  <2>3. main' \in [at : {"idle", "construct", "setState", "setRemoveCb", "insert"},
                   conn : Conns \cup {NoConn}]
    BY <1>2
  <2> QED
    BY <1>2, <1>3, <1>5, <2>1, <2>2, <2>3 DEF TypeOK, loopVars, setVars
<1>7. \A i \in Loops : f \notin watched[i] /\ ~Posted(i, f)
  BY <1>1, NumberTypes DEF ServerInv, Registration, Registered, Bound
<1>8. \A g \in Fds : owner[g] \in Conns => owner[g] # c
  BY <1>2, NumberTypes DEF ServerInv, Registration
<1>9. Registration'
  <2>1. ASSUME NEW i \in Loops PROVE Registered(i)'
    <3>1. UNCHANGED <<interest, watched, tasks, m_fd_event_group, callback>>
      BY <1>2 DEF loopVars
    <3>2. ASSUME NEW g \in Fds, g \in watched[i] \/ Posted(i, g) PROVE Bound(i, g)'
      <4>1. Bound(i, g) /\ g # f
        BY <1>7, <3>2 DEF ServerInv, Registration, Registered
      <4> QED
        BY <1>4, <1>8, <3>1, <4>1 DEF Bound
    <3> QED
      BY <3>1, <3>2 DEF ServerInv, Registration, Registered, Posted
  <2>2. \A g \in Fds : owner'[g] \in Conns => fd'[owner'[g]] = g
    BY <1>4, <1>8 DEF ServerInv, Registration
  <2> QED
    BY <1>2, <2>1, <2>2 DEF ServerInv, Registration
<1>10. Accepting'
  BY <1>2, <1>4, <1>7 DEF ServerInv, Lives, Accepting, Posted, loopVars, threadVars, setVars
<1>11. Closing'
  <2> SUFFICES ASSUME NEW i \in Loops PROVE ClosingBy(i)'
    BY DEF Closing
  <2>1. ClosingBy(i)
    BY DEF ServerInv, Closing
  <2>2. io[i].at # "idle" => io[i].conn # c
    BY <1>2, <2>1, NumberTypes DEF ClosingBy
  <2>3. io[i].at \in {"delete", "close"} => fd[io[i].conn] # f
    BY <1>1, <2>1, NumberTypes DEF ClosingBy
  <2> QED
    BY <1>2, <1>4, <2>1, <2>2, <2>3 DEF ClosingBy, Posted, loopVars, setVars, history
<1>12. Lives'
  BY <1>2, <1>4, NumberTypes DEF ServerInv, Lives, setVars, history
<1> QED
  BY <1>5, <1>6, <1>9, <1>10, <1>11, <1>12 DEF ServerInv

(* The peers' own steps.                                                    *)
LEMMA PeerInv ==
  ASSUME ServerInv, NEW c \in Conns, AcceptFails(c) \/ PeerCloses(c)
  PROVE  ServerInv'
<1>1. /\ gone' = gone \cup {c}
      /\ UNCHANGED <<mainVars, io, fdVars, loopVars, fd, loop, state, removeCb, setVars, history>>
  BY DEF AcceptFails, PeerCloses
<1>2. ThreadInv' /\ ThreadTypeOK'
  BY <1>1, ThreadsStay DEF ServerInv, mainVars
<1>3. TypeOK'
  BY <1>1, <1>2 DEF ServerInv, TypeOK, mainVars, fdVars, loopVars, setVars
<1>4. Registration'
  BY <1>1 DEF ServerInv, Registration, Registered, Bound, Posted, fdVars, loopVars
<1>5. Accepting'
  BY <1>1 DEF ServerInv, Accepting, Posted, mainVars, threadVars, fdVars, loopVars, setVars
<1>6. Closing' /\ Lives'
  BY <1>1 DEF ServerInv, Closing, ClosingBy, Lives, Posted, fdVars, loopVars, setVars, history
<1> QED
  BY <1>2, <1>3, <1>4, <1>5, <1>6 DEF ServerInv

LEMMA ConstructInv ==
  ASSUME ServerInv, Construct
  PROVE  ServerInv'
<1> DEFINE c == main.conn
           f == fd[c]
<1>1. /\ MainAt("construct", "setState")
      /\ m_fd_event_group' = Grown(m_fd_event_group, f)
      /\ events' = events \cup {f}
      /\ callback' = [callback EXCEPT ![f] = c]
      /\ tasks' = [tasks EXCEPT ![loop[c]] = Append(@, f)]
      /\ UNCHANGED <<owner, watched, interest, connVars, setVars, history, m_index, io, threadVars>>
  BY DEF Construct, MainAt
<1>2. TypeOK /\ Registration /\ Accepting /\ Closing /\ Lives
  BY DEF ServerInv
<1>3. main.at = "construct" /\ main'.at = "setState" /\ main'.conn = c
      /\ main' \in [at : {"idle", "construct", "setState", "setRemoveCb", "insert"},
                    conn : Conns \cup {NoConn}]
  BY <1>1, <1>2, MainGoes
<1>4. /\ c \in Conns /\ f \in Fds /\ owner[f] = c /\ loop[c] \in Loops
      /\ \A i \in Loops : f \notin watched[i] /\ ~Posted(i, f)
  BY <1>2, <1>3 DEF Accepting, TypeOK
<1> HIDE DEF c, f
<1>5. /\ f < m_fd_event_group' /\ m_fd_event_group <= m_fd_event_group'
      /\ m_fd_event_group' \in Nat /\ m_fd_event_group \in Nat /\ m_fd_event_group >= 2 /\ f \in Nat
  BY <1>1, <1>2, <1>4, GrownHolds, NumberTypes DEF TypeOK, Registration
<1>6. /\ \A g \in Fds : callback'[g] = IF g = f THEN c ELSE callback[g]
      /\ \A i \in Loops : tasks'[i] = IF i = loop[c] THEN Append(tasks[i], f) ELSE tasks[i]
      /\ tasks' \in [Loops -> Seq(Fds)] /\ callback' \in [Fds -> Conns \cup {NoConn}]
  BY <1>1, <1>2, <1>4, AppendProperties DEF TypeOK
<1>7. ThreadInv' /\ ThreadTypeOK'
  BY <1>1, ThreadsStay DEF ServerInv
<1>8. TypeOK'
  BY <1>1, <1>2, <1>3, <1>4, <1>5, <1>6, <1>7 DEF TypeOK, connVars, setVars
<1>9. \A i \in Loops : tasks[i] \in Seq(Fds)
  BY <1>2 DEF TypeOK
<1>10. /\ \A i \in Loops : \A g \in Fds : Posted(i, g)' <=> Posted(i, g) \/ (i = loop[c] /\ g = f)
       /\ \A i \in Loops : NoRepeat(tasks'[i])
  <2> SUFFICES ASSUME NEW i \in Loops
               PROVE  /\ \A g \in Fds : Has(tasks'[i], g) <=> Has(tasks[i], g) \/ (i = loop[c] /\ g = f)
                      /\ NoRepeat(tasks'[i])
    BY DEF Posted
  <2>1. NoRepeat(tasks[i]) /\ ~Has(tasks[i], f)
    BY <1>2, <1>4 DEF Registration, Registered, Posted
  <2>2. CASE i = loop[c]
    <3>1. tasks'[i] = Append(tasks[i], f) /\ tasks[i] \in Seq(Fds) /\ f \in Fds
      BY <1>4, <1>6, <1>9, <2>2
    <3>2. /\ \A g : Has(Append(tasks[i], f), g) <=> Has(tasks[i], g) \/ g = f
          /\ NoRepeat(Append(tasks[i], f))
      BY <2>1, <3>1, AppendHas
    <3> QED
      BY <2>2, <3>1, <3>2
  <2>3. CASE i # loop[c]
    BY <1>6, <2>1, <2>3
  <2> QED
    BY <2>2, <2>3
<1>11. Registration'
  <2>1. ASSUME NEW i \in Loops PROVE Registered(i)'
    <3>1. Registered(i)
      BY <1>2 DEF Registration
    <3>2. ASSUME NEW g \in Fds, g \in watched'[i] \/ Posted(i, g)' PROVE Bound(i, g)'
      <4>1. CASE g = f
        <5>1. i = loop[c]
          BY <1>1, <1>4, <1>10, <3>2, <4>1
        <5> QED
          BY <1>1, <1>4, <1>5, <1>6, <4>1, <5>1 DEF Bound, connVars
      <4>2. CASE g # f
        <5>1. Bound(i, g)
          BY <1>1, <1>10, <3>1, <3>2, <4>2 DEF Registered
        <5>2. g \in Nat
          BY NumberTypes
        <5> QED
          BY <1>1, <1>5, <1>6, <4>2, <5>1, <5>2 DEF Bound, connVars
      <4> QED
        BY <4>1, <4>2
    <3>3. \A g \in watched'[i] : g \in Fds
      BY <1>8 DEF TypeOK
    <3>4. \A g \in watched'[i] : ~Posted(i, g)'
      BY <1>1, <1>4, <1>10, <3>1, <3>3 DEF Registered
    <3> QED
      BY <1>1, <1>10, <3>1, <3>2, <3>4 DEF Registered
  <2> QED
    BY <1>1, <1>2, <1>5, <2>1 DEF Registration, connVars
<1>12. Accepting'
  BY <1>1, <1>2, <1>3 DEF Accepting, c, threadVars, connVars, setVars
<1>13. Closing'
  <2> SUFFICES ASSUME NEW i \in Loops PROVE ClosingBy(i)'
    BY DEF Closing
  <2>1. ClosingBy(i) 
    BY <1>2 DEF Closing
  <2>2. io[i].at # "idle" => io[i].conn # c
    BY <1>2, <1>3, <2>1 DEF ClosingBy, Accepting, c
  <2>3. io[i].at \in {"delete", "close"} => fd[io[i].conn] # f /\ fd[io[i].conn] \in Fds
    BY <1>4, <2>1, <2>2 DEF ClosingBy
  <2>4. io[i].at \in {"delete", "close"} => \A j \in Loops : ~Has(tasks'[j], fd[io[i].conn])
    BY <1>10, <2>1, <2>3 DEF ClosingBy, Posted
  <2> QED
    BY <1>1, <2>1, <2>4 DEF ClosingBy, Posted, connVars, setVars, history
<1>14. Lives'
  BY <1>1, <1>2 DEF Lives, connVars, setVars, history
<1> QED
  BY <1>7, <1>8, <1>11, <1>12, <1>13, <1>14 DEF ServerInv

LEMMA SetStateInv ==
  ASSUME ServerInv, SetState
  PROVE  ServerInv'
<1>1. /\ MainAt("setState", "setRemoveCb")
      /\ state' = [state EXCEPT ![main.conn] = "Connected"]
      /\ UNCHANGED <<m_index, io, threadVars, fdVars, loopVars, fd, loop, removeCb, gone, setVars, history>>
  BY DEF SetState, MainAt
<1>2. TypeOK /\ Registration /\ Accepting /\ Closing /\ Lives
  BY DEF ServerInv
<1>3. /\ main.at = "setState" /\ main'.at = "setRemoveCb" /\ main'.conn = main.conn
      /\ main' \in [at : {"idle", "construct", "setState", "setRemoveCb", "insert"},
                    conn : Conns \cup {NoConn}]
  BY <1>1, <1>2, MainGoes
<1>4. main.conn \in Conns /\ state[main.conn] = "NotConnected" /\ fd[main.conn] # NoFd
  BY <1>2, <1>3, NumberTypes DEF Accepting
<1>5. /\ \A d \in Conns : state'[d] = IF d = main.conn THEN "Connected" ELSE state[d]
      /\ state' \in [Conns -> {"NotConnected", "Connected", "Closed"}]
  BY <1>1, <1>2, <1>4 DEF TypeOK
<1>6. ThreadInv' /\ ThreadTypeOK'
  BY <1>1, ThreadsStay DEF ServerInv
<1>7. TypeOK'
  BY <1>1, <1>2, <1>3, <1>5, <1>6 DEF TypeOK, fdVars, loopVars, setVars
<1>8. Registration'
  BY <1>1, <1>2 DEF Registration, Registered, Bound, Posted, fdVars, loopVars
<1>9. Accepting'
  BY <1>1, <1>2, <1>3 DEF Accepting, threadVars, setVars
<1>10. Closing'
  BY <1>1, <1>2, <1>4, <1>5 DEF Closing, ClosingBy, Posted, fdVars, loopVars, setVars, history
<1>11. Lives'
  BY <1>1, <1>2, <1>4, <1>5 DEF Lives, setVars, history
<1> QED
  BY <1>6, <1>7, <1>8, <1>9, <1>10, <1>11 DEF ServerInv

LEMMA SetRemoveConnCbInv ==
  ASSUME ServerInv, SetRemoveConnCb
  PROVE  ServerInv'
<1>1. /\ MainAt("setRemoveCb", "insert") /\ removeCb' = removeCb \cup {main.conn}
      /\ UNCHANGED <<m_index, io, threadVars, fdVars, loopVars, fd, loop, state, gone, setVars, history>>
  BY DEF SetRemoveConnCb, MainAt
<1>2. TypeOK /\ Registration /\ Accepting /\ Closing /\ Lives
  BY DEF ServerInv
<1>3. /\ main.at = "setRemoveCb" /\ main'.at = "insert" /\ main'.conn = main.conn
      /\ main' \in [at : {"idle", "construct", "setState", "setRemoveCb", "insert"},
                    conn : Conns \cup {NoConn}]
  BY <1>1, <1>2, MainGoes
<1>4. main.conn \in Conns
  BY <1>2, <1>3 DEF Accepting
<1>5. ThreadInv' /\ ThreadTypeOK'
  BY <1>1, ThreadsStay DEF ServerInv
<1>6. TypeOK'
  BY <1>1, <1>2, <1>3, <1>4, <1>5 DEF TypeOK, fdVars, loopVars, setVars
<1>7. Registration'
  BY <1>1, <1>2 DEF Registration, Registered, Bound, Posted, fdVars, loopVars
<1>8. Accepting'
  BY <1>1, <1>2, <1>3 DEF Accepting, threadVars, setVars
<1>9. Closing' /\ Lives'
  BY <1>1, <1>2 DEF Closing, ClosingBy, Lives, Posted, fdVars, loopVars, setVars, history
<1> QED
  BY <1>5, <1>6, <1>7, <1>8, <1>9 DEF ServerInv

LEMMA InsertInv ==
  ASSUME ServerInv, Insert
  PROVE  ServerInv'
<1>1. /\ MainAt("insert", "idle") /\ m_client_counts' = m_client_counts + 1
      /\ m_connections' = m_connections \cup {main.conn}
      /\ UNCHANGED <<m_index, io, threadVars, fdVars, loopVars, connVars, history>>
  BY DEF Insert, MainAt
<1>2. TypeOK /\ Registration /\ Accepting /\ Closing /\ Lives
  BY DEF ServerInv
<1>3. /\ main.at = "insert" /\ main' = Idle
      /\ main' \in [at : {"idle", "construct", "setState", "setRemoveCb", "insert"},
                    conn : Conns \cup {NoConn}]
  BY <1>1, <1>2, MainGoes
<1>4. main.conn \in Conns /\ fd[main.conn] # NoFd
  BY <1>2, <1>3, NumberTypes DEF Accepting
<1>5. ThreadInv' /\ ThreadTypeOK'
  BY <1>1, ThreadsStay DEF ServerInv
<1>6. TypeOK'
  BY <1>1, <1>2, <1>3, <1>4, <1>5 DEF TypeOK, fdVars, loopVars, connVars
<1>7. Registration'
  BY <1>1, <1>2 DEF Registration, Registered, Bound, Posted, fdVars, loopVars, connVars
<1>8. Accepting'
  BY <1>3 DEF Accepting, Idle
<1>9. Closing' /\ Lives'
  BY <1>1, <1>2, <1>4 DEF Closing, ClosingBy, Lives, Posted, fdVars, loopVars, connVars, history
<1> QED
  BY <1>5, <1>6, <1>7, <1>8, <1>9 DEF ServerInv

LEMMA RunAddInv ==
  ASSUME ServerInv, NEW i \in Loops, RunAdd(i)
  PROVE  ServerInv'
<1> DEFINE f == Head(tasks[i])
<1>1. /\ tasks[i] # <<>>
      /\ watched' = [watched EXCEPT ![i] = @ \cup {f}]
      /\ interest' = [interest EXCEPT ![i] = IF f \in events THEN @ \cup {f} ELSE @ \ {f}]
      /\ tasks' = [tasks EXCEPT ![i] = Tail(@)]
      /\ UNCHANGED <<mainVars, io, fdVars, connVars, setVars, history>>
  BY DEF RunAdd
<1>2. TypeOK /\ Registration /\ Accepting /\ Closing /\ Lives
  BY DEF ServerInv
<1>3. /\ tasks[i] \in Seq(Fds) /\ f \in Fds /\ Posted(i, f) /\ Tail(tasks[i]) \in Seq(Fds)
      /\ \A g : Has(Tail(tasks[i]), g) => Has(tasks[i], g)
      /\ NoRepeat(Tail(tasks[i])) /\ ~Has(Tail(tasks[i]), f)
  BY <1>1, <1>2, TailHas DEF TypeOK, Registration, Registered, Posted
<1> HIDE DEF f
<1>4. /\ watched' \in [Loops -> SUBSET Fds] /\ interest' \in [Loops -> SUBSET Fds]
      /\ tasks' \in [Loops -> Seq(Fds)]
      /\ tasks'[i] = Tail(tasks[i]) /\ watched'[i] = watched[i] \cup {f}
      /\ interest'[i] \subseteq interest[i] \cup {f}
      /\ \A j \in Loops : j # i => /\ tasks'[j] = tasks[j] /\ watched'[j] = watched[j]
                                   /\ interest'[j] = interest[j]
  <2>1. /\ watched \in [Loops -> SUBSET Fds] /\ interest \in [Loops -> SUBSET Fds]
        /\ tasks \in [Loops -> Seq(Fds)]
    BY <1>2 DEF TypeOK
  <2>2. /\ watched' \in [Loops -> SUBSET Fds] /\ watched'[i] = watched[i] \cup {f}
        /\ \A j \in Loops : j # i => watched'[j] = watched[j]
    BY <1>1, <1>3, <2>1
  <2>3. /\ interest' \in [Loops -> SUBSET Fds] /\ interest'[i] \subseteq interest[i] \cup {f}
        /\ \A j \in Loops : j # i => interest'[j] = interest[j]
    BY <1>1, <1>3, <2>1
  <2>4. /\ tasks' \in [Loops -> Seq(Fds)] /\ tasks'[i] = Tail(tasks[i])
        /\ \A j \in Loops : j # i => tasks'[j] = tasks[j]
    BY <1>1, <1>3, <2>1
  <2> QED
    BY <2>2, <2>3, <2>4
<1>5. ThreadInv' /\ ThreadTypeOK'
  BY <1>1, ThreadsStay DEF ServerInv, mainVars
<1>6. TypeOK'
  BY <1>1, <1>2, <1>4, <1>5 DEF TypeOK, mainVars, fdVars, connVars, setVars
<1>7. \A j \in Loops : \A g \in Fds : Has(tasks'[j], g) => Has(tasks[j], g)
  BY <1>3, <1>4
<1>8. Registration'
  <2>1. ASSUME NEW j \in Loops PROVE Registered(j)'
    <3>1. Registered(j)
      BY <1>2 DEF Registration
    <3>2. ASSUME NEW g \in Fds, g \in watched'[j] \/ Posted(j, g)' PROVE Bound(j, g)'
      <4>1. Bound(j, g)
        BY <1>3, <1>4, <1>7, <3>1, <3>2 DEF Registered, Posted
      <4> QED
        BY <1>1, <4>1 DEF Bound, fdVars, connVars
    <3>3. ASSUME NEW g \in watched'[j] PROVE ~Posted(j, g)'
      <4>1. g \in Fds
        BY <1>6 DEF TypeOK
      <4> QED
        BY <1>3, <1>4, <1>7, <3>1, <3>3, <4>1 DEF Registered, Posted
    <3>4. NoRepeat(tasks'[j]) /\ interest'[j] \subseteq watched'[j]
      BY <1>3, <1>4, <3>1 DEF Registered
    <3> QED
      BY <3>2, <3>3, <3>4 DEF Registered
  <2> QED
    BY <1>1, <1>2, <2>1 DEF Registration, fdVars, connVars
<1>9. Accepting'
  <2>1. main.at = "construct" => main.conn \in Conns /\ fd[main.conn] \in Fds /\ fd[main.conn] # f
    BY <1>2, <1>3 DEF Accepting
  <2>2. main.at = "construct" =>
          \A j \in Loops : fd[main.conn] \notin watched'[j] /\ ~Has(tasks'[j], fd[main.conn])
    BY <1>2, <1>4, <1>7, <2>1 DEF Accepting, Posted
  <2> QED
    BY <1>1, <1>2, <2>2 DEF Accepting, Posted, mainVars, threadVars, fdVars, connVars, setVars
<1>10. Closing'
  <2> SUFFICES ASSUME NEW j \in Loops PROVE ClosingBy(j)'
    BY DEF Closing
  <2>1. ClosingBy(j)
    BY <1>2 DEF Closing
  <2>2. io[j].at \in {"delete", "close"} => /\ \A l \in Loops : ~Has(tasks'[l], fd[io[j].conn])
                                            /\ fd[io[j].conn] # f
    BY <1>3, <1>7, <2>1 DEF ClosingBy, Posted
  <2>3. io[j].at = "close" => fd[io[j].conn] \notin watched'[j]
    BY <1>4, <2>1, <2>2 DEF ClosingBy
  <2> QED
    BY <1>1, <2>1, <2>2, <2>3 DEF ClosingBy, Posted, fdVars, connVars, setVars, history
<1>11. Lives'
  BY <1>1, <1>2 DEF Lives, connVars, setVars, history
<1> QED
  BY <1>5, <1>6, <1>8, <1>9, <1>10, <1>11 DEF ServerInv

LEMMA ReadEndInv ==
  ASSUME ServerInv, NEW i \in Loops, NEW f \in Fds, ReadEnd(i, f)
  PROVE  ServerInv'
<1> DEFINE c == callback[f]
<1>1. /\ io[i] = Idle /\ f \in interest[i] /\ state[c] = "Connected"
      /\ state' = [state EXCEPT ![c] = "Closed"]
      /\ io' = [io EXCEPT ![i] = [at |-> "delete", conn |-> c]]
      /\ early' = IF c \in m_connections THEN early ELSE early \cup {c}
      /\ UNCHANGED <<mainVars, fdVars, loopVars, fd, loop, removeCb, gone, setVars, hit>>
  BY DEF ReadEnd, Ready
<1>2. TypeOK /\ Registration /\ Accepting /\ Closing /\ Lives
  BY DEF ServerInv
<1>3. /\ f \in watched[i] /\ Bound(i, f)
  BY <1>1, <1>2 DEF Registration, Registered
<1>4. c \in Conns /\ owner[f] = c /\ loop[c] = i /\ fd[c] = f
  BY <1>2, <1>3 DEF Bound, Registration
<1> HIDE DEF c
<1>5. \A j \in Loops : ~Posted(j, f)
  <2> SUFFICES ASSUME NEW j \in Loops, Posted(j, f) PROVE FALSE
    OBVIOUS
  <2>1. Bound(j, f)
    BY <1>2 DEF Registration, Registered
  <2>2. j = i
    BY <1>4, <2>1 DEF Bound
  <2> QED
    BY <1>2, <1>3, <2>2 DEF Registration, Registered
<1>6. /\ \A d \in Conns : state'[d] = IF d = c THEN "Closed" ELSE state[d]
      /\ state' \in [Conns -> {"NotConnected", "Connected", "Closed"}]
  BY <1>1, <1>2, <1>4 DEF TypeOK
<1>7. /\ io'[i].at = "delete" /\ io'[i].conn = c /\ \A j \in Loops : j # i => io'[j] = io[j]
      /\ io' \in [Loops -> [at : {"idle", "delete", "close", "zero", "remove"},
                            conn : Conns \cup {NoConn}]]
  BY <1>1, <1>2, <1>4 DEF TypeOK
<1>8. ThreadInv' /\ ThreadTypeOK'
  BY <1>1, ThreadsStay DEF ServerInv, mainVars
<1>9. TypeOK'
  BY <1>1, <1>2, <1>6, <1>7, <1>8 DEF TypeOK, mainVars, fdVars, loopVars, setVars
<1>10. Registration'
  BY <1>1, <1>2 DEF Registration, Registered, Bound, Posted, fdVars, loopVars
<1>11. main.at # "idle" => main.conn \in Conns
  BY <1>2 DEF Accepting
<1>12. Accepting'
  BY <1>1, <1>2, <1>6, <1>11 DEF Accepting, Posted, mainVars, threadVars, fdVars, loopVars, setVars
<1>13. early' \subseteq Conns /\ c \in m_connections' \cup early' /\ early \subseteq early'
       /\ early' \subseteq early \cup {c}
  BY <1>1, <1>2, <1>4 DEF Lives, setVars
<1>14. Closing'
  <2> SUFFICES ASSUME NEW j \in Loops PROVE ClosingBy(j)'
    BY DEF Closing
  <2>1. CASE j = i
    BY <1>1, <1>4, <1>5, <1>6, <1>7, <1>13, <2>1 DEF ClosingBy, Posted, fdVars, loopVars
  <2>2. CASE j # i
    <3>1. ClosingBy(j) /\ io'[j] = io[j]
      BY <1>2, <1>7, <2>2 DEF Closing
    <3> QED
      BY <1>1, <1>6, <1>13, <3>1 DEF ClosingBy, Posted, fdVars, loopVars, setVars
  <2> QED
    BY <2>1, <2>2
<1>15. Lives'
  BY <1>1, <1>2, <1>4, <1>6, <1>13, NumberTypes DEF Lives, setVars
<1> QED
  BY <1>8, <1>9, <1>10, <1>12, <1>14, <1>15 DEF ServerInv

LEMMA DeleteEpollEventInv ==
  ASSUME ServerInv, NEW i \in Loops, DeleteEpollEvent(i)
  PROVE  ServerInv'
<1> DEFINE f == fd[io[i].conn]
<1>1. /\ IOAt(i, "delete", "close")
      /\ watched' = [watched EXCEPT ![i] = @ \ {f}]
      /\ interest' = [interest EXCEPT ![i] = @ \ {f}]
      /\ UNCHANGED <<mainVars, tasks, fdVars, connVars, setVars, history>>
  BY DEF DeleteEpollEvent, IOAt
<1>2. TypeOK /\ Registration /\ Accepting /\ Closing /\ Lives
  BY DEF ServerInv
<1>3. /\ io[i].at = "delete" /\ io'[i].at = "close" /\ io'[i].conn = io[i].conn
      /\ \A j \in Loops : j # i => io'[j] = io[j]
      /\ io' \in [Loops -> [at : {"idle", "delete", "close", "zero", "remove"},
                            conn : Conns \cup {NoConn}]]
  BY <1>1, <1>2, IOGoes
<1> HIDE DEF f
<1>4. /\ watched' \in [Loops -> SUBSET Fds] /\ interest' \in [Loops -> SUBSET Fds]
      /\ watched'[i] = watched[i] \ {f} /\ interest'[i] = interest[i] \ {f}
      /\ \A j \in Loops : j # i => watched'[j] = watched[j] /\ interest'[j] = interest[j]
  BY <1>1, <1>2 DEF TypeOK
<1>5. ThreadInv' /\ ThreadTypeOK'
  BY <1>1, ThreadsStay DEF ServerInv, mainVars
<1>6. TypeOK'
  BY <1>1, <1>2, <1>3, <1>4, <1>5 DEF TypeOK, mainVars, fdVars, connVars, setVars
<1>7. \A j \in Loops : watched'[j] \subseteq watched[j] /\ watched'[j] \subseteq Fds
  BY <1>4
<1>8. Registration'
  <2>1. ASSUME NEW j \in Loops PROVE Registered(j)'
    <3>1. Registered(j)
      BY <1>2 DEF Registration
    <3>2. interest'[j] \subseteq watched'[j]
      BY <1>4, <3>1 DEF Registered
    <3> QED
      BY <1>1, <1>7, <3>1, <3>2 DEF Registered, Bound, Posted, fdVars, connVars
  <2> QED
    BY <1>1, <1>2, <2>1 DEF Registration, fdVars, connVars
<1>9. Accepting'
  BY <1>1, <1>2, <1>7 DEF Accepting, Posted, mainVars, threadVars, fdVars, connVars, setVars
<1>10. Closing'
  <2> SUFFICES ASSUME NEW j \in Loops PROVE ClosingBy(j)'
    BY DEF Closing
  <2>1. ClosingBy(j)
    BY <1>2 DEF Closing
  <2>2. CASE j = i
    BY <1>1, <1>3, <1>4, <2>1, <2>2 DEF ClosingBy, Posted, f, fdVars, connVars, setVars, history
  <2>3. CASE j # i
    BY <1>1, <1>3, <1>4, <2>1, <2>3 DEF ClosingBy, Posted, fdVars, connVars, setVars, history
  <2> QED
    BY <2>2, <2>3
<1>11. Lives'
  BY <1>1, <1>2 DEF Lives, connVars, setVars, history
<1> QED
  BY <1>5, <1>6, <1>8, <1>9, <1>10, <1>11 DEF ServerInv

LEMMA CloseFdInv ==
  ASSUME ServerInv, NEW i \in Loops, CloseFd(i)
  PROVE  ServerInv'
<1> DEFINE c == io[i].conn
           f == fd[c]
<1>1. /\ IOAt(i, "close", "zero")
      /\ owner' = [owner EXCEPT ![f] = NoConn]
      /\ UNCHANGED <<mainVars, m_fd_event_group, events, callback, loopVars, connVars, setVars, history>>
  BY DEF CloseFd, IOAt
<1>2. TypeOK /\ Registration /\ Accepting /\ Closing /\ Lives
  BY DEF ServerInv
<1>3. /\ io[i].at = "close" /\ io'[i].at = "zero" /\ io'[i].conn = c
      /\ \A j \in Loops : j # i => io'[j] = io[j]
      /\ io' \in [Loops -> [at : {"idle", "delete", "close", "zero", "remove"},
                            conn : Conns \cup {NoConn}]]
  BY <1>1, <1>2, IOGoes
<1>4. /\ c \in Conns /\ f \in Fds /\ owner[f] = c /\ loop[c] = i /\ state[c] = "Closed"
      /\ f \notin watched[i] /\ \A j \in Loops : ~Posted(j, f)
  BY <1>2, <1>3 DEF Closing, ClosingBy
<1> HIDE DEF c, f
<1>5. /\ \A g \in Fds : owner'[g] = IF g = f THEN NoConn ELSE owner[g]
      /\ owner' \in [Fds -> Conns \cup {Listener, NoConn}]
  BY <1>1, <1>2, <1>4 DEF TypeOK
<1>6. \A j \in Loops : f \notin watched[j]
  <2> SUFFICES ASSUME NEW j \in Loops, f \in watched[j] PROVE FALSE
    OBVIOUS
  <2>1. Bound(j, f)
    BY <1>2, <1>4 DEF Registration, Registered
  <2> QED
    BY <1>4, <2>1 DEF Bound
<1>7. ThreadInv' /\ ThreadTypeOK'
  BY <1>1, ThreadsStay DEF ServerInv, mainVars
<1>8. TypeOK'
  BY <1>1, <1>2, <1>3, <1>5, <1>7 DEF TypeOK, mainVars, loopVars, connVars, setVars
<1>9. Registration'
  <2>1. ASSUME NEW j \in Loops PROVE Registered(j)'
    <3>1. Registered(j)
      BY <1>2 DEF Registration
    <3>2. ASSUME NEW g \in Fds, g \in watched[j] \/ Posted(j, g) PROVE Bound(j, g)'
      <4>1. Bound(j, g) /\ g # f
        BY <1>4, <1>6, <3>1, <3>2 DEF Registered
      <4> QED
        BY <1>1, <1>5, <4>1 DEF Bound, connVars
    <3> QED
      BY <1>1, <3>1, <3>2 DEF Registered, Posted, loopVars
  <2>2. \A g \in Fds : owner'[g] \in Conns => fd'[owner'[g]] = g
    BY <1>1, <1>2, <1>5, NumberTypes DEF Registration, connVars
  <2> QED
    BY <1>1, <1>2, <2>1, <2>2 DEF Registration
<1>10. Accepting'
  <2>1. main.at = "construct" => fd[main.conn] # f /\ fd[main.conn] \in Fds
    BY <1>2, <1>4 DEF Accepting
  <2> QED
    BY <1>1, <1>2, <1>5, <2>1 DEF Accepting, Posted, mainVars, threadVars, loopVars, connVars, setVars
<1>11. Closing'
  <2> SUFFICES ASSUME NEW j \in Loops PROVE ClosingBy(j)'
    BY DEF Closing
  <2>1. ClosingBy(j)
    BY <1>2 DEF Closing
  <2>2. CASE j = i
    BY <1>1, <1>3, <2>1, <2>2 DEF ClosingBy, c, connVars, setVars, history
  <2>3. CASE j # i
    <3>1. io[j].at \in {"delete", "close"} => fd[io[j].conn] # f /\ fd[io[j].conn] \in Fds
      BY <1>4, <2>1, <2>3 DEF ClosingBy
    <3> QED
      BY <1>1, <1>3, <1>5, <2>1, <2>3, <3>1
      DEF ClosingBy, Posted, loopVars, connVars, setVars, history
  <2> QED
    BY <2>2, <2>3
<1>12. Lives'
  BY <1>1, <1>2 DEF Lives, connVars, setVars, history
<1> QED
  BY <1>7, <1>8, <1>9, <1>10, <1>11, <1>12 DEF ServerInv

LEMMA ZeroEventsInv ==
  ASSUME ServerInv, NEW i \in Loops, ZeroEvents(i)
  PROVE  ServerInv'
<1>1. /\ IOAt(i, "zero", "remove") /\ events' = events \ {fd[io[i].conn]}
      /\ UNCHANGED <<mainVars, m_fd_event_group, owner, callback, loopVars, connVars, setVars, early>>
  BY DEF ZeroEvents, IOAt
<1>2. TypeOK /\ Registration /\ Accepting /\ Closing /\ Lives
  BY DEF ServerInv
<1>3. /\ io[i].at = "zero" /\ io'[i].at = "remove" /\ io'[i].conn = io[i].conn
      /\ \A j \in Loops : j # i => io'[j] = io[j]
      /\ io' \in [Loops -> [at : {"idle", "delete", "close", "zero", "remove"},
                            conn : Conns \cup {NoConn}]]
  BY <1>1, <1>2, IOGoes
<1>4. ThreadInv' /\ ThreadTypeOK'
  BY <1>1, ThreadsStay DEF ServerInv, mainVars
<1>5. TypeOK'
  BY <1>1, <1>2, <1>3, <1>4 DEF TypeOK, mainVars, loopVars, connVars, setVars
<1>6. Registration'
  BY <1>1, <1>2 DEF Registration, Registered, Bound, Posted, loopVars, connVars
<1>7. Accepting'
  BY <1>1, <1>2 DEF Accepting, Posted, mainVars, threadVars, loopVars, connVars, setVars
<1>8. Closing'
  <2> SUFFICES ASSUME NEW j \in Loops PROVE ClosingBy(j)'
    BY DEF Closing
  <2>1. ClosingBy(j)
    BY <1>2 DEF Closing
  <2>2. CASE j = i
    BY <1>1, <1>3, <2>1, <2>2 DEF ClosingBy, connVars, setVars
  <2>3. CASE j # i
    BY <1>1, <1>3, <2>1, <2>3 DEF ClosingBy, Posted, loopVars, connVars, setVars
  <2> QED
    BY <2>2, <2>3
<1>9. Lives'
  BY <1>1, <1>2 DEF Lives, connVars, setVars
<1> QED
  BY <1>4, <1>5, <1>6, <1>7, <1>8, <1>9 DEF ServerInv

LEMMA RemoveConnectionInv ==
  ASSUME ServerInv, NEW i \in Loops, RemoveConnection(i)
  PROVE  ServerInv'
<1> DEFINE c == io[i].conn
<1>1. /\ IOAt(i, "remove", "idle")
      /\ IF c \in removeCb
         THEN m_connections' = m_connections \ {c} /\ m_client_counts' = m_client_counts - 1
         ELSE UNCHANGED setVars
      /\ UNCHANGED <<mainVars, fdVars, loopVars, connVars, history>>
  BY DEF RemoveConnection, IOAt
<1>2. TypeOK /\ Registration /\ Accepting /\ Closing /\ Lives
  BY DEF ServerInv
<1>3. /\ io[i].at = "remove" /\ io'[i] = Idle
      /\ \A j \in Loops : j # i => io'[j] = io[j]
      /\ io' \in [Loops -> [at : {"idle", "delete", "close", "zero", "remove"},
                            conn : Conns \cup {NoConn}]]
  BY <1>1, <1>2, IOGoes
<1>4. m_connections' \subseteq m_connections /\ m_connections \subseteq m_connections' \cup {c}
  BY <1>1 DEF setVars
<1>5. m_client_counts' \in Int
  BY <1>1, <1>2 DEF TypeOK, setVars
<1>6. ThreadInv' /\ ThreadTypeOK'
  BY <1>1, ThreadsStay DEF ServerInv, mainVars
<1>7. TypeOK'
  BY <1>1, <1>2, <1>3, <1>4, <1>5, <1>6 DEF TypeOK, mainVars, fdVars, loopVars, connVars
<1>8. Registration'
  BY <1>1, <1>2 DEF Registration, Registered, Bound, Posted, fdVars, loopVars, connVars
<1>9. Accepting'
  BY <1>1, <1>2, <1>4 DEF Accepting, Posted, mainVars, threadVars, fdVars, loopVars, connVars
<1>10. Closing'
  <2> SUFFICES ASSUME NEW j \in Loops PROVE ClosingBy(j)'
    BY DEF Closing
  <2>1. CASE j = i
    BY <1>3, <2>1 DEF ClosingBy, Idle
  <2>2. CASE j # i
    <3>1. ClosingBy(j) /\ ClosingBy(i)
      BY <1>2 DEF Closing
    <3>2. io[j].at # "idle" => io[j].conn # c
      BY <1>3, <2>2, <3>1 DEF ClosingBy
    <3> QED
      BY <1>1, <1>3, <1>4, <2>2, <3>1, <3>2 DEF ClosingBy, Posted, fdVars, loopVars, connVars, history
  <2> QED
    BY <2>1, <2>2
<1>11. Lives'
  BY <1>1, <1>2, <1>4 DEF Lives, connVars, history
<1> QED
  BY <1>6, <1>7, <1>8, <1>9, <1>10, <1>11 DEF ServerInv

(* The life of the group, in which no connection has a part.                *)
LEMMA GroupInv ==
  ASSUME ServerInv, UNCHANGED <<main, m_index, io, fdVars, loopVars, connVars, setVars, history>>,
         ThreadInv', main.at # "idle" => group'.at = "running"
  PROVE  ServerInv'
<1>1. TypeOK /\ Registration /\ Accepting /\ Closing /\ Lives
  BY DEF ServerInv
<1>2. TypeOK'
  BY <1>1 DEF TypeOK, ThreadInv, fdVars, loopVars, connVars, setVars
<1>3. Registration'
  BY <1>1 DEF Registration, Registered, Bound, Posted, fdVars, loopVars, connVars
<1>4. Accepting'
  BY <1>1 DEF Accepting, Posted, fdVars, loopVars, connVars, setVars
<1>5. Closing' /\ Lives'
  BY <1>1 DEF Closing, ClosingBy, Lives, Posted, fdVars, loopVars, connVars, setVars, history
<1> QED
  BY <1>2, <1>3, <1>4, <1>5 DEF ServerInv

LEMMA NextServerInv == ServerInv /\ [Next]_vars => ServerInv'
<1> SUFFICES ASSUME ServerInv, [Next]_vars PROVE ServerInv'
  OBVIOUS
<1>1. ThreadInv /\ ThreadTypeOK /\ (main.at # "idle" => group.at = "running")
  BY DEF ServerInv, ThreadInv, Accepting
<1>2. ASSUME UNCHANGED serverVars, ThreadInv', main.at # "idle" => group'.at = "running"
      PROVE  ServerInv'
  BY <1>2, GroupInv DEF serverVars
<1>3. CASE UNCHANGED vars
  <2>1. ThreadInv' /\ UNCHANGED serverVars /\ group' = group
    BY <1>1, <1>3, ThreadsStay DEF vars, threadVars
  <2> QED
    BY <1>1, <1>2, <2>1
<1>4. CASE Start \/ EndMain \/ (GroupStep /\ UNCHANGED serverVars)
  <2>1. UNCHANGED serverVars /\ (GroupStep \/ StartGroup \/ Destroy)
    BY <1>4 DEF Start, EndMain
  <2>2. ThreadInv'
    BY <1>1, <2>1, GroupThreadInv
  <2>3. main.at = "idle"
    BY <1>1, <1>4 DEF Start, EndMain, StartGroup, GroupStep, Create, WaitInit, StartThread,
                      StopThread, JoinThread, GroupAt, Idle
  <2> QED
    BY <1>2, <2>1, <2>2, <2>3
<1>5. ASSUME NEW i \in Loops, ThreadStep(i) PROVE ServerInv'
  <2>1. UNCHANGED serverVars /\ (MakeLoop(i) \/ PostInit(i) \/ WaitStart(i) \/ WaitDestroyed(i) \/ LeaveLoop(i))
    BY <1>5 DEF ThreadStep
  <2>2. ThreadInv' /\ group' = group
    BY <1>1, <2>1, MainThreadInv DEF MakeLoop, PostInit, WaitStart, WaitDestroyed, LeaveLoop
  <2> QED
    BY <1>1, <1>2, <2>1, <2>2
<1>6. CASE MainStep
  BY <1>4, <1>6, ConstructInv, SetStateInv, SetRemoveConnCbInv, InsertInv DEF MainStep
<1>7. ASSUME NEW i \in Loops, IOStep(i) PROVE ServerInv'
  BY <1>5, <1>7, RunAddInv, ReadEndInv, DeleteEpollEventInv, CloseFdInv, ZeroEventsInv,
     RemoveConnectionInv
  DEF IOStep
<1> QED
  BY <1>3, <1>4, <1>6, <1>7, AcceptInv, PeerInv DEF Next

LEMMA ServerSpec == Spec => []ServerInv
  BY InitServerInv, NextServerInv, PTL DEF Spec

-----------------------------------------------------------------------------
(* The server's state always has its type; no semaphore between a group and *)
(* its threads ever holds more than one post.                               *)
THEOREM TypeCorrect == Spec => []TypeOK
  BY ServerSpec, PTL DEF ServerInv

LEMMA InvDescriptors == ServerInv => OwnDescriptors
<1> SUFFICES ASSUME ServerInv, NEW i \in Loops
             PROVE  /\ \A f \in watched[i] : Bound(i, f)
                    /\ io[i].at \in {"delete", "close"} => owner[fd[io[i].conn]] = io[i].conn
  BY DEF OwnDescriptors, Bound
<1>1. watched[i] \subseteq Fds
  BY DEF ServerInv, TypeOK
<1> QED
  BY <1>1 DEF ServerInv, Registration, Registered, Closing, ClosingBy

(* An IO thread only ever reads or closes sockets of its own connections,   *)
(* however fast the kernel gives a descriptor number to another one.        *)
THEOREM DescriptorsOwned == Spec => []OwnDescriptors
  BY ServerSpec, InvDescriptors, PTL

LEMMA InvLoops == ServerInv => LoopAlive
<1> SUFFICES ASSUME ServerInv, NEW i \in Loops,
                    \/ GroupAt("join") /\ group.i = i
                    \/ thread[i] = "looping"
                    \/ main.at = "construct" /\ loop[main.conn] = i
             PROVE  i \in m_event_loop
  BY DEF LoopAlive
<1>1. ThreadOK(i) /\ i \in Nat
  BY LoopsNat DEF ServerInv, ThreadInv
<1>2. main.at = "construct" => group.at = "running"
  BY DEF ServerInv, Accepting
<1> QED
  BY <1>1, <1>2 DEF ThreadOK, Passed, Joined, GroupAt

(* No loop is used before its thread has made it or after IOThread's        *)
(* destructor has deleted it.                                               *)
THEOREM LoopsAlive == Spec => []LoopAlive
  BY ServerSpec, InvLoops, PTL

-----------------------------------------------------------------------------
(* Served is inductive together with ServerInv.                             *)

Waits(c) == /\ fd[c] \in events
            /\ fd[c] \in interest[loop[c]] \/ Has(tasks[loop[c]], fd[c])

Exempt(c) ==
  \/ c \in hit \/ fd[c] = NoFd \/ owner[fd[c]] # c \/ state[c] = "Closed"
  \/ main.at = "construct" /\ main.conn = c

WaitedFor == \A c \in Conns : Exempt(c) \/ Waits(c)

LEMMA WaitedForServed == TypeOK => (WaitedFor <=> Served)
<1> SUFFICES ASSUME TypeOK PROVE WaitedFor <=> Served
  OBVIOUS
<1>1. ASSUME NEW c \in Conns
      PROVE  main = [at |-> "construct", conn |-> c] <=> main.at = "construct" /\ main.conn = c
  BY DEF TypeOK
<1> QED
  BY <1>1 DEF WaitedFor, Served, Exempt, Waits, Has

LEMMA InitWaitedFor == Init => WaitedFor
  BY DEF Init, WaitedFor, Exempt

LEMMA AcceptWaits ==
  ASSUME ServerInv, WaitedFor, NEW c \in Conns, Accept(c)
  PROVE  WaitedFor'
<1> SUFFICES ASSUME NEW d \in Conns PROVE (Exempt(d) \/ Waits(d))'
  BY DEF WaitedFor
<1>1. PICK f \in Fds : owner' = [owner EXCEPT ![f] = c] /\ fd' = [fd EXCEPT ![c] = f]
  BY DEF Accept
<1>2. /\ main = Idle /\ main' = [at |-> "construct", conn |-> c]
      /\ loop' = [loop EXCEPT ![c] = m_index]
      /\ UNCHANGED <<events, loopVars, state, history>>
  BY DEF Accept
<1>3. TypeOK
  BY DEF ServerInv
<1>4. CASE d = c
  BY <1>2, <1>4 DEF Exempt
<1>5. CASE d # c
  <2>1. fd'[d] = fd[d] /\ loop'[d] = loop[d]
    BY <1>1, <1>2, <1>3, <1>5 DEF TypeOK
  <2>2. fd[d] # NoFd => fd[d] \in Fds
    BY <1>3 DEF TypeOK
  <2>3. fd[d] \in Fds => owner'[fd[d]] = IF fd[d] = f THEN c ELSE owner[fd[d]]
    BY <1>1, <1>3 DEF TypeOK
  <2>4. main.at # "construct"
    BY <1>2 DEF Idle
  <2>5. Exempt(d) \/ Waits(d)
    BY DEF WaitedFor
  <2> QED
    BY <1>2, <1>5, <2>1, <2>2, <2>3, <2>4, <2>5 DEF Exempt, Waits, loopVars, history
<1> QED
  BY <1>4, <1>5

LEMMA ConstructWaits ==
  ASSUME ServerInv, WaitedFor, Construct
  PROVE  WaitedFor'
<1> SUFFICES ASSUME NEW d \in Conns PROVE (Exempt(d) \/ Waits(d))'
  BY DEF WaitedFor
<1> DEFINE c == main.conn
           f == fd[c]
<1>1. /\ MainAt("construct", "setState")
      /\ events' = events \cup {f}
      /\ tasks' = [tasks EXCEPT ![loop[c]] = Append(@, f)]
      /\ UNCHANGED <<owner, interest, connVars, history>>
  BY DEF Construct
<1>2. TypeOK /\ Accepting
  BY DEF ServerInv
<1>3. main.at = "construct" /\ c \in Conns /\ f \in Fds /\ loop[c] \in Loops
  BY <1>1, <1>2 DEF Accepting, MainAt, TypeOK
<1> HIDE DEF f, c
<1>4. /\ tasks[loop[c]] \in Seq(Fds) /\ tasks'[loop[c]] = Append(tasks[loop[c]], f)
      /\ \A i \in Loops : i # loop[c] => tasks'[i] = tasks[i]
  BY <1>1, <1>2, <1>3 DEF TypeOK
<1>5. \A g : Has(Append(tasks[loop[c]], f), g) <=> Has(tasks[loop[c]], g) \/ g = f
  BY <1>3, <1>4, AppendHas
<1>6. loop[d] \in Loops
  BY <1>2 DEF TypeOK
<1>7. Has(tasks[loop[d]], fd[d]) => Has(tasks'[loop[d]], fd[d])
  BY <1>4, <1>5, <1>6
<1>8. CASE d = c
  <2>1. Has(tasks'[loop[c]], f)
    BY <1>4, <1>5
  <2> QED
    BY <1>1, <1>8, <2>1 DEF Waits, f, c, connVars
<1>9. CASE d # c
  <2>1. Exempt(d) \/ Waits(d)
    BY DEF WaitedFor
  <2> QED
    BY <1>1, <1>7, <1>9, <2>1 DEF Exempt, Waits, c, connVars, history
<1> QED
  BY <1>8, <1>9

LEMMA RunAddWaits ==
  ASSUME ServerInv, WaitedFor, NEW i \in Loops, RunAdd(i)
  PROVE  WaitedFor'
<1> SUFFICES ASSUME NEW d \in Conns, ~Exempt(d) PROVE Waits(d)'
  <2>1. UNCHANGED <<main, fdVars, connVars, hit>>
    BY DEF RunAdd, mainVars, history
  <2> QED
    BY <2>1 DEF WaitedFor, Exempt, fdVars, connVars
<1> DEFINE f == Head(tasks[i])
<1>1. /\ tasks[i] # <<>>
      /\ interest' = [interest EXCEPT ![i] = IF f \in events THEN @ \cup {f} ELSE @ \ {f}]
      /\ tasks' = [tasks EXCEPT ![i] = Tail(@)]
      /\ UNCHANGED <<fdVars, connVars>>
  BY DEF RunAdd
<1>2. TypeOK
  BY DEF ServerInv
<1>3. \A g : Has(tasks[i], g) /\ g # f => Has(Tail(tasks[i]), g)
  BY <1>1, <1>2, TailHas DEF TypeOK
<1> HIDE DEF f
<1>4. /\ tasks'[i] = Tail(tasks[i])
      /\ interest'[i] = IF f \in events THEN interest[i] \cup {f} ELSE interest[i] \ {f}
      /\ \A j \in Loops : j # i => tasks'[j] = tasks[j] /\ interest'[j] = interest[j]
  BY <1>1, <1>2 DEF TypeOK
<1>5. Waits(d) /\ loop[d] \in Loops
  BY <1>2 DEF WaitedFor, TypeOK
<1>6. CASE loop[d] = i
  <2>1. CASE fd[d] = f
    BY <1>1, <1>4, <1>5, <1>6, <2>1 DEF Waits, fdVars, connVars
  <2>2. CASE fd[d] # f
    BY <1>1, <1>3, <1>4, <1>5, <1>6, <2>2 DEF Waits, fdVars, connVars
  <2> QED
    BY <2>1, <2>2
<1>7. CASE loop[d] # i
  BY <1>1, <1>4, <1>5, <1>7 DEF Waits, fdVars, connVars
<1> QED
  BY <1>6, <1>7

LEMMA ClosingWaits ==
  ASSUME ServerInv, WaitedFor, NEW i \in Loops, DeleteEpollEvent(i) \/ CloseFd(i) \/ ZeroEvents(i)
  PROVE  WaitedFor'
<1> SUFFICES ASSUME NEW d \in Conns PROVE (Exempt(d) \/ Waits(d))'
  BY DEF WaitedFor
<1> DEFINE c == io[i].conn
<1>1. /\ TypeOK /\ ClosingBy(i)
      /\ Exempt(d) \/ Waits(d)
      /\ loop[d] \in Loops
      /\ fd[d] # NoFd => fd[d] \in Fds
  BY DEF ServerInv, Closing, WaitedFor, TypeOK
<1>2. UNCHANGED <<main, tasks, connVars>>
  BY DEF DeleteEpollEvent, CloseFd, ZeroEvents, IOAt, mainVars, loopVars
<1>3. /\ c \in Conns /\ fd[c] \in Fds /\ state[c] = "Closed"
      /\ ~ZeroEvents(i) => owner[fd[c]] = c
  <2>1. io[i].at \in {"delete", "close", "zero"} /\ (~ZeroEvents(i) => io[i].at # "zero")
    BY DEF DeleteEpollEvent, CloseFd, ZeroEvents, IOAt
  <2> QED
    BY <1>1, <2>1 DEF ClosingBy
<1> HIDE DEF c
<1>4. CASE DeleteEpollEvent(i)
  <2>1. /\ io[i].at = "delete" /\ ~ZeroEvents(i) /\ interest' = [interest EXCEPT ![i] = @ \ {fd[c]}]
        /\ UNCHANGED <<fdVars, hit>>
    BY <1>4 DEF DeleteEpollEvent, ZeroEvents, IOAt, history, c
  <2>2. interest[loop[d]] \ {fd[c]} \subseteq interest'[loop[d]]
    BY <1>1, <2>1 DEF TypeOK
  <2>3. fd[d] = fd[c] => Exempt(d)
    BY <1>3, <2>1 DEF Exempt
  <2> QED
    BY <1>1, <1>2, <2>1, <2>2, <2>3 DEF Exempt, Waits, fdVars, connVars
<1>5. CASE CloseFd(i)
  <2>1. owner' = [owner EXCEPT ![fd[c]] = NoConn] /\ UNCHANGED <<events, loopVars, hit>>
    BY <1>5 DEF CloseFd, history, c
  <2>2. fd[d] # NoFd => owner'[fd[d]] = IF fd[d] = fd[c] THEN NoConn ELSE owner[fd[d]]
    BY <1>1, <1>3, <2>1 DEF TypeOK
  <2> QED
    BY <1>1, <1>2, <2>1, <2>2, NumberTypes DEF Exempt, Waits, loopVars, connVars
<1>6. CASE ZeroEvents(i)
  <2>1. /\ events' = events \ {fd[c]}
        /\ hit' = IF owner[fd[c]] = NoConn THEN hit ELSE hit \cup {owner[fd[c]]}
        /\ UNCHANGED <<owner, loopVars>>
    BY <1>6 DEF ZeroEvents, c
  <2>2. fd[d] = fd[c] /\ owner[fd[d]] = d => d \in hit'
    BY <2>1, NumberTypes
  <2>3. hit \subseteq hit'
    BY <2>1
  <2> QED
    BY <1>1, <1>2, <2>1, <2>2, <2>3 DEF Exempt, Waits, loopVars, connVars
<1> QED
  BY <1>4, <1>5, <1>6

(* The steps that leave the FdEvents, the queues and the loops alone.       *)
LEMMA OtherWaits ==
  ASSUME WaitedFor, UNCHANGED <<fdVars, loopVars, fd, loop, hit>>,
         main'.at = "construct" <=> main.at = "construct",
         main.at = "construct" => UNCHANGED main,
         \A c \in Conns : state[c] = "Closed" => state'[c] = "Closed"
  PROVE  WaitedFor'
  BY DEF WaitedFor, Exempt, Waits, fdVars, loopVars

LEMMA NextWaits == ServerInv /\ WaitedFor /\ [Next]_vars => WaitedFor'
<1> SUFFICES ASSUME ServerInv, WaitedFor, [Next]_vars PROVE WaitedFor'
  OBVIOUS
<1>1. CASE UNCHANGED vars
  BY <1>1, OtherWaits DEF vars, serverVars, connVars, history
<1>2. ASSUME UNCHANGED serverVars PROVE WaitedFor'
  BY <1>2, OtherWaits DEF serverVars, connVars, history
<1>3. ASSUME NEW c \in Conns, AcceptFails(c) \/ PeerCloses(c) PROVE WaitedFor'
  BY <1>3, OtherWaits DEF AcceptFails, PeerCloses, mainVars, history
<1>4. ASSUME SetState \/ SetRemoveConnCb \/ Insert PROVE WaitedFor'
  <2>1. TypeOK /\ main.at # "construct" /\ main'.at # "construct"
    BY <1>4, MainGoes DEF ServerInv, SetState, SetRemoveConnCb, Insert
  <2>2. UNCHANGED <<fdVars, loopVars, fd, loop, hit>>
    BY <1>4 DEF SetState, SetRemoveConnCb, Insert, connVars, history
  <2>3. ASSUME NEW c \in Conns, state[c] = "Closed" PROVE state'[c] = "Closed"
    <3>1. CASE SetState
      <4>1. state[main.conn] = "NotConnected" /\ state' = [state EXCEPT ![main.conn] = "Connected"]
        BY <3>1 DEF SetState, MainAt, ServerInv, Accepting
      <4> QED
        BY <2>1, <2>3, <4>1 DEF TypeOK
    <3>2. CASE SetRemoveConnCb \/ Insert
      BY <2>3, <3>2 DEF SetRemoveConnCb, Insert, connVars
    <3> QED
      BY <1>4, <3>1, <3>2
  <2> QED
    BY <2>1, <2>2, <2>3, OtherWaits
<1>5. ASSUME NEW i \in Loops, NEW f \in Fds, ReadEnd(i, f) PROVE WaitedFor'
  <2>1. UNCHANGED <<main, fdVars, loopVars, fd, loop, hit>>
    BY <1>5 DEF ReadEnd, mainVars
  <2>2. \A c \in Conns : state[c] = "Closed" => state'[c] = "Closed"
    BY <1>5 DEF ReadEnd, ServerInv, TypeOK
  <2> QED
    BY <2>1, <2>2, OtherWaits
<1>6. ASSUME NEW i \in Loops, RemoveConnection(i) PROVE WaitedFor'
  BY <1>6, OtherWaits DEF RemoveConnection, IOAt, mainVars, connVars, history
<1>7. CASE MainStep
  BY <1>2, <1>4, <1>7, ConstructWaits DEF MainStep
<1>8. ASSUME NEW i \in Loops, IOStep(i) PROVE WaitedFor'
  BY <1>2, <1>5, <1>6, <1>8, RunAddWaits, ClosingWaits DEF IOStep, ThreadStep
<1> QED
  BY <1>1, <1>2, <1>3, <1>7, <1>8, AcceptWaits DEF Next, Start, EndMain

(* A connection the constructor has set up and that is still open has its   *)
(* registration posted or done, with EPOLLIN, whichever way its IO thread   *)
(* and the main thread interleave: except the ones whose mask another       *)
(* thread has zeroed.                                                       *)
THEOREM OpenServed == Spec => []Served
<1>1. ServerInv => TypeOK
  BY DEF ServerInv
<1> QED
  BY <1>1, ServerSpec, InitWaitedFor, NextWaits, WaitedForServed, PTL DEF Spec

-----------------------------------------------------------------------------
(* The count of connections. It may be short of the set's size by the       *)
(* connections taken down early whose removal is behind them.               *)

Finished == {c \in early : \A i \in Loops : io[i].conn # c}

Count ==
  /\ IsFiniteSet(m_connections)
  /\ IsFiniteSet(early)
  /\ m_client_counts <= Cardinality(m_connections)
  /\ Cardinality(m_connections) - m_client_counts <= Cardinality(Finished)

LEMMA CountFinite ==
  ASSUME Count, TypeOK
  PROVE  /\ IsFiniteSet(Finished) /\ Cardinality(Finished) \in Nat
         /\ Cardinality(m_connections) \in Nat /\ Cardinality(early) \in Nat
         /\ Cardinality(Finished) <= Cardinality(early) /\ m_client_counts \in Int
<1>1. Finished \subseteq early
  BY DEF Finished
<1> QED
  BY <1>1, FS_Subset, FS_CardinalityType DEF Count, TypeOK

(* The steps that neither insert nor remove anything.                       *)
LEMMA CountStays ==
  ASSUME Count, TypeOK, UNCHANGED setVars, IsFiniteSet(early'), Finished \subseteq Finished'
  PROVE  Count'
<1>1. Finished' \subseteq early'
  BY DEF Finished
<1>2. IsFiniteSet(Finished')
  BY <1>1, FS_Subset
<1>3. Cardinality(Finished) <= Cardinality(Finished')
  BY <1>2, FS_Subset
<1>4. Cardinality(Finished') \in Nat
  BY <1>2, FS_CardinalityType
<1> QED
  BY <1>3, <1>4, CountFinite DEF Count, setVars

LEMMA InitCount == Init => Count
<1> SUFFICES ASSUME Init PROVE Count
  OBVIOUS
<1>1. m_connections = {} /\ early = {} /\ m_client_counts = 0 /\ Finished = {}
  BY DEF Init, Finished
<1> QED
  BY <1>1, FS_EmptySet DEF Count

LEMMA InsertCount ==
  ASSUME ServerInv, Count, Insert
  PROVE  Count'
<1>1. /\ main.conn \notin m_connections /\ m_client_counts' = m_client_counts + 1
      /\ m_connections' = m_connections \cup {main.conn}
      /\ UNCHANGED <<io, early>>
  BY DEF Insert, MainAt, ServerInv, Accepting, history
<1>2. /\ IsFiniteSet(m_connections')
      /\ Cardinality(m_connections') = Cardinality(m_connections) + 1
  BY <1>1, FS_AddElement DEF Count
<1>3. Finished' = Finished
  BY <1>1 DEF Finished
<1>4. TypeOK
  BY DEF ServerInv
<1> QED
  BY <1>1, <1>2, <1>3, <1>4, CountFinite DEF Count

LEMMA ReadEndCount ==
  ASSUME ServerInv, Count, NEW i \in Loops, NEW f \in Fds, ReadEnd(i, f)
  PROVE  Count'
<1> DEFINE c == callback[f]
<1>1. /\ state[c] = "Connected" /\ io' = [io EXCEPT ![i] = [at |-> "delete", conn |-> c]]
      /\ early' = IF c \in m_connections THEN early ELSE early \cup {c}
      /\ UNCHANGED setVars
  BY DEF ReadEnd
<1>2. TypeOK /\ Lives
  BY DEF ServerInv
<1> HIDE DEF c
<1>3. IsFiniteSet(early')
  BY <1>1, FS_AddElement DEF Count
<1>4. ASSUME NEW d \in Finished PROVE d \in Finished'
  <2>1. d \in early /\ d \in early' /\ d # c
    BY <1>1, <1>2 DEF Finished, Lives
  <2>2. \A j \in Loops : io'[j].conn = IF j = i THEN c ELSE io[j].conn
    BY <1>1, <1>2 DEF TypeOK
  <2> QED
    BY <2>1, <2>2 DEF Finished
<1> QED
  BY <1>1, <1>2, <1>3, <1>4, CountStays

LEMMA RemoveConnectionCount ==
  ASSUME ServerInv, Count, NEW i \in Loops, RemoveConnection(i)
  PROVE  Count'
<1> DEFINE c == io[i].conn
<1>1. /\ IOAt(i, "remove", "idle")
      /\ IF c \in removeCb
         THEN m_connections' = m_connections \ {c} /\ m_client_counts' = m_client_counts - 1
         ELSE UNCHANGED setVars
      /\ UNCHANGED early
  BY DEF RemoveConnection, history
<1>2. TypeOK /\ Lives /\ \A j \in Loops : ClosingBy(j)
  BY DEF ServerInv, Closing
<1>3. /\ io[i].at = "remove" /\ io'[i] = Idle
      /\ \A j \in Loops : j # i => io'[j] = io[j]
  BY <1>1, <1>2, IOGoes
<1>4. c \in Conns /\ c \in m_connections \cup early /\ loop[c] = i
  BY <1>2, <1>3 DEF ClosingBy
<1>5. ASSUME NEW j \in Loops PROVE io'[j].conn # c
  <2>1. io'[j] = Idle \/ (io[j].at # "idle" /\ j # i /\ io'[j] = io[j])
    BY <1>2, <1>3 DEF ClosingBy
  <2>2. io[j].at # "idle" /\ j # i => io[j].conn # c
    BY <1>2, <1>4 DEF ClosingBy
  <2> QED
    BY <1>4, <2>1, <2>2, NumberTypes DEF Idle
<1> HIDE DEF c
<1>6. Finished \subseteq Finished' /\ c \notin Finished /\ (c \in early => c \in Finished')
  <2>1. ASSUME NEW d \in Finished PROVE d \in Finished'
    <3>1. d \in early' /\ d # NoConn
      BY <1>1, <1>2, NumberTypes DEF Finished, Lives
    <3> QED
      BY <1>3, <3>1 DEF Finished, Idle
  <2> QED
    BY <1>1, <1>5, <2>1 DEF Finished, c
<1>7. /\ IsFiniteSet(early') /\ IsFiniteSet(Finished) /\ IsFiniteSet(Finished')
      /\ Cardinality(Finished) \in Nat /\ Cardinality(Finished') \in Nat
      /\ Cardinality(Finished) <= Cardinality(Finished')
      /\ Cardinality(m_connections) \in Nat /\ m_client_counts \in Int
  <2>1. IsFiniteSet(early') /\ Finished' \subseteq early'
    BY <1>1 DEF Count, Finished
  <2>2. IsFiniteSet(Finished')
    BY <2>1, FS_Subset
  <2>3. Cardinality(Finished) <= Cardinality(Finished')
    BY <1>6, <2>2, FS_Subset
  <2> QED
    BY <1>2, <2>1, <2>2, <2>3, CountFinite, FS_CardinalityType
<1>8. CASE c \notin removeCb
  BY <1>1, <1>2, <1>6, <1>7, <1>8, CountStays
<1>9. CASE c \in removeCb /\ c \in m_connections
  <2>1. /\ IsFiniteSet(m_connections')
        /\ Cardinality(m_connections') = Cardinality(m_connections) - 1
    BY <1>1, <1>9, FS_RemoveElement DEF Count
  <2> QED
    BY <1>1, <1>7, <1>9, <2>1 DEF Count
<1>10. CASE c \in removeCb /\ c \notin m_connections
  <2>1. m_connections' = m_connections
    BY <1>1, <1>10
  <2>2. Finished \cup {c} \subseteq Finished'
    BY <1>4, <1>6, <1>10
  <2>3. Cardinality(Finished \cup {c}) = Cardinality(Finished) + 1
    BY <1>6, <1>7, FS_AddElement
  <2>4. Cardinality(Finished \cup {c}) <= Cardinality(Finished')
    BY <1>7, <2>2, FS_Subset
  <2> QED
    BY <1>1, <1>7, <1>10, <2>1, <2>3, <2>4 DEF Count
<1> QED
  BY <1>8, <1>9, <1>10

LEMMA NextCount == ServerInv /\ Count /\ [Next]_vars => Count'
<1> SUFFICES ASSUME ServerInv, Count, [Next]_vars PROVE Count'
  OBVIOUS
<1>1. TypeOK
  BY DEF ServerInv
<1>2. ASSUME UNCHANGED <<io, setVars, early>> PROVE Count'
  BY <1>2 DEF Count, Finished, setVars
<1>3. CASE UNCHANGED vars
  BY <1>2, <1>3 DEF vars, serverVars, history
<1>4. ASSUME UNCHANGED serverVars PROVE Count'
  BY <1>2, <1>4 DEF serverVars, history
<1>5. ASSUME NEW c \in Conns, Accept(c) \/ AcceptFails(c) \/ PeerCloses(c) PROVE Count'
  BY <1>2, <1>5 DEF Accept, AcceptFails, PeerCloses, history
<1>6. CASE MainStep
  BY <1>2, <1>4, <1>6, InsertCount
  DEF MainStep, Construct, SetState, SetRemoveConnCb, MainAt, history
<1>7. ASSUME NEW i \in Loops, DeleteEpollEvent(i) \/ CloseFd(i) \/ ZeroEvents(i) PROVE Count'
  <2>1. PICK point \in {"delete", "close", "zero"}, next \in {"close", "zero", "remove"} :
          IOAt(i, point, next)
    BY <1>7 DEF DeleteEpollEvent, CloseFd, ZeroEvents
  <2>2. \A j \in Loops : io'[j].conn = io[j].conn
    BY <1>1, <2>1, IOGoes
  <2>3. UNCHANGED <<setVars, early>>
    BY <1>7 DEF DeleteEpollEvent, CloseFd, ZeroEvents, history
  <2> QED
    BY <1>1, <2>2, <2>3, CountStays DEF Count, Finished
<1>8. ASSUME NEW i \in Loops, IOStep(i) PROVE Count'
  <2>1. ASSUME RunAdd(i) PROVE Count'
    BY <1>2, <2>1 DEF RunAdd, history
  <2> QED
    BY <1>4, <1>7, <1>8, <2>1, ReadEndCount, RemoveConnectionCount DEF IOStep, ThreadStep
<1> QED
  BY <1>3, <1>4, <1>5, <1>6, <1>8 DEF Next, Start, EndMain

(* The count and the set part only over connections taken down before       *)
(* onAccept had inserted them, and never by more than there are of these.   *)
THEOREM CountBounded == Spec => []CountAccounted
<1>1. ServerInv /\ Count => CountAccounted
  <2> SUFFICES ASSUME ServerInv, Count PROVE CountAccounted
    OBVIOUS
  <2>1. TypeOK
    BY DEF ServerInv
  <2> QED
    BY <2>1, CountFinite DEF Count, CountAccounted
<1> QED
  BY <1>1, ServerSpec, InitCount, NextCount, PTL DEF Spec
=============================================================================
