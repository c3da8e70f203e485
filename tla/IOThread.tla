----------------------------- MODULE IOThread ------------------------------
(* IOThread and IOThreadGroup (src/net/io_thread.cc, io_thread_group.cc):   *)
(* one thread makes, starts and destroys a group of threads, each with an   *)
(* EventLoop of its own, over two semaphores a thread and the loop's stop   *)
(* flag. What the loops do is TcpServer's.                                  *)
EXTENDS Integers

CONSTANT IOThreads  \* their number; a thread and its loop are named by an index

ASSUME IOThreadsAssumption == IOThreads \in Nat \ {0}

VARIABLES
  group,             \* [at, i]: where the owner of the group is, at which thread
  thread,            \* where each thread is in IOThread::Main
  m_event_loop,      \* the threads whose m_event_loop is set
  m_init_semaphore,
  m_start_semaphore,
  m_stop_flag,       \* the threads whose loop has been stopped
  destroyed,         \* the threads whose two semaphores have been destroyed
  started            \* history: start() has been called

threadVars == <<group, thread, m_event_loop, m_init_semaphore, m_start_semaphore,
                m_stop_flag, destroyed, started>>

Loops == 0..IOThreads - 1

InitThreads ==
  /\ group = [at |-> "create", i |-> 0]
  /\ thread = [i \in Loops |-> "none"]
  /\ m_event_loop = {}
  /\ m_init_semaphore = [i \in Loops |-> 0]
  /\ m_start_semaphore = [i \in Loops |-> 0]
  /\ m_stop_flag = {}
  /\ destroyed = {}
  /\ started = FALSE

-----------------------------------------------------------------------------
(* The owner.                                                               *)

GroupAt(point) == group.at = point
GroupGoes(point) == group' = [group EXCEPT !.at = point]

(* On to the same point of the next thread, or past the last one.           *)
NextThread(point, past) ==
  group' = IF group.i + 1 \in Loops THEN [at |-> point, i |-> group.i + 1]
           ELSE [at |-> past, i |-> 0]

(* The constructor starts the thread ...                                    *)
Create ==
  /\ GroupAt("create")
  /\ thread' = [thread EXCEPT ![group.i] = "begun"]
  /\ GroupGoes("init")
  /\ UNCHANGED <<m_event_loop, m_init_semaphore, m_start_semaphore, m_stop_flag, destroyed, started>>

(* Mutant: the constructor does not wait.                                   *)
DoNotWaitInit ==
  /\ GroupAt("init")
  /\ NextThread("create", "made")
  /\ UNCHANGED <<thread, m_event_loop, m_init_semaphore, m_start_semaphore, m_stop_flag, destroyed, started>>

(* ... and waits until it has its loop.                                     *)
WaitInit ==
  /\ GroupAt("init")
  /\ m_init_semaphore[group.i] > 0
  /\ m_init_semaphore' = [m_init_semaphore EXCEPT ![group.i] = @ - 1]
  /\ NextThread("create", "made")
  /\ UNCHANGED <<thread, m_event_loop, m_start_semaphore, m_stop_flag, destroyed, started>>

(* TcpServer::start.                                                        *)
StartGroup ==
  /\ GroupAt("made")
  /\ GroupGoes("start")
  /\ started' = TRUE
  /\ UNCHANGED <<thread, m_event_loop, m_init_semaphore, m_start_semaphore, m_stop_flag, destroyed>>

StartThread ==
  /\ GroupAt("start")
  /\ m_start_semaphore' = [m_start_semaphore EXCEPT ![group.i] = @ + 1]
  /\ NextThread("start", "running")
  /\ UNCHANGED <<thread, m_event_loop, m_init_semaphore, m_stop_flag, destroyed, started>>

(* The destructor, of a group that was started or of one that was not.      *)
Destroy ==
  /\ group.at \in {"made", "running"}
  /\ GroupGoes("stop")
  /\ UNCHANGED <<thread, m_event_loop, m_init_semaphore, m_start_semaphore, m_stop_flag, destroyed, started>>

(* Mutant: the threads are joined without being told to stop.               *)
StopNothing ==
  /\ GroupAt("stop")
  /\ GroupGoes("join")
  /\ UNCHANGED <<thread, m_event_loop, m_init_semaphore, m_start_semaphore, m_stop_flag, destroyed, started>>

(* The loop is told to stop and both semaphores go, whether or not the      *)
(* thread has got past the second, before the thread is joined.             *)
StopThread ==
  /\ GroupAt("stop")
  /\ m_stop_flag' = m_stop_flag \cup {group.i}
  /\ destroyed' = destroyed \cup {group.i}
  /\ GroupGoes("join")
  /\ UNCHANGED <<thread, m_event_loop, m_init_semaphore, m_start_semaphore, started>>

(* The loop is deleted when the thread is gone.                             *)
JoinThread ==
  /\ GroupAt("join")
  /\ thread[group.i] = "exited"
  /\ m_event_loop' = m_event_loop \ {group.i}
  /\ NextThread("stop", "gone")
  /\ UNCHANGED <<thread, m_init_semaphore, m_start_semaphore, m_stop_flag, destroyed, started>>

GroupStep == Create \/ WaitInit \/ StartThread \/ StopThread \/ JoinThread

-----------------------------------------------------------------------------
(* A thread: Main.                                                          *)

Proceed(i, from, to) == thread[i] = from /\ thread' = [thread EXCEPT ![i] = to]

MakeLoop(i) ==
  /\ Proceed(i, "begun", "made")
  /\ m_event_loop' = m_event_loop \cup {i}
  /\ UNCHANGED <<group, m_init_semaphore, m_start_semaphore, m_stop_flag, destroyed, started>>

PostInit(i) ==
  /\ Proceed(i, "made", "waiting")
  /\ m_init_semaphore' = [m_init_semaphore EXCEPT ![i] = @ + 1]
  /\ UNCHANGED <<group, m_event_loop, m_start_semaphore, m_stop_flag, destroyed, started>>

WaitStart(i) ==
  /\ Proceed(i, "waiting", "looping")
  /\ i \notin destroyed
  /\ m_start_semaphore[i] > 0
  /\ m_start_semaphore' = [m_start_semaphore EXCEPT ![i] = @ - 1]
  /\ UNCHANGED <<group, m_event_loop, m_init_semaphore, m_stop_flag, destroyed, started>>

(* To wait on a destroyed semaphore is undefined: sem_wait returns, posted  *)
(* or not, or it never does.                                                *)
WaitDestroyed(i) ==
  /\ i \in destroyed
  /\ Proceed(i, "waiting", "looping") \/ Proceed(i, "waiting", "stuck")
  /\ UNCHANGED <<group, m_event_loop, m_init_semaphore, m_start_semaphore, m_stop_flag, destroyed,
                 started>>

(* loop() returns between two turns.                                        *)
LeaveLoop(i) ==
  /\ Proceed(i, "looping", "exited")
  /\ i \in m_stop_flag
  /\ UNCHANGED <<group, m_event_loop, m_init_semaphore, m_start_semaphore, m_stop_flag, destroyed, started>>

ThreadTypeOK ==
  /\ group \in [at : {"create", "init", "made", "start", "running", "stop", "join", "gone"},
                i : Loops]
  /\ thread \in [Loops -> {"none", "begun", "made", "waiting", "looping", "stuck", "exited"}]
  /\ m_event_loop \subseteq Loops
  /\ m_init_semaphore \in [Loops -> 0..1]
  /\ m_start_semaphore \in [Loops -> 0..1]
  /\ m_stop_flag \subseteq Loops
  /\ destroyed \subseteq Loops
  /\ started \in BOOLEAN
=============================================================================
