----------------------------- MODULE TcpServer -----------------------------
(* The server's connections (src/net/tcp/tcp_server.cc, the server side of  *)
(* tcp_connection.cc): the main thread accepts a connection, hands it to an *)
(* IO thread and only then finishes setting it up, while that IO thread may *)
(* already find the peer gone and take it down. Both share the FdEvent of   *)
(* the descriptor number (FdEventGroup), which the kernel gives out again   *)
(* as soon as it is closed. The server makes its IO threads, starts them    *)
(* with its own loop, and destroys them when that loop has ended.           *)
EXTENDS IOThread, Sequences, FiniteSets

CONSTANTS Conns,     \* TcpConnection objects, each accepted once
          Fds,       \* descriptor numbers
          ListenFd,  \* the one the acceptor's socket has got
          GroupSize  \* FdEvents the group starts with: 128

ASSUME FdsAssumption == Fds \subseteq Nat /\ ListenFd \in Fds
ASSUME GroupSizeAssumption == GroupSize \in Nat \ {0, 1}

VARIABLES
  main,             \* [at, conn]: where the main thread is in onAccept
  io,               \* [at, conn] of each IO thread in onRead's closing path
  m_index,          \* IOThreadGroup: whose turn it is
  tasks,            \* each loop's posted registrations, oldest first
  watched,          \* each loop's descriptors registered with epoll
  interest,         \* those registered with EPOLLIN
  m_fd_event_group, \* FdEventGroup: its size, an FdEvent for each lower number
  owner,            \* what each descriptor number denotes: a connection, the
                    \* acceptor's socket or nothing
  events,           \* FdEvents whose m_listen_events has EPOLLIN
  callback,         \* the connection each FdEvent's read callback is bound to
  fd, loop,         \* a connection's descriptor and loop
  state,            \* TcpState
  removeCb,         \* connections whose m_remove_conn_cb is set
  m_connections,
  m_client_counts,
  gone,             \* connections whose peer has closed
  early,            \* history: taken down before onAccept inserted them
  hit               \* history: FdEvent zeroed by the descriptor's last user

mainVars  == <<main, m_index, threadVars>>
fdVars    == <<m_fd_event_group, owner, events, callback>>
loopVars  == <<tasks, watched, interest>>
connVars  == <<fd, loop, state, removeCb, gone>>
setVars   == <<m_connections, m_client_counts>>
history   == <<early, hit>>
serverVars == <<main, m_index, io, fdVars, loopVars, connVars, setVars, history>>
vars      == <<serverVars, threadVars>>

NoConn == "none"
NoFd   == -1

(* The acceptor's socket, bound and listening before the server starts.     *)
Listener == "listener"

ASSUME ConnsAssumption == NoConn \notin Conns /\ Listener \notin Conns

Idle   == [at |-> "idle", conn |-> NoConn]

(* getFdEvent: a number past the end makes the group one and a half times   *)
(* as large as the number.                                                  *)
Grown(size, f) == IF f >= size THEN (3 * f) \div 2 ELSE size

Init ==
  /\ InitThreads
  /\ main = Idle
  /\ io = [i \in Loops |-> Idle]
  /\ m_index = 0
  /\ tasks = [i \in Loops |-> <<>>]
  /\ watched = [i \in Loops |-> {}]
  /\ interest = [i \in Loops |-> {}]
  /\ m_fd_event_group = Grown(GroupSize, ListenFd)
  /\ owner = [f \in Fds |-> IF f = ListenFd THEN Listener ELSE NoConn]
  /\ events = {}
  /\ callback = [f \in Fds |-> NoConn]
  /\ fd = [c \in Conns |-> NoFd]
  /\ loop = [c \in Conns |-> 0]
  /\ state = [c \in Conns |-> "NotConnected"]
  /\ removeCb = {}
  /\ m_connections = {}
  /\ m_client_counts = 0
  /\ gone = {}
  /\ early = {}
  /\ hit = {}

-----------------------------------------------------------------------------
(* The main thread: onAccept.                                               *)

(* Mutant: getIOThread's index is not wrapped.                              *)
IndexUnwrapped == m_index + 1

(* getIOThread takes turns.                                                 *)
NextIndex == (m_index + 1) % IOThreads

(* In the main loop; accept() returns the lowest free descriptor.           *)
Accept(c) ==
  /\ GroupAt("running")
  /\ main = Idle
  /\ fd[c] = NoFd
  /\ c \notin gone
  /\ \E f \in Fds :
       /\ owner[f] = NoConn
       /\ \A g \in Fds : g < f => owner[g] # NoConn
       /\ owner' = [owner EXCEPT ![f] = c]
       /\ fd' = [fd EXCEPT ![c] = f]
  /\ loop' = [loop EXCEPT ![c] = m_index]
  /\ m_index' = NextIndex
  /\ main' = [at |-> "construct", conn |-> c]
  /\ UNCHANGED <<io, threadVars, m_fd_event_group, events, callback, loopVars, state, removeCb,
                 gone, setVars, history>>

(* accept() fails, the peer having given up: nobody's turn is taken.        *)
AcceptFails(c) ==
  /\ GroupAt("running")
  /\ main = Idle
  /\ fd[c] = NoFd
  /\ c \notin gone
  /\ gone' = gone \cup {c}
  /\ UNCHANGED <<mainVars, io, fdVars, loopVars, fd, loop, state, removeCb, setVars, history>>

MainAt(point, next) ==
  /\ main.at = point
  /\ main' = IF next = "idle" THEN Idle ELSE [main EXCEPT !.at = next]
  /\ UNCHANGED <<m_index, io, threadVars>>

(* Mutant: the registration is posted with nothing listened for.            *)
ConstructWithoutListen ==
  LET c == main.conn IN
  /\ MainAt("construct", "setState")
  /\ callback' = [callback EXCEPT ![fd[c]] = c]
  /\ tasks' = [tasks EXCEPT ![loop[c]] = Append(@, fd[c])]
  /\ UNCHANGED <<m_fd_event_group, owner, events, watched, interest, connVars, setVars, history>>

(* The constructor: the number's FdEvent; listenReadEvent sets mask and     *)
(* callback and posts the registration to the IO thread.                    *)
Construct ==
  LET c == main.conn IN
  /\ MainAt("construct", "setState")
  /\ m_fd_event_group' = Grown(m_fd_event_group, fd[c])
  /\ events' = events \cup {fd[c]}
  /\ callback' = [callback EXCEPT ![fd[c]] = c]
  /\ tasks' = [tasks EXCEPT ![loop[c]] = Append(@, fd[c])]
  /\ UNCHANGED <<owner, watched, interest, connVars, setVars, history>>

SetState ==
  /\ MainAt("setState", "setRemoveCb")
  /\ state' = [state EXCEPT ![main.conn] = "Connected"]
  /\ UNCHANGED <<fdVars, loopVars, fd, loop, removeCb, gone, setVars, history>>

SetRemoveConnCb ==
  /\ MainAt("setRemoveCb", "insert")
  /\ removeCb' = removeCb \cup {main.conn}
  /\ UNCHANGED <<fdVars, loopVars, fd, loop, state, gone, setVars, history>>

Insert ==
  /\ MainAt("insert", "idle")
  /\ m_client_counts' = m_client_counts + 1
  /\ m_connections' = m_connections \cup {main.conn}
  /\ UNCHANGED <<fdVars, loopVars, connVars, history>>

-----------------------------------------------------------------------------
(* An IO thread.                                                            *)

(* The posted addEpollEvent, with the mask the FdEvent has by now.          *)
Ready(i) == thread[i] = "looping" /\ io[i] = Idle

RunAdd(i) ==
  /\ Ready(i)
  /\ tasks[i] # <<>>
  /\ LET f == Head(tasks[i]) IN
     /\ watched' = [watched EXCEPT ![i] = @ \cup {f}]
     /\ interest' = [interest EXCEPT ![i] = IF f \in events THEN @ \cup {f} ELSE @ \ {f}]
  /\ tasks' = [tasks EXCEPT ![i] = Tail(@)]
  /\ UNCHANGED <<mainVars, io, fdVars, connVars, setVars, history>>

IOAt(i, point, next) ==
  /\ io[i].at = point
  /\ io' = [io EXCEPT ![i] = IF next = "idle" THEN Idle ELSE [@ EXCEPT !.at = next]]
  /\ UNCHANGED mainVars

(* onRead, reading the end of the stream. Before setState it returns at     *)
(* once, and is called again as long as the descriptor stays readable.      *)
ReadEnd(i, f) ==
  LET c == callback[f] IN
  /\ Ready(i)
  /\ f \in interest[i]
  /\ owner[f] \in gone
  /\ state[c] = "Connected"
  /\ state' = [state EXCEPT ![c] = "Closed"]
  /\ io' = [io EXCEPT ![i] = [at |-> "delete", conn |-> c]]
  /\ early' = IF c \in m_connections THEN early ELSE early \cup {c}
  /\ UNCHANGED <<mainVars, fdVars, loopVars, fd, loop, removeCb, gone, setVars, hit>>

(* Mutant: the descriptor is closed and left in m_listen_fds.               *)
DeleteNothing(i) ==
  /\ IOAt(i, "delete", "close")
  /\ UNCHANGED <<loopVars, fdVars, connVars, setVars, history>>

DeleteEpollEvent(i) ==
  /\ IOAt(i, "delete", "close")
  /\ watched' = [watched EXCEPT ![i] = @ \ {fd[io[i].conn]}]
  /\ interest' = [interest EXCEPT ![i] = @ \ {fd[io[i].conn]}]
  /\ UNCHANGED <<tasks, fdVars, connVars, setVars, history>>

(* FdEvent::close is two steps: ::close, which frees the number, and the    *)
(* zeroing of m_listen_events.                                              *)
CloseFd(i) ==
  /\ IOAt(i, "close", "zero")
  /\ owner' = [owner EXCEPT ![fd[io[i].conn]] = NoConn]
  /\ UNCHANGED <<m_fd_event_group, events, callback, loopVars, connVars, setVars, history>>

ZeroEvents(i) ==
  LET f == fd[io[i].conn] IN
  /\ IOAt(i, "zero", "remove")
  /\ events' = events \ {f}
  /\ hit' = IF owner[f] = NoConn THEN hit ELSE hit \cup {owner[f]}
  /\ UNCHANGED <<m_fd_event_group, owner, callback, loopVars, connVars, setVars, early>>

(* Mutant: the set is not touched.                                          *)
RemoveWithoutErase(i) ==
  /\ IOAt(i, "remove", "idle")
  /\ m_client_counts' = m_client_counts - 1
  /\ UNCHANGED <<m_connections, fdVars, loopVars, connVars, history>>

(* if (m_remove_conn_cb) removeConnection: the count goes down whether or   *)
(* not the set had the connection.                                          *)
RemoveConnection(i) ==
  /\ IOAt(i, "remove", "idle")
  /\ IF io[i].conn \in removeCb
     THEN /\ m_connections' = m_connections \ {io[i].conn}
          /\ m_client_counts' = m_client_counts - 1
     ELSE UNCHANGED setVars
  /\ UNCHANGED <<fdVars, loopVars, connVars, history>>

-----------------------------------------------------------------------------
PeerCloses(c) ==
  /\ fd[c] # NoFd
  /\ c \notin gone
  /\ gone' = gone \cup {c}
  /\ UNCHANGED <<mainVars, io, fdVars, loopVars, fd, loop, state, removeCb, setVars, history>>

(* The group's life. The main loop has ended, or was never run, when the    *)
(* server is destroyed.                                                     *)
Start   == StartGroup /\ UNCHANGED serverVars
EndMain == main = Idle /\ Destroy /\ UNCHANGED serverVars

MainStep ==
  \/ Construct \/ SetState \/ SetRemoveConnCb \/ Insert
  \/ GroupStep /\ UNCHANGED serverVars

ThreadStep(i) ==
  /\ \/ MakeLoop(i) \/ PostInit(i) \/ WaitStart(i) \/ WaitDestroyed(i)
     \/ io[i] = Idle /\ LeaveLoop(i)
  /\ UNCHANGED serverVars

IOStep(i) ==
  \/ ThreadStep(i) \/ RunAdd(i)
  \/ \E f \in Fds : ReadEnd(i, f)
  \/ DeleteEpollEvent(i) \/ CloseFd(i) \/ ZeroEvents(i) \/ RemoveConnection(i)

Next ==
  \/ \E c \in Conns : Accept(c) \/ AcceptFails(c) \/ PeerCloses(c)
  \/ Start \/ EndMain \/ MainStep
  \/ \E i \in Loops : IOStep(i)

Spec == Init /\ [][Next]_vars

(* The server's threads run; no client has to connect or to leave, and      *)
(* nobody to start or to destroy the server.                                *)
Fairness == WF_vars(MainStep) /\ \A i \in Loops : WF_vars(IOStep(i))

FairSpec == Spec /\ Fairness

-----------------------------------------------------------------------------
(* Properties.                                                              *)

(* The types of the server's state.                                         *)
TypeOK ==
  /\ ThreadTypeOK
  /\ main \in [at : {"idle", "construct", "setState", "setRemoveCb", "insert"},
               conn : Conns \cup {NoConn}]
  /\ io \in [Loops -> [at : {"idle", "delete", "close", "zero", "remove"},
                       conn : Conns \cup {NoConn}]]
  /\ m_index \in Loops
  /\ tasks \in [Loops -> Seq(Fds)]
  /\ watched \in [Loops -> SUBSET Fds]
  /\ interest \in [Loops -> SUBSET Fds]
  /\ m_fd_event_group \in Nat
  /\ owner \in [Fds -> Conns \cup {Listener, NoConn}]
  /\ events \subseteq Fds
  /\ callback \in [Fds -> Conns \cup {NoConn}]
  /\ fd \in [Conns -> Fds \cup {NoFd}]
  /\ loop \in [Conns -> Loops]
  /\ state \in [Conns -> {"NotConnected", "Connected", "Closed"}]
  /\ removeCb \subseteq Conns
  /\ m_connections \subseteq Conns
  /\ m_client_counts \in Int
  /\ gone \subseteq Conns

(* A descriptor an IO thread has registered belongs to a connection of that *)
(* thread, has an FdEvent, and its callback is that connection's, although  *)
(* the number and the FdEvent pass from one connection to the next while    *)
(* several threads use them. So no callback reads or closes another         *)
(* connection's socket, or the acceptor's.                                  *)
OwnDescriptors ==
  \A i \in Loops :
    /\ \A f \in watched[i] : /\ f < m_fd_event_group
                             /\ owner[f] \in Conns
                             /\ callback[f] = owner[f]
                             /\ loop[owner[f]] = i
    /\ io[i].at \in {"delete", "close"} => owner[fd[io[i].conn]] = io[i].conn

(* A connection past its constructor and still open is waited for: its      *)
(* registration is posted or done, with EPOLLIN. The exception is the one   *)
(* whose mask another thread has zeroed, still closing the last user of the *)
(* same number.                                                             *)
Served ==
  \A c \in Conns \ hit :
    fd[c] # NoFd /\ owner[fd[c]] = c /\ main # [at |-> "construct", conn |-> c]
      /\ state[c] # "Closed"
    => /\ fd[c] \in events
       /\ \/ fd[c] \in interest[loop[c]]
          \/ \E k \in 1..Len(tasks[loop[c]]) : tasks[loop[c]][k] = fd[c]

(* The count never exceeds the set, and differs from it only by connections *)
(* taken down before onAccept was through with them.                        *)
CountAccounted ==
  /\ m_client_counts <= Cardinality(m_connections)
  /\ Cardinality(m_connections) - m_client_counts <= Cardinality(early)

(* A peer's close is noticed and its connection forgotten, unless the       *)
(* server is destroyed.                                                     *)
GoneForgotten ==
  \A c \in Conns : c \in gone /\ c \in m_connections
                     ~> \/ c \notin m_connections \/ c \in early \cup hit
                        \/ group.at \in {"stop", "join", "gone"}

(* A loop is posted to, run or stopped only between the moment its thread   *)
(* has made it and its deletion.                                            *)
LoopAlive ==
  \A i \in Loops :
    \/ GroupAt("join") /\ group.i = i
    \/ thread[i] = "looping"
    \/ main.at = "construct" /\ loop[main.conn] = i
    => i \in m_event_loop

(* io_thread.cc:10: the destructor stops the loop and waits for the thread. *)
(* That of a server that was started returns, whether its threads are in a  *)
(* callback, have yet to enter the loop that is already stopped, or have    *)
(* left it, unless a thread is still before its start semaphore when the    *)
(* destructor destroys it.                                                  *)
DestructorReturns ==
  GroupAt("stop") /\ started
    ~> GroupAt("gone") \/ (\E i \in destroyed : thread[i] = "waiting")

(* tcp_connection.h: setRemoveConnCb gives the callback run when the        *)
(* connection closes. With onAccept and onRead both finished, a closed      *)
(* connection is not among m_connections.                                   *)
ClosedForgotten ==
  \A c \in Conns : state[c] = "Closed" /\ main = Idle /\ (\A i \in Loops : io[i] = Idle)
                     => c \notin m_connections
=============================================================================
