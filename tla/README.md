# rapidrpc: formal models

TLA+ models of rapidrpc, an RPC framework in C++: one epoll reactor per thread,
timers on a timerfd, a TCP server that spreads connections over IO threads, a
client whose calls run the reactor of the calling thread, and a length-prefixed
protocol on top. The models are checked with TLC on small instances; every
safety property of theirs, and each refinement, is also proved with TLAPS for
every value of the constants.

Run in this directory: `tlc -config <run>.cfg <MC module>` and
`tlapm <...Proofs>.tla`. The runs, the lines each definition models and the
hazards each property is for are in `PROJECT.json`.

## 1. The system

| Component | State | Operations | Interacts with |
|---|---|---|---|
| EventLoop, WakeupFdEvent (`net/eventloop.cc`, `wakeup_fd_event.cc`) | `m_pending_tasks` under a mutex, `m_listen_fds`, stop and looping flags, the eventfd's counter | `loop`, `addTask`, `addEpollEvent`, `deleteEpollEvent`, `stop`, `wakeup` | called by every other component, from its own thread and from others |
| FdEvent, FdEventGroup (`fd_event.cc`, `fd_event_group.cc`) | event mask and callbacks of a descriptor number; a table of them shared by all threads | `listen`, `clearEvent`, `close`, `handler` | written by connections, read by the loop |
| Timer, TimerEvent (`timer.cc`, `timer_event.cc`) | multimap of pending events, the timerfd, canceled flag and task of each event | `addTimerEvent`, `deleteTimerEvent`, `onTimer`, `resetTimer`, `setCanceled` | its callback is a read callback of the loop |
| TcpServer (`tcp_server.cc`) | `m_connections`, `m_client_counts` | `onAccept`, `removeConnection` | main loop; IO threads call back into it |
| IOThread, IOThreadGroup (`io_thread.cc`, `io_thread_group.cc`) | a thread with its loop and two semaphores; the index of the next one | constructor, `start`, destructor, `getIOThread` | TcpServer |
| TcpConnection (`tcp_connection.cc`) | state, input and output buffer, waiting messages, read callbacks | `onRead`, `execute`, `onWrite`, listen/add operations | FdEvent, loop, coder, dispatcher |
| TcpBuffer (`tcp_buffer.cc`) | bytes between a read and a write index | write, read, move either index, shift, resize | TcpConnection, TinyPBCoder |
| TinyPBCoder (`coder/tinypb_coder.cc`) | none | `encode`, `decode` | TcpBuffer |
| TcpClient (`tcp_client.cc`) | socket, one TcpConnection, the thread's loop | `connect`, `writeMessage`, `readMessage`, `close` | loop, timer |
| RpcChannel, RpcController, RpcClosure (`rpc/`) | the call's timeout, error, canceled flag | `CallMethod` and its callbacks | TcpClient, Timer |
| Dispatcher (`rpc/dispatcher.cc`) | table of services | `registerService`, `dispatch` | TcpConnection |
| MsgIdUtil (`common/msg_id_util.cc`) | a counter per thread, 20 decimal digits | `GenMsgId` | RpcChannel |
| TcpAcceptor (`tcp/tcp_acceptor.cc`) | the listening socket | constructor, `accept` | TcpServer |
| Logger, AsyncLogger (`common/log.cc`) | buffers, two AsyncLoggers, each a queue of batches, a writer thread and its file | `pushLog`, `pushAppLog`, `syncLogs`, `flushAndStop`; `pushLogs`, `loop`, `stop` | a timer event, every component |
| Config, Runtime, util, NetAddr | constants; labels for log lines; none | | |

What is hard here:

- **Two halves of every event.** `loop()` turns what epoll reports into closures
  in `m_pending_tasks` and runs them in its next turn. Between the two the world
  moves on: a callback of the same batch may close what a later one uses, other
  threads post in between, `stop()` is heard only at the top of the loop.
- **State that two threads change without a lock**: the FdEvent of a descriptor
  number, a connection that is registered before `onAccept` has finished it, the
  timerfd, set after the mutex has been released.
- **Calls that end in several ways** (answer, timeout, failed connect, closed
  peer), possibly two of them in one batch, with descriptors that are closed
  twice and controllers that are used twice.
- **Names that must agree across two processes**: the id a call waits under, the
  id its answer carries, the method's name as the client spells it and as the
  server cuts it.
- **Work handed from thread to thread** (log lines over two buffers to a writer
  that sleeps, and must not leave before its queue is empty).
- **A byte stream cut at arbitrary places**, buffers that shift, grow or refuse,
  ends that hang up in the middle of a message.

What makes each component correct is stated as the properties below.

## 2. Modules

| Module | Models | How state and actions correspond |
|---|---|---|
| `TaskQueue` | what `addTask` promises: a FIFO of closures, closed when the loop ends | abstract |
| `EventLoop` | one reactor and the threads that use it, and the clients its tasks and callbacks may close | the variables are the members, `pc` is the place in `loop()`; one action per stage of it (`CheckStop`, `SwapTasks`, one action per kind of closure, three outcomes of `epoll_wait`, `DeliverEvent`), and `AddTask`, `RemoteAdd`, `RemoteDelete`, `Stop`, `Wakeup` for the threads. Push and eventfd write are two steps, as in the code. `ClientClose` is `TcpClient::close`, which closes a descriptor without telling the loop; `clientClosed` remembers it |
| `Timer` | the timer and the loop thread inside `onTimer` | each call is split where it takes and releases `m_mutex`; `call[p]` says where thread p is inside the Timer; time is relative |
| `MsgId` | `GenMsgId` | an operator from `t_msg_id_no` to what a call may return and leave |
| `TinyPB` | TinyPBProtocol, `encodeMessage`, the fields of a message in `decode` | operators; an encoded message is a sequence of cells, an `int32_t` being one of them; the bounds are checked as the code checks them |
| `Dispatcher` | `registerService`, `parseServiceAndMethod`, `dispatch` | an operator from request to response over the constant `Registered` |
| `RpcCall` | a client thread making calls; extends the three above | one action per callback; `batch` is the set of closures of the last `epoll_wait`, run in any order; `rpc[c].replies` is what comes back for the request, through encode, decode and dispatch; `client[c].fd` is the call's own, free, or given to another thread |
| `TcpServer` | accept against tear-down over two IO threads | `onAccept` is split at each write to shared state, the closing part of `onRead` likewise; FdEvents are shared by descriptor number, in a table that grows; the lowest numbers belong to the listening socket and then to connections, as the kernel hands them out |
| `IOThread` | `IOThread` and `IOThreadGroup`: the owner and its threads over two semaphores and the stop flag | `group` is where the owner is and at which thread, `thread[i]` where thread i is in `Main`; `StopThread` destroys the semaphores, and `WaitDestroyed` is the wait of a thread that comes too late, with any outcome; extended by `TcpServer`, whose actions run between start and stop |
| `TcpBuffer` | every operation of TcpBuffer, as operators | a buffer is `[size, read, bytes, vec]`; moving the bytes to the front only resets `read` |
| `MessageChannel` | what a connection promises: messages arrive whole, in order and at most once; some may be lost by a channel that is lossy, and the last of those under way when it closes | abstract |
| `TcpStream` | both ends of a connection: `onRead`, `decode`, `encode`, `onWrite` | one action per `read()`, `write()`, decoded or encoded message, and `Misread` for what decode drops once bytes were refused; `n` is chosen for each system call; `conn[e]` is what the socket will tell the end e: nothing special (`up`), the end of the stream (`eof`), an error (`reset`), or, after that, `SIGPIPE` for writes (`spent`) |
| `AsyncLog` | the Logger's buffers, the main thread in `syncLogs` and `flushAndStop`, the two writers | a step per critical section and system call; `m_log_type` is chosen at the start; a line is its number; `date`, the static buffer of `loop`, is one variable for both writers, and a read of it while the other formats may give the old value, the new one or a mixture |
| `MC...` | instances for TLC | |
| `EventLoopProofs`, `EventLoopFdProofs`, `TimerProofs`, `TcpServerProofs`, `TcpStreamProofs`, `AsyncLogProofs`, `DispatcherProofs`, `RpcCallProofs` | theorems | section 5 |

The components meet at narrow places, and each module carries the part of its
neighbours that it needs: `EventLoop` has callbacks that do to the loop what
`TcpConnection`'s do; `RpcCall` has the loop's batches; `TcpServer` has the
loops' posted registrations; `TcpStream` has the two loops as fairness. What
`RpcCall` takes of a connection, that what arrives does so whole and in order, is
what `TcpStream` shows. Library and kernel (epoll's choice of what to report, the
clock, the peer) are nondeterministic environment actions, marked external in
the map.

## 3. Runs

| Run | Instance | Shows |
|---|---|---|
| `eventloop` | 2 threads, 1 job, 2 descriptors, 2 results per `epoll_wait`, 2 registrations | `WakeReadable`, `NoStaleHandler`, `InterestMatches`; `ImplementsQueue`: the batch and the pending tasks together refine `TaskQueue`; `PostedRuns`, `StopReturns` |
| `eventloop_wakeup` | 1 thread, 2 jobs | *violation* of `WokenAtOnce` (finding 1) |
| `timer` | 2 other threads, 3 events (one repeating, two due at once) | `NeverAsleep`, `NothingLost`, `PendingRuns`, `OnTimerReturns` |
| `timer_arm` | 1 other thread, 3 events with three intervals | *violation* of `ArmedForFirst` (finding 2) |
| `rpc_call` | 2 calls in one thread, 2 controllers, 5 kinds of request to 3 services, ids of 2 binary digits | `OnceIfConnected`, `AnswerFinal`, `AnsweredRight`, `AnswerFound`, `IdsSuccessive`, `TouchesOwn`, `ReturnsDone`, `LoopReturns` |
| `rpc_done_once` | the same | *violation* of `DoneOnce` (finding 3) |
| `tcp_server` | 3 connections on the descriptors 6 and 7, 5 listening, a table of 7 FdEvents, 2 IO threads | `OwnDescriptors`, `Served`, `CountAccounted`, `GoneForgotten`; of the IO threads' life `LoopAlive`, `DestructorReturns` |
| `tcp_server_forgotten` | 2 connections | *violation* of `ClosedForgotten` (finding 4) |
| `tcp_stream` | 3 requests of lengths 2 and 4, answers of 2 to 4, two of them without an id of their own, 2 at a time, buffers of 6, a socket of 3 bytes, either end hanging up at any time | `ReadHasRoom`, `RefusesOnlyLarge`, `RequestsInOrder` and `AnswersInOrder` (each direction refines `MessageChannel`), `RequestAnswered` |
| `tcp_stream_refused` | the same | *violation* of `NothingRefused` (finding 5) |
| `async_log` | both types of Logger; 3 lines of the rpc log, 1 of the app log, 2 days, a new file after each line | `LogInOrder` (each log refines `TaskQueue`), `StopDrains`, `StopReturns`, `LineWritten`, `Rolls` |
| `async_log_date` | the same | *violation* of `DatedRight` (finding 6) |

Each passing run also checks the module's one type invariant.

### Bounds, and why they are enough

- `eventloop`: the races are between the loop and a poster, or between two
  posters and the eventfd; two threads give both. Two descriptors and two results
  give batches in which one descriptor's callback follows another's. `MaxOpens`
  is 2: both descriptors are in use, or one is closed and handed over again.
- `timer`: three events suffice for "comes back" and for two calls that are under
  way while `onTimer` has a third event; the two other threads give every
  interleaving of two unlocked halves with each other and with the loop's. In
  `timer_arm` "earlier than the first" and "due now" are apart. Times at or below zero are one value, `Overdue`: `onTimer` treats them
  alike. `Grace` is the code's 100 ms in units of the model.
- `rpc_call`: the second call exists to see what the first leaves behind (a
  pending timeout, a loop that has been stopped, a used or canceled controller, a
  counter); the first has one controller, the second that one or a fresh one. All
  batches of ready events are tried. The requests are one for each way through
  `dispatch` and the client's reading of its answer: a result, one the client
  cannot parse, no such method, a service in a package, an empty result; one
  service has been registered twice. With two digits of base 2 (the code has
  twenty of base 10) and draws 01 and 11, one count carries and one starts anew.
- `tcp_server`: the third connection reuses a descriptor number whose last user is
  still closing. Two IO threads make old and new user run in different loops. The
  number 7 is the first past the end of the table, so that it grows.
- `tcp_stream`: messages of 2 to 4 bytes in buffers of 6 make the consumed front
  fall on either side of the half at which `shiftBuffer` acts, the output buffer
  resize, and a message fit or not, whole or in part, so that its beginning, its
  middle or its end is what stays; the socket of 3 forces partial writes and
  `EAGAIN`. `Window` bounds requests on their way. A hang-up may come between any
  two handlers of an end, with messages in every buffer.
- `async_log`: three lines fill one file, begin a second and go on after midnight,
  in any split into batches; the other log's one line makes its writer format a
  date meanwhile. The two writers differ in nothing else.

The deadlock check is on in the loop and timer runs. The others may stop: all
calls are made, all connections closed, or all requests answered.

### Fairness

- `EventLoop`: the loop thread keeps running, and of `epoll_wait` only two
  outcomes are relied upon: that it reports a readable eventfd, or that it times
  out (`g_epoll_max_timeout`). Nothing assumes that a descriptor becomes ready or
  that a thread posts; a thread that has pushed a task goes on to write the
  eventfd.
- `Timer`: the clock moves, the loop delivers a readable timerfd and runs
  `onTimer`, and a thread inside a Timer call finishes it. No thread has to make
  a call.
- `RpcCall`: the loop runs; strong fairness for batches with the timer in them,
  because a pending timeout stays due while other events come and go.
- `TcpServer`: threads that are inside a handler, a constructor or a destructor go
  on, and a loop that has been stopped ends (`StopReturns` of `EventLoop`). Peers
  need not close, nobody has to start or to destroy the server.
- `TcpStream`: both loops run and nobody has to hang up; strong fairness for
  `OnRead` and `OnWrite` because epoll is level-triggered and a loop serves all it
  reports, but a socket may stop being writable in between. Requests need not be sent.
- `AsyncLog`: the main thread's loop runs the timer event and a writer that can
  go on does. Nobody has to log, or to stop the log.

## 4. Findings

1. `WokenAtOnce` (`eventloop.cc:117`). The batch is swapped out before the wakeup
   callback in it reads the eventfd. A task posted in between is left with an
   empty eventfd, and waits for another event or for the epoll timeout. It is
   late, not lost: `PostedRuns` holds, and only because of the timeout (the
   mutant without it fails).
2. `ArmedForFirst` (`timer.cc:85`). The first key is read under the lock, the
   timerfd set outside it; a thread held up in between overwrites an earlier
   expiry. `NeverAsleep` still holds.
3. `DoneOnce` (`rpc_channel.cc:97`). A failed connect runs the closure and leaves
   the timeout pending, which runs it again, possibly in the loop of the thread's
   next call.
4. `ClosedForgotten` (`tcp_server.cc:64`). A peer that closes before `onAccept`
   has set the callback or inserted the connection leaves it in `m_connections`
   for ever.
5. `NothingRefused` (`tcp_buffer.cc:100`). A read that fills the input buffer to
   its end is refused and its bytes are lost; the buffer never grows. Decoding goes
   on with what came before and comes after. What is
   certain of being accepted is half of `buffer_size`: `RefusesOnlyLarge`, proved.
6. `DatedRight` (`log.cc:223`). The buffer for the date is a static local of
   `AsyncLogger::loop`, shared by the writers of both logs without a lock. Around
   midnight one of them may open a file of the other's date, or of a date half
   written. Lines are not lost: `LogInOrder` holds all the same.

More that are exceptions the properties name, each of them needed:

- `NoStaleHandler`, `InterestMatches`: descriptors that `TcpClient::close` closes
  (`tcp_client.cc:137`), from a task or a callback and without `deleteEpollEvent`.
  Their other callbacks stay in the batch and their numbers in `m_listen_fds`. The
  same `close` has stopped the loop, which runs that batch to its end and no other.
- `OnTimerReturns`: an `onTimer` that spins on `EAGAIN` (`timer.cc:31`) with the
  timerfd disarmed and nothing pending. Two other threads that only add events reach
  this: one has read its key and arms late, when `onTimer` has taken the event; the
  timerfd fires again and `onTimer` is queued; the other one's `resetTimer`
  finds the map empty, disarms, and so discards the expiration. With
  `AsyncDeletes = TRUE` (another thread calling `deleteTimerEvent`) one is enough;
  no caller in the repository does that.
- `DestructorReturns`: a thread that has not got past its start semaphore when the
  destructor destroys it (`io_thread.cc:37-38`), although the comment at
  `io_thread.cc:10` says that destruction stops the loop and waits for the thread's
  end. It also speaks of servers that were started only: the threads of one that was
  not always wait there.
- `Served`: a connection whose mask the thread still closing the number's last user
  has zeroed (`fd_event.cc:74`).
- `ReturnsDone`: calls that did not run the loop (`tcp_client.cc:106`).
- `AnsweredRight`: services in a package, whose name `parseServiceAndMethod` cuts at
  its first dot (`dispatcher.cc:115`), and empty results, which `dispatch` takes for a
  failure to serialise (`dispatcher.cc:99`).
- `TouchesOwn`: the timeout of a call whose peer has closed, which closes the
  descriptor's number a second time (`tcp_client.cc:137`), and callbacks left in the
  loop's last batch.
- `RequestAnswered`: requests that share an id, or were refused.
- `StopDrains`: lines logged after `flushAndStop` was called (`log.cc:88`).
- `LineWritten`: the app log of a SyncLog Logger, which is appended to a buffer that
  nobody drains (`log.cc:169`).

## 5. Proofs

Of the runs' properties every invariant, every action property and every
refinement is a theorem, for every value of the constants. What the proofs
assume of the constants stands in the modules, and TLC evaluates it in each run:

- that values are of their types and special values are apart from the others
  (`Loop` is no thread, `NoConn` and `Listener` no connections, descriptors are
  natural numbers, intervals and lengths too);
- `BufferSizeAssumption`, at least two bytes (the code's buffers have 1024), and
  `GroupSizeAssumption`, at least two FdEvents (the code has 128): the table
  grows by half;
- `RegisteredAssumption` and `RequestsAssumption`: names and data are strings,
  and services have names, which protobuf's generator sees to.

Each invariant below is proved by one lemma or one step per action, and beneath
it one step per conjunct that the action disturbs. TLC has checked the stronger
invariants too, before they were proved.

`EventLoopProofs`
- `TypeCorrect`: `TypeOK`.
- `WakeSafe`: `WakeReadable`. The property is not inductive; `WakeInv`
  adds where the wakeup callback can be at each point of `loop()`. From the swap
  to the next `epoll_wait` the pending tasks hold only what others posted, so a
  callback is queued only after its predecessor has run and emptied the counter,
  and one reported or queued means a positive counter.
- `QueueImplemented`: `ImplementsQueue`. Each step of the loop or of a
  poster maps to a step of `TaskQueue` or to a stutter under
  `queue <- tasks \o m_pending_tasks`.

`EventLoopFdProofs`
- `HandlersFresh`: `NoStaleHandler`, and `InterestKept`: `InterestMatches`, from
  `FdInv`. A callback in the batch says nothing of the descriptor it was made
  for, so `OneUse` has to say that a descriptor has one user at a time over the
  batch, the pending tasks and epoll's results, and `UseOpen` that what is used
  is open; a connection that closes its descriptor then leaves nobody behind.
  `TcpClient::close` does, and the descriptors it closes (`clientClosed`) are
  excepted from there on; the loop it has stopped takes no further batch.
  `Registered` is what epoll, `m_listen_fds` and the FdEvents agree upon.

`TimerProofs`
- `TypeCorrect`, with `Phases`: what `onTimer` holds at each of its points.
- `ReactorNeverAsleep`: `NeverAsleep` is inductive beside `Phases`. The case that
  needs thought is the unlocked setting of the timerfd from an old first key.
- `EventsKept`: `NothingLost`. `Kept` counts the event onTimer is about to
  call, `Known` says that what the timer holds was added to it, and
  `CanceledFirst` that an event is canceled before it is searched for: one that
  is erased while `onTimer` has it is canceled already, and not missed.

`TcpServerProofs`
- `TypeCorrect`, and `LoopsAlive`: `LoopAlive`. `ThreadInv` says how far each
  thread can be when the owner is at a given point of a given thread, and what
  the two semaphores between them hold.
- `DescriptorsOwned`: `OwnDescriptors`. `Registration` extends it to the
  registrations still posted, `Accepting` and `Closing` say what `onAccept` and
  the two closing threads hold at each write: the connection `onAccept` makes is
  nobody else's, and the number of one being closed is not handed out before it
  has left epoll.
- `OpenServed`: `Served`, inductive beside those.
- `CountBounded`: `CountAccounted`. `Count` has it that the count is never above
  the size of `m_connections`, and below it by at most the connections that were
  taken down early and are through with it.

`TcpStreamProofs`
- `TypeCorrect`, with the buffers' indices inside the buffers.
- `RoomSafe`: `ReadHasRoom`. `IndexInv` says of each input buffer that
  its size is the first one, its read index 0 or below half of it (`shiftBuffer`),
  its write index below its size (`moveWriteIndex`). So `read()` always has room,
  and the resize of a full input buffer is never reached.
- `SmallAccepted`: `RefusesOnlyLarge`, from the same invariant: with the
  read index below half, refused bytes and unread ones exceed half.
- `RequestsImplemented` and `AnswersImplemented`: `RequestsInOrder`,
  `AnswersInOrder`, each direction of the connection implements `MessageChannel`.
  Its `queue` is `Sendings(e)`: the messages that end in the bytes on their way
  (the other end's input buffer, the wire, the own output buffer), and those
  waiting to be encoded; `received` is what the other end has decoded, `lossy` that
  it has refused bytes, `closed` that an end has hung up. `StreamInv`
  adds to `IndexInv` that the bytes on their way to an end that has refused
  none are messages of the sender's one behind the other (`FrameOK`), the last one
  cut off only when the sender has closed; that an end which is closed rests, and
  its other end finds out (`ConnOK`); and that what the client has taken over is
  encoded before it does anything else (`QueueInv`). A `read` or a `write` moves
  bytes within the stream and leaves it as it is; `encode` appends one whole
  message; `decode` receives the first: what passes its tests is that message, also
  behind a refusal. A read that is refused takes a run out of the middle of the
  stream and `Misread` one off its front, hence messages that stand one behind
  another: `Lose`, possible only where bytes have been refused. `close` loses a tail
  of the bytes, hence the last messages. `Moves` is the step of `MessageChannel`.

`AsyncLogProofs`
- `TypeCorrect`.
- `StoppedDrained`: `StopDrains`. `WriterOK` and `Points`: a writer that has left
  was told to and found its queue empty, and it is told only after `syncLogs` has
  handed over what was logged before (`Taken`).
- `FilesRoll`: `Rolls`. `FileInv` says that the numbers of a day's files are used
  without a gap and that a writer which has read no date but its own has written
  to no later file; so the file it opens next is new. That there is always a
  number left follows from `Counted`: no more files than lines.
- `LogImplemented`: `LogInOrder`, each log implements `TaskQueue`. What a
  writer holds, what it has queued and what is buffered, one behind the other, is
  the queue; to hand over a batch does not change it. `FlattenSeq` is a
  recursive function, and what it makes of a queue that grows and shrinks is
  derived from its definition.

`DispatcherProofs`
- `RoundTrip`: what `decode` reads of an encoded message is that message, with
  the id it was encoded under. `FieldIn` and `PartIn`: a field is found behind its
  length wherever it stands, so one field after the other is what was
  written, and the bounds the code checks hold. With it the lemmas about
  `parseServiceAndMethod` and `dispatch` that the next module uses.

`RpcCallProofs`, which has those lemmas for what comes back from the server
- `TypeCorrect`, `ConnectedOnce` (`OnceIfConnected`), `ReturnedDone`
  (`ReturnsDone`), `AnswerMatched` (`AnswerFound`), `AnswerKept` (`AnswerFinal`),
  `AnswerRight` (`AnsweredRight`) and `TouchesOwnOnly` (`TouchesOwn`), all from
  `CallInv`. Its core is `Counts`: how often the closure has run, together with
  those who may still run it (the pending timeout, the end of the connect), is at
  most two, and at most one once the client is connected. `LoopInv` and `Stopped`
  say that the loop runs for one call, with nothing else under way but timeouts
  that failed calls have left, and that whoever stops it has ended that call;
  `CallOK` that a call which waits for bytes waits under the id its answer bears.
- `IdsCountUp`: `IdsSuccessive`, for any base and number of digits: the loop over
  the digits stops at one that takes the carry, which adds one to the value.

The library's induction theorems take an operator as a parameter and cannot be
used. Where a proof needs an induction (`Value` of an id, `FlattenSeq`, the
messages that end in a run of bytes) it takes the least number that has a
counterexample: `LeastNumber`, from the library's fact that `<` on the natural
numbers is well-founded.

Only model-checked: all liveness (`PostedRuns`, `StopReturns`, `PendingRuns`,
`OnTimerReturns`, `LoopReturns`, `GoneForgotten`, `DestructorReturns`,
`RequestAnswered`, `LineWritten`), since fairness and ENABLED are outside the
prover's reach. No module uses RECURSIVE operators.

## 6. Not modelled, and why

- Failures that end the process (`exit` in constructors). A failing `socket()`
  in TcpClient's constructor, which leaves `m_connection` null.
- Object lifetime: a connection is gone when its last reference is dropped.
  Unsynchronized writes of a `std::function` (an FdEvent's callback, a canceled
  event's task) are one step each.
- In `TcpStream` a message is its length and identity; in `TinyPB` it has its
  fields, but arrives whole. Both ends run the same encoder, so bytes that are no
  message are met only once some have been refused. What `decode` then drops of them
  is any part of what it has (`Misread`): the byte it stops at, and the length it
  finds there, depend on data the model does not have. That `PB_END` and the checksum
  tell a message from such remains is assumed; a length that is not positive, which
  `decode` does not test for, is left out.
- The user of a client in `TcpStream` writes between events. One who calls
  `writeMessage` from a write callback would have the message forgotten by
  `m_write_cb.clear()` (`tcp_connection.cc:206`); no caller in the repository does.
- A cancel from another thread between the two fetches of an event's task
  (`timer.cc:61`), for no caller cancels there.
- `SYS_FAILED_PARSE_SERVICE_NAME` is in `Dispatch` but reached by no call:
  `RpcChannel` sends full names, which have a dot.
- `TcpConnection::shutdown`, called by nobody; `StringCoder`, used by nobody;
  configuration, wrappers of system calls; generated and vendored code.
- NetAddr: converts between strings and `sockaddr` structures, one call at a time;
  no other component's control depends on the result but through system calls
  that fail, and those failures are modelled.
- Runtime: `dispatch` sets the thread's id and method name and never clears them,
  so later log lines of the thread carry them; only the wording of the log
  depends on it.
- Of the log: the level filter, what a line says, the size of a file in bytes (it
  is counted in lines), files an earlier process has left (its numbers start at 0
  again and it appends to them).

## 7. Plan

Done, in this order because everything rests on the reactor: EventLoop, Timer,
RpcCall, TcpServer, TcpBuffer and TcpStream, AsyncLog, IOThread; then MsgId, TinyPB
and Dispatcher under RpcCall, hang-ups and write errors in TcpStream, the
listening socket and the table of FdEvents in TcpServer, both types of Logger in
AsyncLog; then the theorems about every module.

Next theorems: that nothing is refused as long as the bytes on their way to an
end fit into half of its buffer; that two ids of a thread differ between two
draws however many calls lie between them; the step of each liveness argument that
is safety: that what a property waits for is not undone once it has come about,
and that a measure falls with each step of the loop.
