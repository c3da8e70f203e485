----------------------------- MODULE TcpStream -----------------------------
(* The byte stream of one connection, both ends of it: TcpConnection's read *)
(* and write loops (src/net/tcp/tcp_connection.cc) over TcpBuffer, with     *)
(* TinyPBCoder cutting messages out of the bytes (coder/tinypb_coder.cc).   *)
(* The client sends requests, the server answers each; both run the same    *)
(* code, each in the thread of its loop.                                    *)
(*                                                                          *)
(* A message is a run of bytes [msg, pos]; its first carries PB_START and,  *)
(* with the next four, the length, its last is PB_END. TCP splits and joins *)
(* what is written as it likes. Once a read has been refused bytes are      *)
(* missing, and decode goes on with what there is: see Misread. The         *)
(* checksum tells every such run of bytes from a message.                   *)
(*                                                                          *)
(* Either end may hang up: its process ends, or the client's user closes.   *)
(* The other finds out when it reads or writes.                             *)
EXTENDS TcpBuffer, TinyPB, FiniteSets

CONSTANTS Requests,    \* the requests, sent at most once each
          MsgId,       \* the m_msg_id each is given, perhaps none
          RequestLen,  \* m_pk_len of each
          AnswerLen,   \* m_pk_len of the answer to each
          BufferSize,  \* buffer_size: 1024
          WireSize,    \* bytes a socket holds on their way
          Window       \* bound: requests sent and not answered

ASSUME RequestLenAssumption == RequestLen \in [Requests -> Nat \ {0}]
ASSUME AnswerLenAssumption == AnswerLen \in [Requests -> Nat \ {0}]
ASSUME BufferSizeAssumption == BufferSize \in Nat /\ BufferSize >= 2
ASSUME WireSizeAssumption == WireSize \in Nat \ {0}
ASSUME WindowAssumption == Window \in Nat \ {0}

VARIABLES
  pc,         \* each end: "idle", or where it is in onRead or onWrite
  inBuf,      \* m_in_buffer
  outBuf,     \* m_out_buffer
  wire,       \* bytes on their way to each end
  reading,    \* EPOLLIN is registered
  writing,    \* EPOLLOUT is registered
  todo,       \* messages to encode in this run of onRead or onWrite
  m_write_cb, \* the client's messages waiting for onWrite
  m_read_cb,  \* the request whose callback waits for each id, or none
  status,     \* of each request: "new", "sent", "answered"
  conn,       \* each end's socket and m_state, see Hangup
  refused,    \* history: ends at which moveWriteIndex has refused bytes
  received    \* history: the messages each end has decoded, in order

vars == <<pc, inBuf, outBuf, wire, reading, writing, todo, m_write_cb, m_read_cb, status,
          conn, refused, received>>

Ends == {"client", "server"}
Peer(e) == IF e = "client" THEN "server" ELSE "client"

Request(q) == [kind |-> "request", id |-> q]
Answer(q)  == [kind |-> "answer", id |-> q]
Messages   == {Request(q) : q \in Requests} \cup {Answer(q) : q \in Requests}
Length(m)  == IF m.kind = "request" THEN RequestLen[m.id] ELSE AnswerLen[m.id]

(* The id a message travels under; the dispatcher gives its answer the same.*)
IdOf(q) == EncodedId(MsgId[q])
Ids     == {IdOf(q) : q \in Requests}
NoRequest == "none"

(* encodeMessage.                                                           *)
Bytes(m) == [k \in 1..Length(m) |-> [msg |-> m, pos |-> k]]

Init ==
  /\ pc = [e \in Ends |-> "idle"]
  /\ inBuf = [e \in Ends |-> NewBuffer(BufferSize)]
  /\ outBuf = [e \in Ends |-> NewBuffer(BufferSize)]
  /\ wire = [e \in Ends |-> <<>>]
  /\ reading = [e \in Ends |-> e = "server"]
  /\ writing = [e \in Ends |-> FALSE]
  /\ todo = [e \in Ends |-> <<>>]
  /\ m_write_cb = <<>>
  /\ m_read_cb = [i \in Ids |-> NoRequest]
  /\ status = [q \in Requests |-> "new"]
  /\ conn = [e \in Ends |-> "up"]
  /\ refused = {}
  /\ received = [e \in Ends |-> <<>>]

At(e, point) == pc[e] = point
GoTo(e, point) == pc' = [pc EXCEPT ![e] = point]

-----------------------------------------------------------------------------
(* The user of the client connection.                                       *)

Sent == {q \in Requests : status[q] = "sent"}

(* TcpClient::writeMessage: addMessage, then listenWriteEvent. The user     *)
(* calls it between two events, not from a callback of the connection.      *)
WriteMessage(q) ==
  /\ At("client", "idle")
  /\ conn["client"] # "closed"
  /\ status[q] = "new"
  /\ Cardinality(Sent) < Window
  /\ status' = [status EXCEPT ![q] = "sent"]
  /\ m_write_cb' = Append(m_write_cb, Request(q))
  /\ writing' = [writing EXCEPT !["client"] = TRUE]
  /\ UNCHANGED <<pc, inBuf, outBuf, wire, reading, todo, m_read_cb, conn, refused, received>>

-----------------------------------------------------------------------------
(* Hanging up.                                                              *)

(* e's descriptor is closed, by its process or with it; what is on its way  *)
(* to e is lost.                                                            *)
Closed(e) ==
  /\ reading' = [reading EXCEPT ![e] = FALSE]
  /\ writing' = [writing EXCEPT ![e] = FALSE]
  /\ wire' = [wire EXCEPT ![e] = <<>>]

(* To the other end this is the end of the stream ("eof") or, when bytes    *)
(* were lost, a reset, which its next call reports. After that call, and    *)
(* after a write to an ended stream, reads tell the end and writes raise    *)
(* SIGPIPE ("spent").                                                       *)
Hangup(e) ==
  /\ At(e, "idle")
  /\ conn[e] = "up"
  /\ conn' = [x \in Ends |-> IF x = e THEN "closed"
                             ELSE IF wire[e] = <<>> THEN "eof" ELSE "reset"]
  /\ Closed(e)
  /\ UNCHANGED <<pc, inBuf, outBuf, todo, m_write_cb, m_read_cb, status, refused, received>>

-----------------------------------------------------------------------------
(* onRead.                                                                  *)

OnRead(e) ==
  /\ At(e, "idle")
  /\ reading[e]
  /\ wire[e] # <<>> \/ conn[e] # "up"
  /\ GoTo(e, "read")
  /\ UNCHANGED <<inBuf, outBuf, wire, reading, writing, todo, m_write_cb, m_read_cb, status,
                 conn, refused, received>>

(* A full buffer is resized to twice its vector's size before the read.     *)
ReadBuffer(e) ==
  IF WriteAvailable(inBuf[e]) = 0 THEN ResizeBuffer(inBuf[e], 2 * inBuf[e].vec) ELSE inBuf[e]

(* One read() of n bytes, at most the room there is; a short one is the     *)
(* last.                                                                    *)
ReadSome(e) ==
  /\ At(e, "read")
  /\ \E n \in 1..Len(wire[e]) :
       LET b    == ReadBuffer(e)
           data == SubSeq(wire[e], 1, n)
       IN
       /\ n <= WriteAvailable(b)
       /\ wire' = [wire EXCEPT ![e] = SubSeq(@, n + 1, Len(@))]
       /\ inBuf' = [inBuf EXCEPT ![e] = MoveWriteIndex(b, data)]
       /\ refused' = IF Refuses(b, data) THEN refused \cup {e} ELSE refused
       /\ IF n < WriteAvailable(b) THEN GoTo(e, "decode") ELSE UNCHANGED pc
  /\ UNCHANGED <<outBuf, reading, writing, todo, m_write_cb, m_read_cb, status, conn, received>>

(* EAGAIN.                                                                  *)
ReadNothing(e) ==
  /\ At(e, "read")
  /\ conn[e] = "up"
  /\ wire[e] = <<>>
  /\ GoTo(e, "decode")
  /\ UNCHANGED <<inBuf, outBuf, wire, reading, writing, todo, m_write_cb, m_read_cb, status,
                 conn, refused, received>>

(* The peer has closed: this end closes too, and decodes nothing of what it *)
(* has just read.                                                           *)
ReadEnd(e) ==
  /\ At(e, "read")
  /\ wire[e] = <<>>
  /\ conn[e] \in {"eof", "spent"}
  /\ GoTo(e, "idle")
  /\ conn' = [conn EXCEPT ![e] = "closed"]
  /\ Closed(e)
  /\ UNCHANGED <<inBuf, outBuf, todo, m_write_cb, m_read_cb, status, refused, received>>

(* A read error: onRead returns.                                            *)
ReadFails(e) ==
  /\ At(e, "read")
  /\ wire[e] = <<>>
  /\ conn[e] = "reset"
  /\ GoTo(e, "idle")
  /\ conn' = [conn EXCEPT ![e] = "spent"]
  /\ UNCHANGED <<inBuf, outBuf, wire, reading, writing, todo, m_write_cb, m_read_cb, status,
                 refused, received>>

(* The message the first unread byte is of.                                 *)
Front(e) == Head(inBuf[e].bytes).msg

(* Mutant: no test of the bytes that the length spans.                      *)
HasLength(e) ==
  /\ inBuf[e].bytes # <<>>
  /\ Length(Front(e)) <= ReadAvailable(inBuf[e])

(* decode has a whole message: as many bytes as its length says, and they   *)
(* pass the tests of PB_END and of the checksum.                            *)
HasMessage(e) ==
  /\ inBuf[e].bytes # <<>>
  /\ Length(Front(e)) <= ReadAvailable(inBuf[e])
  /\ SubSeq(inBuf[e].bytes, 1, Length(Front(e))) = Bytes(Front(e))

(* What there is begins a message, and decode waits for the rest.           *)
HasBeginning(e) ==
  inBuf[e].bytes # <<>> =>
    /\ ReadAvailable(inBuf[e]) < Length(Front(e))
    /\ inBuf[e].bytes = SubSeq(Bytes(Front(e)), 1, ReadAvailable(inBuf[e]))

(* One turn of decode's loop, and what becomes of the message: the server   *)
(* dispatches it, the client looks its callback up.                         *)
Decode(e) ==
  /\ At(e, "decode")
  /\ HasMessage(e)
  /\ LET m == Front(e) IN
     /\ inBuf' = [inBuf EXCEPT ![e] = ReadFromBuffer(@, Length(m))]
     /\ received' = [received EXCEPT ![e] = Append(@, m)]
     /\ IF e = "server"
        THEN /\ todo' = [todo EXCEPT ![e] = Append(@, Answer(m.id))]
             /\ UNCHANGED <<m_read_cb, status>>
        ELSE LET i == IdOf(m.id) IN
             /\ m_read_cb' = [m_read_cb EXCEPT ![i] = NoRequest]
             /\ status' = IF m_read_cb[i] = NoRequest THEN status
                          ELSE [status EXCEPT ![m_read_cb[i]] = "answered"]
             /\ UNCHANGED todo
  /\ UNCHANGED <<pc, outBuf, wire, reading, writing, m_write_cb, conn, refused>>

(* After a refusal the remains of messages stand behind one another. The    *)
(* scan for PB_START drops some of them, and what it stops at need not      *)
(* begin a message nor the length it finds be one: as many bytes fail a     *)
(* test and are dropped, sound messages among them, or decode waits for     *)
(* them (DecodeDone). A length that is not positive is left out.            *)
Misread(e) ==
  /\ At(e, "decode")
  /\ ~HasMessage(e)
  /\ ~HasBeginning(e)
  /\ \E n \in 1..ReadAvailable(inBuf[e]) :
       \/ inBuf' = [inBuf EXCEPT ![e] = MoveReadIndex(@, n)]
       \/ inBuf' = [inBuf EXCEPT ![e] = ReadFromBuffer(@, n)]
  /\ UNCHANGED <<pc, outBuf, wire, reading, writing, todo, m_write_cb, m_read_cb, status,
                 conn, refused, received>>

DecodeDone(e) ==
  /\ At(e, "decode")
  /\ ~HasMessage(e)
  /\ GoTo(e, IF todo[e] = <<>> THEN "idle" ELSE "encode")
  /\ UNCHANGED <<inBuf, outBuf, wire, reading, writing, todo, m_write_cb, m_read_cb, status,
                 conn, refused, received>>

-----------------------------------------------------------------------------
(* onWrite. The client encodes what is waiting first; the server has        *)
(* encoded its answers in onRead.                                           *)

OnWrite(e) ==
  /\ At(e, "idle")
  /\ writing[e]
  /\ Len(wire[Peer(e)]) < WireSize
  /\ IF e = "client"
     THEN GoTo(e, "encode") /\ todo' = [todo EXCEPT ![e] = m_write_cb]
     ELSE GoTo(e, "write") /\ UNCHANGED todo
  /\ UNCHANGED <<inBuf, outBuf, wire, reading, writing, m_write_cb, m_read_cb, status,
                 conn, refused, received>>

Encode(e) ==
  /\ At(e, "encode")
  /\ todo[e] # <<>>
  /\ outBuf' = [outBuf EXCEPT ![e] = WriteToBuffer(@, Bytes(Head(todo[e])))]
  /\ todo' = [todo EXCEPT ![e] = Tail(@)]
  /\ UNCHANGED <<pc, inBuf, wire, reading, writing, m_write_cb, m_read_cb, status, conn, refused,
                 received>>

(* Mutant: nobody listens for the server's answers to be writable.          *)
EncodeDoneSilently(e) ==
  /\ At(e, "encode")
  /\ todo[e] = <<>>
  /\ GoTo(e, IF e = "client" THEN "write" ELSE "idle")
  /\ UNCHANGED <<inBuf, outBuf, wire, reading, writing, todo, m_write_cb, m_read_cb, status,
                 conn, refused, received>>

(* The server's onRead ends with listenWriteEvent.                          *)
EncodeDone(e) ==
  /\ At(e, "encode")
  /\ todo[e] = <<>>
  /\ IF e = "client" THEN GoTo(e, "write") /\ UNCHANGED writing
     ELSE GoTo(e, "idle") /\ writing' = [writing EXCEPT ![e] = TRUE]
  /\ UNCHANGED <<inBuf, outBuf, wire, reading, todo, m_write_cb, m_read_cb, status, conn, refused,
                 received>>

(* The callbacks of the client's messages, in order, each ask for the       *)
(* answer under the message's id: of two with one id the later is answered. *)
LastOf(k, i) == /\ IdOf(m_write_cb[k].id) = i
                /\ \A j \in (k + 1)..Len(m_write_cb) : IdOf(m_write_cb[j].id) # i
AddReadCbs ==
  m_read_cb' = [i \in Ids |->
    IF \E k \in 1..Len(m_write_cb) : LastOf(k, i)
    THEN m_write_cb[CHOOSE k \in 1..Len(m_write_cb) : LastOf(k, i)].id
    ELSE m_read_cb[i]]

(* The end of onWrite: the client runs the callbacks of its messages and    *)
(* forgets them.                                                            *)
Written(e) ==
  /\ GoTo(e, "idle")
  /\ IF e = "client"
     THEN AddReadCbs /\ reading' = [reading EXCEPT ![e] = TRUE] /\ m_write_cb' = <<>>
     ELSE UNCHANGED <<m_read_cb, reading, m_write_cb>>

(* One write(), which takes a part of the bytes or all; then OUT is cleared.*)
WriteSome(e) ==
  /\ At(e, "write")
  /\ conn[e] = "up"
  /\ \E n \in 1..(WireSize - Len(wire[Peer(e)])) :
       /\ n <= ReadAvailable(outBuf[e])
       /\ wire' = [wire EXCEPT ![Peer(e)] = @ \o SubSeq(outBuf[e].bytes, 1, n)]
       /\ outBuf' = [outBuf EXCEPT ![e] = MoveReadIndex(@, n)]
       /\ IF n < ReadAvailable(outBuf[e])
          THEN UNCHANGED <<pc, m_read_cb, reading, m_write_cb, writing>>
          ELSE Written(e) /\ writing' = [writing EXCEPT ![e] = FALSE]
  /\ UNCHANGED <<inBuf, todo, status, conn, refused, received>>

(* EAGAIN: OUT stays registered.                                            *)
WriteBlocked(e) ==
  /\ At(e, "write")
  /\ conn[e] = "up"
  /\ Len(wire[Peer(e)]) = WireSize
  /\ Written(e)
  /\ UNCHANGED <<inBuf, outBuf, wire, writing, todo, status, conn, refused, received>>

(* The first write after the peer's close is taken and lost.                *)
WriteLost(e) ==
  /\ At(e, "write")
  /\ conn[e] = "eof"
  /\ outBuf' = [outBuf EXCEPT ![e] = MoveReadIndex(@, ReadAvailable(@))]
  /\ writing' = [writing EXCEPT ![e] = FALSE]
  /\ conn' = [conn EXCEPT ![e] = "spent"]
  /\ Written(e)
  /\ UNCHANGED <<inBuf, wire, todo, status, refused, received>>

(* An error: onWrite returns; what it has encoded stays in the buffer and   *)
(* the client's messages stay queued as well.                               *)
WriteFails(e) ==
  /\ At(e, "write")
  /\ conn[e] = "reset"
  /\ GoTo(e, "idle")
  /\ conn' = [conn EXCEPT ![e] = "spent"]
  /\ UNCHANGED <<inBuf, outBuf, wire, reading, writing, todo, m_write_cb, m_read_cb, status,
                 refused, received>>

(* SIGPIPE, which nobody ignores, ends the process.                         *)
WriteKills(e) ==
  /\ At(e, "write")
  /\ conn[e] = "spent"
  /\ GoTo(e, "idle")
  /\ conn' = [conn EXCEPT ![e] = "closed"]
  /\ Closed(e)
  /\ UNCHANGED <<inBuf, outBuf, todo, m_write_cb, m_read_cb, status, refused, received>>

-----------------------------------------------------------------------------
EndStep(e) ==
  \/ OnRead(e) \/ ReadSome(e) \/ ReadNothing(e) \/ ReadEnd(e) \/ ReadFails(e)
  \/ Decode(e) \/ Misread(e) \/ DecodeDone(e)
  \/ OnWrite(e) \/ Encode(e) \/ EncodeDone(e)
  \/ WriteSome(e) \/ WriteBlocked(e) \/ WriteLost(e) \/ WriteFails(e) \/ WriteKills(e)

Next == \/ \E q \in Requests : WriteMessage(q)
        \/ \E e \in Ends : EndStep(e) \/ Hangup(e)

Spec == Init /\ [][Next]_vars

(* Both loops run, and a descriptor that is ready again and again is        *)
(* reported some day.                                                       *)
Fairness == \A e \in Ends : /\ WF_vars(EndStep(e))
                            /\ SF_vars(OnRead(e))
                            /\ SF_vars(OnWrite(e))

FairSpec == Spec /\ Fairness

-----------------------------------------------------------------------------
(* Properties.                                                              *)

Byte == [msg : Messages, pos : Nat]
Buffer == [size : Nat, read : Nat, bytes : Seq(Byte), vec : Nat]

(* The types of the stream's state; the indices stay inside the buffers.    *)
TypeOK ==
  /\ pc \in [Ends -> {"idle", "read", "decode", "encode", "write"}]
  /\ inBuf \in [Ends -> Buffer]
  /\ outBuf \in [Ends -> Buffer]
  /\ \A e \in Ends : WriteAvailable(inBuf[e]) >= 0 /\ WriteAvailable(outBuf[e]) >= 0
  /\ wire \in [Ends -> Seq(Byte)]
  /\ reading \in [Ends -> BOOLEAN]
  /\ writing \in [Ends -> BOOLEAN]
  /\ todo \in [Ends -> Seq(Messages)]
  /\ m_write_cb \in Seq(Messages)
  /\ m_read_cb \in [Ids -> Requests \cup {NoRequest}]
  /\ status \in [Requests -> {"new", "sent", "answered"}]
  /\ conn \in [Ends -> {"up", "eof", "reset", "spent", "closed"}]
  /\ refused \subseteq Ends
  /\ received \in [Ends -> Seq(Messages)]

(* onRead never calls read() with no room: it would return 0, which the     *)
(* code takes for the peer's close. The branch that resizes a full input    *)
(* buffer would not help, its vector being empty.                           *)
ReadHasRoom == \A e \in Ends : At(e, "read") => WriteAvailable(ReadBuffer(e)) > 0

(* Bytes are refused only when they and the unread ones are more than half  *)
(* of the buffer: what a connection can take at once is not m_size but half *)
(* of it, for the consumed front of the buffer may be as large as the rest. *)
RefusesOnlyLarge ==
  [][\A e \in Ends : e \in refused' \ refused =>
       2 * (ReadAvailable(inBuf[e]) + Len(wire[e]) - Len(wire'[e])) > inBuf[e].size]_vars

(* Messages under way to the other end: those whose last byte is still to   *)
(* be decoded there and those e has still to encode, unless e is closed.    *)
IsEnd(byte) == byte.pos = Length(byte.msg)
MessagesOf(bytes) ==
  LET upTo[n \in 0..Len(bytes)] ==
        IF n = 0 THEN <<>>
        ELSE IF IsEnd(bytes[n]) THEN Append(upTo[n - 1], bytes[n].msg)
        ELSE upTo[n - 1]
  IN upTo[Len(bytes)]
Stream(e) ==
  inBuf[Peer(e)].bytes \o wire[Peer(e)]
    \o (IF conn[e] = "closed" THEN <<>> ELSE outBuf[e].bytes)
OnTheWay(e) == MessagesOf(Stream(e))
ToEncode(e) ==
  IF conn[e] = "closed" THEN <<>>
  ELSE IF e = "server" \/ At(e, "encode") THEN todo[e]
  ELSE IF At(e, "write") THEN <<>>
  ELSE m_write_cb
Sendings(e) == IF conn[Peer(e)] = "closed" THEN <<>> ELSE OnTheWay(e) \o ToEncode(e)

(* However the bytes are split, the requests reach the server's dispatcher  *)
(* and the answers the client's callbacks as through a FIFO: whole, in      *)
(* order and none twice. Until the receiving end refuses bytes none is lost *)
(* before an end hangs up, and then only the last of those under way. Once  *)
(* bytes were refused some are lost, and those behind them still arrive.    *)
RequestChannel == INSTANCE MessageChannel WITH
  Message <- {Request(q) : q \in Requests},
  queue <- Sendings("client"),
  received <- received["server"],
  lossy <- "server" \in refused,
  closed <- conn["client"] # "up"
RequestsInOrder == RequestChannel!Spec

AnswerChannel == INSTANCE MessageChannel WITH
  Message <- {Answer(q) : q \in Requests},
  queue <- Sendings("server"),
  received <- received["client"],
  lossy <- "client" \in refused,
  closed <- conn["client"] # "up"
AnswersInOrder == AnswerChannel!Spec

(* Every request is answered unless bytes were refused, the client hung up  *)
(* or found the server gone, or another request went out under its id, and  *)
(* although both ends wait for the socket.                                  *)
RequestAnswered ==
  \A q \in Requests : status[q] = "sent" ~>
    \/ status[q] = "answered" \/ conn["client"] = "closed" \/ refused # {}
    \/ \E r \in Requests \ {q} : IdOf(r) = IdOf(q) /\ status[r] # "new"

(* tcp_connection.cc: at most free_len bytes are read, which guarantees     *)
(* that moveWriteIndex does not go out of range. It refuses none.           *)
NothingRefused == refused = {}
=============================================================================
