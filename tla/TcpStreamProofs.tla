-------------------------- MODULE TcpStreamProofs --------------------------
(* Proofs about the byte stream, for any messages and message lengths, any  *)
(* buffer of two bytes or more and any socket: first where the indices of   *)
(* the buffers can be, then that each direction of the connection is a      *)
(* MessageChannel.                                                          *)
EXTENDS TcpStream, SequenceTheorems, WellFoundedInduction, TLAPS

Half == BufferSize \div 2

(* The inductive invariant behind ReadHasRoom and RefusesOnlyLarge. An      *)
(* input buffer keeps its first size; what has been consumed at its front   *)
(* is less than half of it, for shiftBuffer then reclaims it; and the write *)
(* index never reaches the end, for moveWriteIndex would refuse it.         *)
InBounds(b) ==
  /\ b.size = BufferSize
  /\ b.read = 0 \/ b.read < Half
  /\ WriteIndex(b) < BufferSize

IndexInv == \A e \in Ends : InBounds(inBuf[e])

-----------------------------------------------------------------------------
(* What the buffer's operations return.                                     *)

LEMMA HalfBound == Half \in Nat /\ 2 * Half <= BufferSize /\ Half < BufferSize
  BY BufferSizeAssumption DEF Half

LEMMA MessageType ==
  ASSUME NEW m \in Messages
  PROVE  /\ m.id \in Requests /\ Length(m) \in Nat
         /\ Bytes(m) \in Seq(Byte) /\ Len(Bytes(m)) = Length(m)
<1>1. m.id \in Requests /\ Length(m) \in Nat
  BY RequestLenAssumption, AnswerLenAssumption DEF Messages, Request, Answer, Length
<1>2. Bytes(m) \in [1..Length(m) -> Byte]
  BY <1>1 DEF Bytes, Byte
<1> QED
  BY <1>1, <1>2

LEMMA RequestType == \A q \in Requests : Request(q) \in Messages /\ Answer(q) \in Messages
  BY DEF Messages

LEMMA SubSeqType ==
  ASSUME NEW s \in Seq(Byte), NEW m \in Nat \ {0}, NEW n \in 0..Len(s)
  PROVE  /\ SubSeq(s, m, n) \in Seq(Byte)
         /\ Len(SubSeq(s, m, n)) = IF m <= n THEN n - m + 1 ELSE 0
<1>1. \A i \in m..n : s[i] \in Byte
  BY ElementOfSeq
<1> QED
  BY <1>1, SubSeqProperties

LEMMA NewBufferType ==
  NewBuffer(BufferSize) \in Buffer /\ InBounds(NewBuffer(BufferSize))
  BY BufferSizeAssumption, EmptySeq DEF NewBuffer, Buffer, InBounds, WriteIndex

LEMMA ShiftType ==
  ASSUME NEW b \in Buffer
  PROVE  /\ ShiftBuffer(b) \in Buffer
         /\ ShiftBuffer(b).size = b.size /\ ShiftBuffer(b).bytes = b.bytes
         /\ ShiftBuffer(b).read = 0 \/ (ShiftBuffer(b).read = b.read /\ b.read < b.size \div 2)
  BY DEF ShiftBuffer, Buffer

LEMMA DropType ==
  ASSUME NEW b \in Buffer, NEW n \in 0..Len(b.bytes)
  PROVE  /\ Drop(b, n) \in Buffer
         /\ Drop(b, n).size = b.size /\ Drop(b, n).read = b.read + n
         /\ Len(Drop(b, n).bytes) = Len(b.bytes) - n
<1>1. b.bytes \in Seq(Byte) /\ Len(b.bytes) \in Nat /\ b.read \in Nat
  BY LenProperties DEF Buffer
<1>2. /\ SubSeq(b.bytes, n + 1, Len(b.bytes)) \in Seq(Byte)
      /\ Len(SubSeq(b.bytes, n + 1, Len(b.bytes))) = Len(b.bytes) - n
  BY <1>1, SubSeqType
<1> DEFINE rest == SubSeq(b.bytes, n + 1, Len(b.bytes))
           index == b.read + n
<1>3. Drop(b, n) = [b EXCEPT !.read = index, !.bytes = rest] /\ index \in Nat
  BY <1>1 DEF Drop
<1>4. rest \in Seq(Byte) /\ Len(rest) = Len(b.bytes) - n /\ index = b.read + n
  BY <1>2
<1> HIDE DEF rest, index
<1> QED
  BY <1>3, <1>4 DEF Buffer

LEMMA ReadFromBufferType ==
  ASSUME NEW b \in Buffer, InBounds(b), NEW n \in 0..Len(b.bytes)
  PROVE  ReadFromBuffer(b, n) \in Buffer /\ InBounds(ReadFromBuffer(b, n))
<1>1. /\ Drop(b, n) \in Buffer /\ Drop(b, n).size = b.size
      /\ Drop(b, n).read = b.read + n /\ Len(Drop(b, n).bytes) = Len(b.bytes) - n
      /\ b.read \in Nat /\ Len(b.bytes) \in Nat
  BY DropType, LenProperties DEF Buffer
<1>2. /\ ReadFromBuffer(b, n) \in Buffer
      /\ ReadFromBuffer(b, n).size = b.size /\ ReadFromBuffer(b, n).bytes = Drop(b, n).bytes
      /\ \/ ReadFromBuffer(b, n).read = 0
         \/ ReadFromBuffer(b, n).read = b.read + n /\ b.read + n < b.size \div 2
  BY <1>1, ShiftType DEF ReadFromBuffer
<1>3. b.size = BufferSize /\ b.read + Len(b.bytes) < BufferSize /\ BufferSize \div 2 = Half
  BY DEF InBounds, WriteIndex, Half
<1>4. ReadFromBuffer(b, n).read + (Len(b.bytes) - n) < BufferSize
  BY <1>1, <1>2, <1>3, BufferSizeAssumption
<1> QED
  BY <1>1, <1>2, <1>3, <1>4 DEF InBounds, WriteIndex

LEMMA MoveReadIndexType ==
  ASSUME NEW b \in Buffer, WriteAvailable(b) >= 0, NEW n \in 0..Len(b.bytes)
  PROVE  MoveReadIndex(b, n) \in Buffer /\ WriteAvailable(MoveReadIndex(b, n)) >= 0
<1>1. /\ Drop(b, n) \in Buffer /\ Drop(b, n).size = b.size
      /\ Drop(b, n).read = b.read + n /\ Len(Drop(b, n).bytes) = Len(b.bytes) - n
      /\ b.read \in Nat /\ b.size \in Nat /\ Len(b.bytes) \in Nat
  BY DropType, LenProperties DEF Buffer
<1>2. CASE n >= ReadAvailable(b)
  <2> DEFINE none == <<>> start == 0
  <2>1. MoveReadIndex(b, n) = [b EXCEPT !.read = start, !.bytes = none]
    BY <1>2 DEF MoveReadIndex
  <2>2. none \in Seq(Byte) /\ start \in Nat
    BY EmptySeq
  <2>3. Len(none) = 0 /\ start = 0
    BY EmptySeq
  <2> HIDE DEF none, start
  <2>4. /\ MoveReadIndex(b, n) \in Buffer /\ MoveReadIndex(b, n).size = b.size
        /\ MoveReadIndex(b, n).read = start /\ MoveReadIndex(b, n).bytes = none
    BY <2>1, <2>2 DEF Buffer
  <2> QED
    BY <1>1, <2>3, <2>4 DEF WriteAvailable, WriteIndex
<1>3. CASE ~(n >= ReadAvailable(b))
  <2>1. MoveReadIndex(b, n) = ShiftBuffer(Drop(b, n))
    BY <1>3 DEF MoveReadIndex
  <2>2. /\ MoveReadIndex(b, n) \in Buffer
        /\ MoveReadIndex(b, n).size = b.size
        /\ MoveReadIndex(b, n).bytes = Drop(b, n).bytes
        /\ MoveReadIndex(b, n).read = 0 \/ MoveReadIndex(b, n).read = b.read + n
    BY <1>1, <2>1, ShiftType
  <2> QED
    BY <1>1, <2>2 DEF WriteAvailable, WriteIndex
<1> QED
  BY <1>2, <1>3

(* An input buffer whose bytes are dropped.                                 *)
LEMMA DroppedInBounds ==
  ASSUME NEW b \in Buffer, InBounds(b), NEW n \in 0..Len(b.bytes)
  PROVE  MoveReadIndex(b, n) \in Buffer /\ InBounds(MoveReadIndex(b, n))
<1>1. b.size = BufferSize /\ BufferSize \in Nat /\ BufferSize >= 2
  BY BufferSizeAssumption DEF InBounds
<1>2. CASE n >= ReadAvailable(b)
  <2> DEFINE none == <<>> start == 0
  <2>1. MoveReadIndex(b, n) = [b EXCEPT !.read = start, !.bytes = none]
    BY <1>2 DEF MoveReadIndex
  <2>2. none \in Seq(Byte) /\ start \in Nat /\ Len(none) = 0 /\ start = 0
    BY EmptySeq
  <2> HIDE DEF none, start
  <2>3. /\ MoveReadIndex(b, n) \in Buffer /\ MoveReadIndex(b, n).size = b.size
        /\ MoveReadIndex(b, n).read = start /\ MoveReadIndex(b, n).bytes = none
    BY <2>1, <2>2 DEF Buffer
  <2> QED
    BY <1>1, <2>2, <2>3 DEF InBounds, WriteIndex
<1>3. CASE ~(n >= ReadAvailable(b))
  <2>1. MoveReadIndex(b, n) = ReadFromBuffer(b, n)
    BY <1>3 DEF MoveReadIndex, ReadFromBuffer
  <2> QED
    BY <2>1, ReadFromBufferType
<1> QED
  BY <1>2, <1>3

LEMMA WriteToBufferType ==
  ASSUME NEW b \in Buffer, WriteAvailable(b) >= 0, NEW data \in Seq(Byte)
  PROVE  WriteToBuffer(b, data) \in Buffer /\ WriteAvailable(WriteToBuffer(b, data)) >= 0
<1>1. /\ b.bytes \o data \in Seq(Byte) /\ Len(b.bytes \o data) = Len(b.bytes) + Len(data)
      /\ b.read \in Nat /\ b.size \in Nat /\ Len(b.bytes) \in Nat /\ Len(data) \in Nat
  BY ConcatProperties, LenProperties DEF Buffer
<1> DEFINE size == 2 * (Len(b.bytes) + Len(data))
           room == IF Len(data) > WriteAvailable(b) THEN ResizeBuffer(b, size) ELSE b
           bytes == b.bytes \o data
<1>2. size \in Nat /\ ResizeBuffer(b, size) = [b EXCEPT !.size = size, !.read = 0, !.vec = size]
  BY <1>1 DEF ResizeBuffer, ReadAvailable
<1>3. room \in Buffer /\ room.bytes = b.bytes /\ room.size - room.read >= Len(bytes)
  <2>1. CASE Len(data) > WriteAvailable(b)
    <3>1. room = [b EXCEPT !.size = size, !.read = 0, !.vec = size]
      BY <1>2, <2>1
    <3>2. size - 0 >= Len(bytes)
      BY <1>1
    <3> HIDE DEF room, size
    <3> QED
      BY <1>2, <3>1, <3>2 DEF Buffer
  <2>2. CASE ~(Len(data) > WriteAvailable(b))
    BY <1>1, <2>2 DEF WriteAvailable, WriteIndex
  <2> QED
    BY <2>1, <2>2
<1>4. WriteToBuffer(b, data) = [room EXCEPT !.bytes = bytes]
  BY <1>3 DEF WriteToBuffer, ReadAvailable
<1>5. bytes \in Seq(Byte) /\ Len(bytes) \in Nat
  BY <1>1
<1> HIDE DEF room, bytes
<1>6. /\ WriteToBuffer(b, data) \in Buffer /\ WriteToBuffer(b, data).size = room.size
      /\ WriteToBuffer(b, data).read = room.read /\ WriteToBuffer(b, data).bytes = bytes
      /\ room.size \in Nat /\ room.read \in Nat
  BY <1>3, <1>4, <1>5 DEF Buffer
<1> QED
  BY <1>3, <1>5, <1>6 DEF WriteAvailable, WriteIndex

LEMMA MoveWriteIndexType ==
  ASSUME NEW b \in Buffer, InBounds(b), NEW data \in Seq(Byte)
  PROVE  MoveWriteIndex(b, data) \in Buffer /\ InBounds(MoveWriteIndex(b, data))
<1>1. /\ b.bytes \o data \in Seq(Byte) /\ Len(b.bytes \o data) = Len(b.bytes) + Len(data)
      /\ b.read \in Nat /\ b.size \in Nat /\ Len(b.bytes) \in Nat /\ Len(data) \in Nat
  BY ConcatProperties, LenProperties DEF Buffer
<1>2. CASE Refuses(b, data)
  BY <1>2 DEF MoveWriteIndex
<1>3. CASE ~Refuses(b, data)
  <2> DEFINE bytes == b.bytes \o data
  <2>1. MoveWriteIndex(b, data) = [b EXCEPT !.bytes = bytes]
    BY <1>3 DEF MoveWriteIndex
  <2>2. bytes \in Seq(Byte) /\ b.read + Len(bytes) < b.size
    BY <1>1, <1>3 DEF Refuses, WriteIndex
  <2> HIDE DEF bytes
  <2> QED
    BY <2>1, <2>2 DEF Buffer, InBounds, WriteIndex
<1> QED
  BY <1>2, <1>3

(* An input buffer is never full, so onRead never resizes it.               *)
LEMMA RoomToRead ==
  ASSUME TypeOK, IndexInv, NEW e \in Ends
  PROVE  /\ ReadBuffer(e) = inBuf[e] /\ inBuf[e] \in Buffer /\ InBounds(inBuf[e])
         /\ WriteAvailable(inBuf[e]) \in Nat \ {0}
<1>1. /\ inBuf[e] \in Buffer /\ InBounds(inBuf[e]) /\ inBuf[e].read \in Nat
      /\ Len(inBuf[e].bytes) \in Nat
  BY LenProperties DEF TypeOK, IndexInv, Buffer
<1> QED
  BY <1>1, BufferSizeAssumption DEF ReadBuffer, InBounds, WriteAvailable, WriteIndex

-----------------------------------------------------------------------------
(* TypeOK, and with it IndexInv, hold of every reachable state.             *)

BuffersOK ==
  /\ inBuf \in [Ends -> Buffer] /\ outBuf \in [Ends -> Buffer]
  /\ \A e \in Ends : WriteAvailable(inBuf[e]) >= 0 /\ WriteAvailable(outBuf[e]) >= 0

ControlOK ==
  /\ pc \in [Ends -> {"idle", "read", "decode", "encode", "write"}]
  /\ wire \in [Ends -> Seq(Byte)]
  /\ reading \in [Ends -> BOOLEAN] /\ writing \in [Ends -> BOOLEAN]
  /\ todo \in [Ends -> Seq(Messages)] /\ m_write_cb \in Seq(Messages)
  /\ m_read_cb \in [Ids -> Requests \cup {NoRequest}]
  /\ status \in [Requests -> {"new", "sent", "answered"}]
  /\ conn \in [Ends -> {"up", "eof", "reset", "spent", "closed"}]
  /\ refused \subseteq Ends
  /\ received \in [Ends -> Seq(Messages)]

LEMMA TypeParts == TypeOK <=> BuffersOK /\ ControlOK
  BY DEF TypeOK, BuffersOK, ControlOK

LEMMA TypePartsNext == BuffersOK' /\ ControlOK' => TypeOK'
  BY DEF TypeOK, BuffersOK, ControlOK

LEMMA SameBuffers ==
  ASSUME TypeOK, IndexInv, UNCHANGED <<inBuf, outBuf>>
  PROVE  BuffersOK' /\ IndexInv'
  BY TypeParts DEF BuffersOK, IndexInv

(* One end's input or output buffer is replaced by one that is in order.    *)
LEMMA InBufUpdate ==
  ASSUME TypeOK, IndexInv, NEW e \in Ends, NEW b \in Buffer, InBounds(b),
         inBuf' = [inBuf EXCEPT ![e] = b], UNCHANGED outBuf
  PROVE  BuffersOK' /\ IndexInv'
<1>1. WriteAvailable(b) >= 0
  <2>1. b.read \in Nat /\ Len(b.bytes) \in Nat /\ BufferSize \in Nat
    BY BufferSizeAssumption, LenProperties DEF Buffer
  <2> QED
    BY <2>1 DEF InBounds, WriteAvailable, WriteIndex
<1>2. inBuf' \in [Ends -> Buffer] /\ \A x \in Ends : inBuf'[x] = IF x = e THEN b ELSE inBuf[x]
  BY TypeParts DEF BuffersOK
<1> QED
  BY <1>1, <1>2, TypeParts DEF BuffersOK, IndexInv

LEMMA OutBufUpdate ==
  ASSUME TypeOK, IndexInv, NEW e \in Ends, NEW b \in Buffer, WriteAvailable(b) >= 0,
         outBuf' = [outBuf EXCEPT ![e] = b], UNCHANGED inBuf
  PROVE  BuffersOK' /\ IndexInv'
<1>1. outBuf' \in [Ends -> Buffer] /\ \A x \in Ends : outBuf'[x] = IF x = e THEN b ELSE outBuf[x]
  BY TypeParts DEF BuffersOK
<1> QED
  BY <1>1, TypeParts DEF BuffersOK, IndexInv

LEMMA InitInv == Init => TypeOK /\ IndexInv
<1> SUFFICES ASSUME Init PROVE TypeOK /\ IndexInv
  OBVIOUS
<1>1. inBuf \in [Ends -> Buffer] /\ outBuf \in [Ends -> Buffer] /\ IndexInv
  BY NewBufferType DEF Init, IndexInv
<1>2. \A e \in Ends : WriteAvailable(inBuf[e]) = BufferSize /\ WriteAvailable(outBuf[e]) = BufferSize
  BY BufferSizeAssumption, EmptySeq DEF Init, NewBuffer, WriteAvailable, WriteIndex
<1>3. ControlOK
  BY EmptySeq DEF Init, ControlOK
<1> QED
  BY <1>1, <1>2, <1>3, TypeParts, BufferSizeAssumption DEF BuffersOK

LEMMA ReadInv ==
  ASSUME TypeOK, IndexInv, NEW e \in Ends, ReadSome(e)
  PROVE  TypeOK' /\ IndexInv'
<1>1. PICK n \in 1..Len(wire[e]) :
        LET data == SubSeq(wire[e], 1, n) IN
        /\ n <= WriteAvailable(inBuf[e])
        /\ wire' = [wire EXCEPT ![e] = SubSeq(wire[e], n + 1, Len(wire[e]))]
        /\ inBuf' = [inBuf EXCEPT ![e] = MoveWriteIndex(inBuf[e], data)]
        /\ refused' = IF Refuses(inBuf[e], data) THEN refused \cup {e} ELSE refused
        /\ IF n < WriteAvailable(inBuf[e]) THEN GoTo(e, "decode") ELSE UNCHANGED pc
  BY RoomToRead DEF ReadSome
<1>2. wire[e] \in Seq(Byte) /\ Len(wire[e]) \in Nat
  BY LenProperties DEF TypeOK
<1>3. /\ SubSeq(wire[e], 1, n) \in Seq(Byte)
      /\ SubSeq(wire[e], n + 1, Len(wire[e])) \in Seq(Byte)
  BY <1>2, SubSeqType
<1>4. BuffersOK' /\ IndexInv'
  BY <1>1, <1>3, RoomToRead, MoveWriteIndexType, InBufUpdate DEF ReadSome
<1>5. ControlOK'
  BY <1>1, <1>3, TypeParts DEF ReadSome, ControlOK, GoTo
<1> QED
  BY <1>4, <1>5, TypePartsNext

LEMMA FrontType ==
  ASSUME TypeOK, IndexInv, NEW e \in Ends, Decode(e)
  PROVE  Front(e) \in Messages /\ Length(Front(e)) <= Len(inBuf[e].bytes)
<1>1. inBuf[e].bytes \in Seq(Byte)
  BY RoomToRead DEF Buffer
<1>2. inBuf[e].bytes # <<>> /\ Length(Front(e)) <= Len(inBuf[e].bytes)
  BY DEF Decode, HasMessage, ReadAvailable
<1>3. Head(inBuf[e].bytes) \in Byte
  BY <1>1, <1>2, HeadTailProperties
<1> QED
  BY <1>2, <1>3 DEF Byte, Front

LEMMA DecodeInv ==
  ASSUME TypeOK, IndexInv, NEW e \in Ends, Decode(e)
  PROVE  TypeOK' /\ IndexInv'
<1> DEFINE m == Front(e)
<1>1. inBuf[e] \in Buffer /\ InBounds(inBuf[e]) /\ inBuf[e].bytes \in Seq(Byte)
  BY RoomToRead DEF Buffer
<1>2. m \in Messages /\ Length(m) <= Len(inBuf[e].bytes)
  BY FrontType
<1>3. m.id \in Requests /\ Answer(m.id) \in Messages /\ Length(m) \in 0..Len(inBuf[e].bytes)
  BY <1>1, <1>2, MessageType, RequestType, LenProperties
<1>4. inBuf' = [inBuf EXCEPT ![e] = ReadFromBuffer(inBuf[e], Length(m))] /\ UNCHANGED outBuf
  BY DEF Decode
<1>5. /\ ReadFromBuffer(inBuf[e], Length(m)) \in Buffer
      /\ InBounds(ReadFromBuffer(inBuf[e], Length(m)))
  BY <1>1, <1>3, ReadFromBufferType
<1>6. BuffersOK' /\ IndexInv'
  BY <1>4, <1>5, InBufUpdate
<1>7. /\ Append(todo[e], Answer(m.id)) \in Seq(Messages)
      /\ Append(received[e], m) \in Seq(Messages)
  BY <1>2, <1>3, AppendProperties DEF TypeOK
<1>8. ControlOK'
  <2> received' = [received EXCEPT ![e] = Append(received[e], m)]
    BY DEF Decode
  <2>1. CASE e = "server"
    <3>1. /\ todo' = [todo EXCEPT ![e] = Append(todo[e], Answer(m.id))]
          /\ UNCHANGED <<pc, wire, reading, writing, m_write_cb, m_read_cb, status, conn, refused>>
      BY <2>1 DEF Decode
    <3> HIDE DEF m
    <3> QED
      BY <1>7, <3>1, TypeParts DEF ControlOK
  <2>2. CASE e # "server"
    <3> DEFINE i == IdOf(m.id)
    <3>1. i \in Ids
      BY <1>3 DEF Ids
    <3>2. /\ m_read_cb' = [m_read_cb EXCEPT ![i] = NoRequest]
          /\ status' = IF m_read_cb[i] = NoRequest THEN status
                       ELSE [status EXCEPT ![m_read_cb[i]] = "answered"]
          /\ UNCHANGED <<pc, wire, reading, writing, todo, m_write_cb, conn, refused>>
      BY <2>2 DEF Decode
    <3> HIDE DEF i, m
    <3> QED
      BY <1>7, <3>1, <3>2, TypeParts DEF ControlOK
  <2> QED
    BY <2>1, <2>2
<1> QED
  BY <1>6, <1>8, TypePartsNext

LEMMA MisreadInv ==
  ASSUME TypeOK, IndexInv, NEW e \in Ends, Misread(e)
  PROVE  TypeOK' /\ IndexInv'
<1>1. PICK n \in 1..ReadAvailable(inBuf[e]) :
        \/ inBuf' = [inBuf EXCEPT ![e] = MoveReadIndex(inBuf[e], n)]
        \/ inBuf' = [inBuf EXCEPT ![e] = ReadFromBuffer(inBuf[e], n)]
  BY DEF Misread
<1>2. inBuf[e] \in Buffer /\ InBounds(inBuf[e]) /\ n \in 0..Len(inBuf[e].bytes)
  BY RoomToRead DEF ReadAvailable
<1>3. PICK b \in Buffer : InBounds(b) /\ inBuf' = [inBuf EXCEPT ![e] = b]
  BY <1>1, <1>2, DroppedInBounds, ReadFromBufferType
<1>4. BuffersOK' /\ IndexInv'
  BY <1>3, InBufUpdate DEF Misread
<1>5. ControlOK'
  BY TypeParts DEF Misread, ControlOK
<1> QED
  BY <1>4, <1>5, TypePartsNext

LEMMA WrittenType ==
  ASSUME TypeOK, NEW e \in Ends, Written(e)
  PROVE  /\ pc' \in [Ends -> {"idle", "read", "decode", "encode", "write"}]
         /\ m_read_cb' \in [Ids -> Requests \cup {NoRequest}] /\ reading' \in [Ends -> BOOLEAN]
         /\ m_write_cb' \in Seq(Messages)
<1>1. \A k \in 1..Len(m_write_cb) : m_write_cb[k].id \in Requests
  BY ElementOfSeq, MessageType DEF TypeOK
<1>2. ASSUME AddReadCbs PROVE m_read_cb' \in [Ids -> Requests \cup {NoRequest}]
  <2>1. \A i \in Ids : m_read_cb[i] \in Requests \cup {NoRequest}
    BY DEF TypeOK
  <2>2. \A i \in Ids : (\E k \in 1..Len(m_write_cb) : LastOf(k, i)) =>
          m_write_cb[CHOOSE k \in 1..Len(m_write_cb) : LastOf(k, i)].id \in Requests
    BY <1>1
  <2> QED
    BY <1>2, <2>1, <2>2 DEF AddReadCbs
<1>3. pc' \in [Ends -> {"idle", "read", "decode", "encode", "write"}]
  BY DEF TypeOK, Written, GoTo
<1>4. m_read_cb' \in [Ids -> Requests \cup {NoRequest}]
  BY <1>2 DEF TypeOK, Written
<1>5. reading' \in [Ends -> BOOLEAN]
  BY DEF TypeOK, Written
<1>6. m_write_cb' \in Seq(Messages)
  BY EmptySeq DEF TypeOK, Written
<1> QED
  BY <1>3, <1>4, <1>5, <1>6

LEMMA WriteInv ==
  ASSUME TypeOK, IndexInv, NEW e \in Ends, WriteSome(e)
  PROVE  TypeOK' /\ IndexInv'
<1>1. PICK n \in 1..(WireSize - Len(wire[Peer(e)])) :
        /\ n <= ReadAvailable(outBuf[e])
        /\ wire' = [wire EXCEPT ![Peer(e)] = wire[Peer(e)] \o SubSeq(outBuf[e].bytes, 1, n)]
        /\ outBuf' = [outBuf EXCEPT ![e] = MoveReadIndex(outBuf[e], n)]
        /\ IF n < ReadAvailable(outBuf[e])
           THEN UNCHANGED <<pc, m_read_cb, reading, m_write_cb, writing>>
           ELSE Written(e) /\ writing' = [writing EXCEPT ![e] = FALSE]
  BY DEF WriteSome
<1>2. /\ outBuf[e] \in Buffer /\ outBuf[e].bytes \in Seq(Byte) /\ Len(outBuf[e].bytes) \in Nat
      /\ WriteAvailable(outBuf[e]) >= 0 /\ Peer(e) \in Ends /\ wire[Peer(e)] \in Seq(Byte)
  BY LenProperties DEF TypeOK, Buffer, Peer, Ends
<1>3. n \in 0..Len(outBuf[e].bytes)
  BY <1>1, <1>2 DEF ReadAvailable
<1>4. wire[Peer(e)] \o SubSeq(outBuf[e].bytes, 1, n) \in Seq(Byte)
  BY <1>2, <1>3, SubSeqType, ConcatProperties
<1>5. MoveReadIndex(outBuf[e], n) \in Buffer /\ WriteAvailable(MoveReadIndex(outBuf[e], n)) >= 0
  BY <1>2, <1>3, MoveReadIndexType
<1>6. BuffersOK' /\ IndexInv'
  BY <1>1, <1>5, OutBufUpdate DEF WriteSome
<1>7. ControlOK'
  BY <1>1, <1>2, <1>4, WrittenType, TypeParts DEF WriteSome, ControlOK
<1> QED
  BY <1>6, <1>7, TypePartsNext

LEMMA EncodeInv ==
  ASSUME TypeOK, IndexInv, NEW e \in Ends, Encode(e)
  PROVE  TypeOK' /\ IndexInv'
<1> DEFINE m == Head(todo[e])
<1>1. m \in Messages /\ Tail(todo[e]) \in Seq(Messages)
  BY HeadTailProperties DEF Encode, TypeOK
<1>2. /\ WriteToBuffer(outBuf[e], Bytes(m)) \in Buffer
      /\ WriteAvailable(WriteToBuffer(outBuf[e], Bytes(m))) >= 0
  BY <1>1, MessageType, WriteToBufferType DEF TypeOK
<1>3. BuffersOK' /\ IndexInv'
  BY <1>2, OutBufUpdate DEF Encode
<1>4. ControlOK'
  BY <1>1, TypeParts DEF Encode, ControlOK
<1> QED
  BY <1>3, <1>4, TypePartsNext

LEMMA WriteLostInv ==
  ASSUME TypeOK, IndexInv, NEW e \in Ends, WriteLost(e)
  PROVE  TypeOK' /\ IndexInv'
<1> DEFINE n == ReadAvailable(outBuf[e])
<1>1. outBuf[e] \in Buffer /\ WriteAvailable(outBuf[e]) >= 0 /\ n \in 0..Len(outBuf[e].bytes)
  BY LenProperties DEF TypeOK, Buffer, ReadAvailable
<1>2. MoveReadIndex(outBuf[e], n) \in Buffer /\ WriteAvailable(MoveReadIndex(outBuf[e], n)) >= 0
  BY <1>1, MoveReadIndexType
<1>3. outBuf' = [outBuf EXCEPT ![e] = MoveReadIndex(outBuf[e], n)] /\ UNCHANGED inBuf
  BY DEF WriteLost
<1>4. BuffersOK' /\ IndexInv'
  BY <1>2, <1>3, OutBufUpdate
<1>5. ControlOK'
  BY WrittenType, TypeParts DEF WriteLost, ControlOK
<1> QED
  BY <1>4, <1>5, TypePartsNext

LEMMA ClosedType ==
  ASSUME TypeOK, NEW e \in Ends, Closed(e)
  PROVE  /\ reading' \in [Ends -> BOOLEAN] /\ writing' \in [Ends -> BOOLEAN]
         /\ wire' \in [Ends -> Seq(Byte)]
  BY EmptySeq DEF TypeOK, Closed

LEMMA NextInv == TypeOK /\ IndexInv /\ [Next]_vars => TypeOK' /\ IndexInv'
<1> SUFFICES ASSUME TypeOK, IndexInv, [Next]_vars PROVE TypeOK' /\ IndexInv'
  OBVIOUS
<1>1. ASSUME UNCHANGED <<inBuf, outBuf>>, ControlOK' PROVE TypeOK' /\ IndexInv'
  BY <1>1, SameBuffers, TypePartsNext
<1>2. CASE UNCHANGED vars
  BY <1>1, <1>2, TypeParts DEF vars, ControlOK
<1>3. ASSUME NEW q \in Requests, WriteMessage(q) PROVE TypeOK' /\ IndexInv'
  <2>1. Append(m_write_cb, Request(q)) \in Seq(Messages)
    BY RequestType, AppendProperties DEF TypeOK
  <2> QED
    BY <1>1, <1>3, <2>1, TypeParts DEF WriteMessage, ControlOK
<1>4. ASSUME NEW e \in Ends, OnRead(e) \/ ReadNothing(e) \/ DecodeDone(e) \/ OnWrite(e) \/ EncodeDone(e)
      PROVE  TypeOK' /\ IndexInv'
  <2>1. ControlOK
    BY TypeParts
  <2>2. CASE OnRead(e)
    BY <1>1, <2>1, <2>2 DEF OnRead, GoTo, ControlOK
  <2>3. CASE ReadNothing(e)
    BY <1>1, <2>1, <2>3 DEF ReadNothing, GoTo, ControlOK
  <2>4. CASE DecodeDone(e)
    <3>1. pc' \in [Ends -> {"idle", "read", "decode", "encode", "write"}]
      BY <2>1, <2>4 DEF DecodeDone, GoTo, ControlOK
    <3>2. UNCHANGED <<inBuf, outBuf, wire, reading, writing, todo, m_write_cb, m_read_cb, status,
                      conn, refused, received>>
      BY <2>4 DEF DecodeDone
    <3>3. ControlOK'
      BY <2>1, <3>1, <3>2 DEF ControlOK
    <3> QED
      BY <1>1, <3>2, <3>3
  <2>5. CASE OnWrite(e)
    BY <1>1, <2>1, <2>5 DEF OnWrite, GoTo, ControlOK
  <2>6. CASE EncodeDone(e)
    BY <1>1, <2>1, <2>6 DEF EncodeDone, GoTo, ControlOK
  <2> QED
    BY <1>4, <2>2, <2>3, <2>4, <2>5, <2>6
<1>5. ASSUME NEW e \in Ends, WriteBlocked(e) PROVE TypeOK' /\ IndexInv'
  BY <1>1, <1>5, WrittenType, TypeParts DEF WriteBlocked, ControlOK
<1>6. ASSUME NEW e \in Ends, ReadFails(e) \/ WriteFails(e) PROVE TypeOK' /\ IndexInv'
  BY <1>1, <1>6, TypeParts DEF ReadFails, WriteFails, GoTo, ControlOK
<1>7. ASSUME NEW e \in Ends, ReadEnd(e) \/ WriteKills(e) PROVE TypeOK' /\ IndexInv'
  BY <1>1, <1>7, ClosedType, TypeParts DEF ReadEnd, WriteKills, GoTo, ControlOK
<1>8. ASSUME NEW e \in Ends, Hangup(e) PROVE TypeOK' /\ IndexInv'
  BY <1>1, <1>8, ClosedType, TypeParts DEF Hangup, ControlOK
<1>9. ASSUME NEW e \in Ends, EndStep(e) PROVE TypeOK' /\ IndexInv'
  BY <1>4, <1>5, <1>6, <1>7, <1>9, ReadInv, DecodeInv, MisreadInv, WriteInv, WriteLostInv,
     EncodeInv
  DEF EndStep
<1> QED
  BY <1>2, <1>3, <1>8, <1>9 DEF Next

(* Every variable of the byte stream keeps its type.                        *)
THEOREM TypeCorrect == Spec => []TypeOK
  BY InitInv, NextInv, PTL DEF Spec

(* onRead never calls read() with no room, which it would take for a close. *)
THEOREM RoomSafe == Spec => []ReadHasRoom
<1>1. TypeOK /\ IndexInv => ReadHasRoom
  BY RoomToRead DEF ReadHasRoom
<1> QED
  BY <1>1, InitInv, NextInv, PTL DEF Spec

(* Bytes are refused by a read.                                             *)
LEMMA RefusedGrows ==
  ASSUME [Next]_vars
  PROVE  refused \subseteq refused' /\ \A x \in Ends : x \in refused' \ refused => ReadSome(x)
<1>1. UNCHANGED vars \/ (\E q \in Requests : WriteMessage(q)) => refused' = refused
  BY DEF vars, WriteMessage
<1>2. ASSUME NEW x \in Ends, EndStep(x) \/ Hangup(x) PROVE refused' = refused \/ ReadSome(x)
  BY <1>2 DEF EndStep, OnRead, ReadNothing, Decode, Misread, DecodeDone, OnWrite, Encode,
              EncodeDone, WriteSome, WriteBlocked, WriteLost, WriteFails, WriteKills, ReadEnd,
              ReadFails, Hangup
<1>3. ASSUME NEW x \in Ends, ReadSome(x) PROVE refused' = refused \/ refused' = refused \cup {x}
  BY <1>3 DEF ReadSome
<1>4. refused' = refused \/ \E x \in Ends : ReadSome(x) /\ refused' = refused \cup {x}
  BY <1>1, <1>2, <1>3 DEF Next
<1> QED
  BY <1>4

LEMMA LargeWhenRefused ==
  ASSUME TypeOK, IndexInv, [Next]_vars, NEW e \in Ends, e \in refused' \ refused
  PROVE  2 * (ReadAvailable(inBuf[e]) + Len(wire[e]) - Len(wire'[e])) > inBuf[e].size
<1>1. ReadSome(e)
  BY RefusedGrows
<1>2. PICK n \in 1..Len(wire[e]) :
        /\ Refuses(inBuf[e], SubSeq(wire[e], 1, n))
        /\ wire' = [wire EXCEPT ![e] = SubSeq(wire[e], n + 1, Len(wire[e]))]
  BY <1>1, RoomToRead DEF ReadSome
<1>3. wire[e] \in Seq(Byte) /\ Len(wire[e]) \in Nat /\ wire \in [Ends -> Seq(Byte)]
  BY LenProperties DEF TypeOK
<1>4. /\ Len(SubSeq(wire[e], 1, n)) = n
      /\ Len(SubSeq(wire[e], n + 1, Len(wire[e]))) = Len(wire[e]) - n
  BY <1>3, SubSeqType
<1>5. Len(wire'[e]) = Len(wire[e]) - n
  BY <1>2, <1>3, <1>4
<1>6. /\ InBounds(inBuf[e]) /\ inBuf[e].read \in Nat /\ Len(inBuf[e].bytes) \in Nat
  BY RoomToRead, LenProperties DEF Buffer
<1>7. inBuf[e].read + Len(inBuf[e].bytes) + n >= BufferSize
  BY <1>2, <1>4, <1>6 DEF Refuses, InBounds, WriteIndex
<1>8. 2 * (Len(inBuf[e].bytes) + n) > BufferSize
  BY <1>3, <1>6, <1>7, HalfBound, BufferSizeAssumption DEF InBounds
<1> QED
  BY <1>3, <1>5, <1>6, <1>8 DEF ReadAvailable, InBounds

(* Only bytes that fill more than half of the input buffer are refused.     *)
THEOREM SmallAccepted == Spec => RefusesOnlyLarge
<1>1. TypeOK /\ IndexInv /\ [Next]_vars =>
        [\A e \in Ends : e \in refused' \ refused =>
           2 * (ReadAvailable(inBuf[e]) + Len(wire[e]) - Len(wire'[e])) > inBuf[e].size]_vars
  BY LargeWhenRefused
<1> QED
  BY <1>1, InitInv, NextInv, PTL DEF Spec, RefusesOnlyLarge

-----------------------------------------------------------------------------
(* The messages that end in a run of bytes, by induction over it.           *)

LEMMA LeastNumber ==
  ASSUME NEW S \in SUBSET Nat, S # {}
  PROVE  \E k \in S : \A j \in S : k <= j
<1> DEFINE R == OpToRel(<, Nat)
<1>1. IsWellFoundedOn(R, Nat)
  BY NatLessThanWellFounded
<1>2. \A x, y \in Nat : x < y => <<x, y>> \in R
  BY DEF OpToRel
<1> HIDE DEF R
<1>3. PICK x \in S : \A y \in S : ~ (<<y, x>> \in R)
  BY <1>1, WFMin
<1>4. ASSUME NEW y \in S PROVE x <= y
  <2>1. x \in Nat /\ y \in Nat /\ ~ (y < x)
    BY <1>2, <1>3
  <2> QED
    BY <2>1
<1> QED
  BY <1>3, <1>4

(* What holds of 0 and of each number after one it holds of.                *)
LEMMA Counting ==
  ASSUME NEW n \in Nat, NEW T, 0 \in T, \A i \in 0..n - 1 : i \in T => i + 1 \in T
  PROVE  0..n \subseteq T
<1> DEFINE Bad == {i \in 0..n : i \notin T}
<1> SUFFICES ASSUME Bad # {} PROVE FALSE
  OBVIOUS
<1>1. PICK m \in Bad : \A j \in Bad : m <= j
  <2>1. Bad \in SUBSET Nat
    OBVIOUS
  <2> HIDE DEF Bad
  <2> QED
    BY <2>1, LeastNumber
<1>2. m \in 0..n /\ m \notin T /\ m # 0
  OBVIOUS
<1>3. m - 1 \in 0..n - 1 /\ m - 1 \in 0..n /\ m - 1 \notin Bad
  BY <1>1, <1>2
<1>4. m - 1 \in T
  BY <1>3
<1>5. m - 1 + 1 \in T
  BY <1>3, <1>4
<1> QED
  BY <1>2, <1>5

(* The recursion of MessagesOf: upTo[n] is what ends in the first n bytes.  *)
EndsIn(upTo, bytes, len) ==
  upTo = [n \in 0..len |->
            IF n = 0 THEN <<>>
            ELSE IF IsEnd(bytes[n]) THEN Append(upTo[n - 1], bytes[n].msg)
            ELSE upTo[n - 1]]

LEMMA EndsExist ==
  ASSUME NEW s, NEW len \in Nat
  PROVE  \E upTo : EndsIn(upTo, s, len)
<1> DEFINE T == {n \in Nat : \E upTo : EndsIn(upTo, s, n)}
<1>1. 0 \in T
  <2> DEFINE f == [n \in 0..0 |-> <<>>]
  <2>1. \A n \in 0..0 : n = 0
    OBVIOUS
  <2>2. f = [n \in 0..0 |-> IF n = 0 THEN <<>>
                            ELSE IF IsEnd(s[n]) THEN Append(f[n - 1], s[n].msg) ELSE f[n - 1]]
    BY <2>1
  <2> HIDE DEF f
  <2>3. EndsIn(f, s, 0)
    BY <2>2 DEF EndsIn
  <2> QED
    BY <2>3
<1>2. ASSUME NEW i \in 0..len - 1, i \in T PROVE i + 1 \in T
  <2>1. PICK f : EndsIn(f, s, i)
    BY <1>2
  <2>2. PICK m \in Nat : m = i + 1
    BY <1>2
  <2>3. \A n \in 0..i :
          f[n] = IF n = 0 THEN <<>>
                 ELSE IF IsEnd(s[n]) THEN Append(f[n - 1], s[n].msg) ELSE f[n - 1]
    BY <2>1 DEF EndsIn
  <2> DEFINE g == [n \in 0..m |->
                     IF n = m THEN IF IsEnd(s[m]) THEN Append(f[i], s[m].msg) ELSE f[i] ELSE f[n]]
  <2>4. ASSUME NEW n \in 0..m
        PROVE  g[n] = IF n = 0 THEN <<>>
                      ELSE IF IsEnd(s[n]) THEN Append(g[n - 1], s[n].msg) ELSE g[n - 1]
    <3>1. CASE n = m
      <4>1. n # 0 /\ n - 1 = i /\ i \in 0..m /\ i # m
        BY <2>2, <3>1
      <4>2. g[i] = f[i] /\ g[n] = IF IsEnd(s[m]) THEN Append(f[i], s[m].msg) ELSE f[i]
        BY <3>1, <4>1
      <4> HIDE DEF g
      <4> QED
        BY <3>1, <4>1, <4>2
    <3>2. CASE n # m
      <4>1. n \in 0..i /\ (n # 0 => n - 1 \in 0..m /\ n - 1 # m)
        BY <2>2, <3>2
      <4>2. g[n] = f[n] /\ (n # 0 => g[n - 1] = f[n - 1])
        BY <3>2, <4>1
      <4> HIDE DEF g
      <4> QED
        BY <2>3, <4>1, <4>2
    <3> QED
      BY <3>1, <3>2
  <2>5. g = [n \in 0..m |-> IF n = 0 THEN <<>>
                            ELSE IF IsEnd(s[n]) THEN Append(g[n - 1], s[n].msg) ELSE g[n - 1]]
    <3> DEFINE h == [n \in 0..m |-> IF n = 0 THEN <<>>
                        ELSE IF IsEnd(s[n]) THEN Append(g[n - 1], s[n].msg) ELSE g[n - 1]]
    <3>1. \A n \in 0..m : h[n] = g[n]
      BY <2>4
    <3>2. g = [n \in 0..m |-> g[n]] /\ h = [n \in 0..m |-> h[n]]
      OBVIOUS
    <3> HIDE DEF g, h
    <3>3. g = h
      BY <3>1, <3>2
    <3> QED
      BY <3>3 DEF h
  <2> HIDE DEF g
  <2>6. EndsIn(g, s, m)
    BY <2>5 DEF EndsIn
  <2> QED
    BY <2>2, <2>6
<1> HIDE DEF T
<1>3. 0..len \subseteq T
  BY <1>1, <1>2, Counting
<1>4. len \in T
  BY <1>3
<1> QED
  BY <1>4 DEF T

(* The messages of s, byte by byte.                                         *)
Parses(upTo, s) ==
  /\ upTo[0] = <<>>
  /\ \A i \in 0..Len(s) - 1 :
       upTo[i + 1] = IF IsEnd(s[i + 1]) THEN Append(upTo[i], s[i + 1].msg) ELSE upTo[i]
  /\ \A i \in 0..Len(s) : upTo[i] \in Seq(Messages)
  /\ MessagesOf(s) = upTo[Len(s)]

LEMMA ParseExists ==
  ASSUME NEW s \in Seq(Byte)
  PROVE  \E upTo : Parses(upTo, s)
<1> DEFINE f == CHOOSE upTo : EndsIn(upTo, s, Len(s))
<1>1. Len(s) \in Nat /\ \A i \in 1..Len(s) : s[i] \in Byte
  BY LenProperties, ElementOfSeq
<1>2. EndsIn(f, s, Len(s))
  BY <1>1, EndsExist
<1>3. MessagesOf(s) = f[Len(s)]
  BY DEF MessagesOf, EndsIn
<1> HIDE DEF f
<1>4. \A n \in 0..Len(s) :
        f[n] = IF n = 0 THEN <<>>
               ELSE IF IsEnd(s[n]) THEN Append(f[n - 1], s[n].msg) ELSE f[n - 1]
  BY <1>2 DEF EndsIn
<1>5. f[0] = <<>>
  BY <1>1, <1>4
<1>6. ASSUME NEW i \in 0..Len(s) - 1
      PROVE  f[i + 1] = IF IsEnd(s[i + 1]) THEN Append(f[i], s[i + 1].msg) ELSE f[i]
  <2>1. PICK n \in 0..Len(s) : n = i + 1
    BY <1>1
  <2>2. n # 0 /\ n - 1 = i
    BY <1>1, <2>1
  <2> QED
    BY <1>4, <2>1, <2>2
<1> DEFINE T == {i \in 0..Len(s) : f[i] \in Seq(Messages)}
<1>7. 0 \in T
  <2>1. 0 \in 0..Len(s) /\ f[0] \in Seq(Messages)
    BY <1>1, <1>5, EmptySeq
  <2> QED
    BY <2>1
<1>8. ASSUME NEW i \in 0..Len(s) - 1, i \in T PROVE i + 1 \in T
  <2>1. PICK n \in 1..Len(s) : n = i + 1
    BY <1>1
  <2>2. s[n].msg \in Messages /\ n \in 0..Len(s)
    BY <1>1 DEF Byte
  <2>3. f[n] = IF IsEnd(s[n]) THEN Append(f[i], s[n].msg) ELSE f[i]
    BY <1>6, <2>1
  <2>4. f[n] \in Seq(Messages)
    BY <1>8, <2>2, <2>3, AppendProperties
  <2> QED
    BY <2>1, <2>2, <2>4
<1>9. 0..Len(s) \subseteq T
  <2> HIDE DEF T
  <2> QED
    BY <1>1, <1>7, <1>8, Counting
<1> QED
  BY <1>3, <1>5, <1>6, <1>9 DEF Parses

LEMMA MessagesType ==
  ASSUME NEW s \in Seq(Byte)
  PROVE  MessagesOf(s) \in Seq(Messages)
<1>1. Len(s) \in Nat /\ Len(s) \in 0..Len(s)
  BY LenProperties
<1>2. PICK f : Parses(f, s)
  BY ParseExists
<1> QED
  BY <1>1, <1>2 DEF Parses

(* Concatenation is associative. As a predicate of the three sequences, so  *)
(* that a prover uses it for those alone.                                   *)
Regroups(a, b, c) == (a \o b) \o c = a \o (b \o c)

LEMMA Associative ==
  ASSUME NEW S, NEW a \in Seq(S), NEW b \in Seq(S), NEW c \in Seq(S)
  PROVE  Regroups(a, b, c)
  BY ConcatAssociative DEF Regroups

LEMMA AppendConcat ==
  ASSUME NEW a \in Seq(Messages), NEW b \in Seq(Messages), NEW x \in Messages
  PROVE  Append(a \o b, x) = a \o Append(b, x)
<1>1. <<x>> \in Seq(Messages) /\ a \o b \in Seq(Messages)
  BY ConcatProperties
<1>2. Append(a \o b, x) = (a \o b) \o <<x>> /\ Append(b, x) = b \o <<x>>
  BY <1>1, AppendIsConcat
<1>3. Regroups(a, b, <<x>>)
  BY <1>1, Associative
<1> QED
  BY <1>2, <1>3 DEF Regroups

(* What ends in two runs of bytes, one behind the other.                    *)
LEMMA MessagesConcat ==
  ASSUME NEW s \in Seq(Byte), NEW t \in Seq(Byte)
  PROVE  MessagesOf(s \o t) = MessagesOf(s) \o MessagesOf(t)
<1> DEFINE u == s \o t
           m == Len(s)
           n == Len(t)
<1>1. /\ m \in Nat /\ n \in Nat /\ u \in Seq(Byte) /\ Len(u) = m + n
      /\ \A i \in 1..m + n : u[i] = IF i <= m THEN s[i] ELSE t[i - m]
      /\ \A i \in 1..m + n : u[i].msg \in Messages
  <2>1. /\ m \in Nat /\ n \in Nat /\ u \in Seq(Byte) /\ Len(u) = m + n
        /\ \A i \in 1..m + n : u[i] = IF i <= m THEN s[i] ELSE t[i - m]
    BY LenProperties, ConcatProperties
  <2>2. \A i \in 1..Len(u) : u[i] \in Byte
    BY <2>1, ElementOfSeq
  <2> QED
    BY <2>1, <2>2 DEF Byte
<1>2. PICK f : Parses(f, s)
  BY ParseExists
<1>3. PICK g : Parses(g, t)
  BY ParseExists
<1>4. PICK h : Parses(h, u)
  BY <1>1, ParseExists
<1> HIDE DEF u, m, n
<1> DEFINE F == {i \in 0..m : h[i] = f[i]}
           G == {j \in 0..n : h[m + j] = f[m] \o g[j]}
<1>5. /\ f[0] = <<>> /\ g[0] = <<>> /\ h[0] = <<>>
      /\ \A i \in 0..m - 1 : f[i + 1] = IF IsEnd(s[i + 1]) THEN Append(f[i], s[i + 1].msg) ELSE f[i]
      /\ \A i \in 0..n - 1 : g[i + 1] = IF IsEnd(t[i + 1]) THEN Append(g[i], t[i + 1].msg) ELSE g[i]
      /\ \A i \in 0..m + n - 1 : h[i + 1] = IF IsEnd(u[i + 1]) THEN Append(h[i], u[i + 1].msg) ELSE h[i]
      /\ \A i \in 0..m : f[i] \in Seq(Messages)
      /\ \A i \in 0..n : g[i] \in Seq(Messages)
      /\ MessagesOf(s) = f[m] /\ MessagesOf(t) = g[n] /\ MessagesOf(u) = h[m + n]
  BY <1>1, <1>2, <1>3, <1>4 DEF Parses, m, n
<1>6. 0..m \subseteq F
  <2>1. 0 \in F
    BY <1>1, <1>5
  <2>2. ASSUME NEW i \in 0..m - 1, i \in F PROVE i + 1 \in F
    <3>1. PICK j \in 1..m : j = i + 1
      BY <1>1
    <3>2. i \in 0..m + n - 1 /\ j \in 1..m + n /\ j <= m /\ j \in 0..m
      BY <1>1, <3>1
    <3>3. u[j] = s[j]
      BY <1>1, <3>2
    <3>4. /\ f[j] = IF IsEnd(s[j]) THEN Append(f[i], s[j].msg) ELSE f[i]
          /\ h[j] = IF IsEnd(u[j]) THEN Append(h[i], u[j].msg) ELSE h[i]
      BY <1>5, <3>1, <3>2
    <3>5. h[j] = f[j]
      BY <2>2, <3>3, <3>4
    <3> QED
      BY <3>1, <3>2, <3>5
  <2> HIDE DEF F
  <2> QED
    BY <1>1, <2>1, <2>2, Counting
<1>7. h[m] = f[m] /\ f[m] \in Seq(Messages)
  BY <1>1, <1>5, <1>6
<1>8. 0..n \subseteq G
  <2>1. 0 \in G
    <3>1. f[m] \o <<>> = f[m]
      BY <1>7, ConcatEmptySeq
    <3>2. m + 0 = m /\ 0 \in 0..n
      BY <1>1
    <3> QED
      BY <1>5, <1>7, <3>1, <3>2
  <2>2. ASSUME NEW i \in 0..n - 1, i \in G PROVE i + 1 \in G
    <3>1. PICK j \in 1..n : j = i + 1
      BY <1>1
    <3>2. PICK k : k = m + i
      OBVIOUS
    <3>3. PICK l : l = m + j
      OBVIOUS
    <3>4. /\ k \in 0..m + n - 1 /\ l = k + 1 /\ l \in 1..m + n /\ ~(l <= m) /\ l - m = j
          /\ i \in 0..n /\ j \in 0..n
      BY <1>1, <3>1, <3>2, <3>3
    <3>5. u[l] = t[j] /\ t[j].msg \in Messages
      BY <1>1, <3>4
    <3>6. /\ g[j] = IF IsEnd(t[j]) THEN Append(g[i], t[j].msg) ELSE g[i]
          /\ h[l] = IF IsEnd(u[l]) THEN Append(h[k], u[l].msg) ELSE h[k]
      BY <1>5, <3>1, <3>4
    <3>7. h[k] = f[m] \o g[i] /\ g[i] \in Seq(Messages)
      BY <1>5, <2>2, <3>2, <3>4
    <3>8. Append(f[m] \o g[i], t[j].msg) = f[m] \o Append(g[i], t[j].msg)
      <4>1. PICK a \in Seq(Messages), b \in Seq(Messages), x \in Messages :
              a = f[m] /\ b = g[i] /\ x = t[j].msg
        BY <1>7, <3>5, <3>7
      <4>2. Append(a \o b, x) = a \o Append(b, x)
        BY AppendConcat
      <4> QED
        BY <4>1, <4>2
    <3>9. h[l] = f[m] \o g[j]
      BY <3>5, <3>6, <3>7, <3>8
    <3> QED
      BY <3>1, <3>3, <3>4, <3>9
  <2> HIDE DEF G
  <2> QED
    BY <1>1, <2>1, <2>2, Counting
<1>9. h[m + n] = f[m] \o g[n]
  <2>1. n \in 0..n
    BY <1>1
  <2> QED
    BY <1>8, <2>1
<1> QED
  BY <1>5, <1>9 DEF u

LEMMA MessagesEmpty == MessagesOf(<<>>) = <<>>
<1>1. <<>> \in Seq(Byte) /\ Len(<<>>) = 0
  BY EmptySeq
<1>2. PICK f : Parses(f, <<>>)
  BY <1>1, ParseExists
<1> QED
  BY <1>1, <1>2 DEF Parses

(* The bytes of one message end one.                                        *)
LEMMA MessagesOne ==
  ASSUME NEW m \in Messages
  PROVE  MessagesOf(Bytes(m)) = <<m>>
<1> DEFINE n == Length(m)
           s == Bytes(m)
<1>1. n \in Nat \ {0} /\ s \in Seq(Byte) /\ Len(s) = n
  BY MessageType, RequestLenAssumption, AnswerLenAssumption DEF Messages, Request, Answer, Length
<1>2. \A i \in 1..n : s[i].msg = m /\ s[i].pos = i
  BY DEF Bytes
<1>3. PICK f : Parses(f, s)
  BY <1>1, ParseExists
<1> HIDE DEF s
<1>4. \A i \in 1..n : IsEnd(s[i]) <=> i = n
  BY <1>2 DEF IsEnd
<1> HIDE DEF n
<1>5. /\ f[0] = <<>> /\ MessagesOf(s) = f[n]
      /\ \A i \in 0..n - 1 : f[i + 1] = IF IsEnd(s[i + 1]) THEN Append(f[i], s[i + 1].msg) ELSE f[i]
  BY <1>1, <1>3 DEF Parses
<1> DEFINE T == {i \in 0..n : i < n => f[i] = <<>>}
<1>6. 0..n \subseteq T
  <2>1. 0 \in T
    BY <1>1, <1>5
  <2>2. ASSUME NEW i \in 0..n - 1, i \in T PROVE i + 1 \in T
    <3>1. PICK j \in 1..n : j = i + 1
      BY <1>1
    <3>2. f[j] = IF IsEnd(s[j]) THEN Append(f[i], s[j].msg) ELSE f[i]
      BY <1>5, <3>1
    <3>3. i < n /\ j \in 0..n /\ f[i] = <<>>
      BY <1>1, <2>2, <3>1
    <3>4. j < n => f[j] = <<>>
      BY <1>1, <1>4, <3>2, <3>3
    <3> QED
      BY <3>1, <3>3, <3>4
  <2> HIDE DEF T
  <2>3. n \in Nat
    BY <1>1
  <2> QED
    BY <2>1, <2>2, <2>3, Counting
<1>7. PICK k \in 0..n - 1 : n = k + 1 /\ k < n /\ k \in 0..n
  BY <1>1
<1>8. f[k] = <<>>
  BY <1>6, <1>7
<1>9. n \in 1..n /\ IsEnd(s[n]) /\ s[n].msg = m
  BY <1>1, <1>2, <1>4 DEF n
<1>10. f[n] = Append(<<>>, m)
  BY <1>5, <1>7, <1>8, <1>9
<1>11. Append(<<>>, m) = <<m>>
  OBVIOUS
<1> QED
  BY <1>5, <1>10, <1>11 DEF s

-----------------------------------------------------------------------------
(* Streams of whole messages.                                               *)

From(e) == IF e = "client" THEN {Request(q) : q \in Requests} ELSE {Answer(q) : q \in Requests}

(* The bytes of s are messages out of M one behind the other, the last one  *)
(* perhaps cut off.                                                         *)
Framed(s, M) ==
  /\ \A k \in 1..Len(s) : s[k].msg \in M /\ s[k].pos \in 1..Length(s[k].msg)
  /\ \A k \in 1..Len(s) : k = 1 => s[k].pos = 1
  /\ \A k, l \in 1..Len(s) : l = k + 1 =>
       IF IsEnd(s[k]) THEN s[l].pos = 1
       ELSE s[l].msg = s[k].msg /\ s[l].pos = s[k].pos + 1

Whole(s) == \A k \in 1..Len(s) : k = Len(s) => IsEnd(s[k])

LEMMA FramedPrefix ==
  ASSUME NEW M, NEW s \in Seq(Byte), NEW t \in Seq(Byte), Framed(s \o t, M)
  PROVE  Framed(s, M)
<1> DEFINE u == s \o t
<1>1. /\ Len(s) \in Nat /\ Len(t) \in Nat /\ Len(u) = Len(s) + Len(t)
      /\ \A k \in 1..Len(s) + Len(t) : u[k] = IF k <= Len(s) THEN s[k] ELSE t[k - Len(s)]
  BY LenProperties, ConcatProperties
<1>2. Framed(u, M)
  OBVIOUS
<1> HIDE DEF u
<1>3. \A k \in 1..Len(s) : k \in 1..Len(u) /\ u[k] = s[k]
  BY <1>1
<1>4. /\ \A k \in 1..Len(s) : s[k].msg \in M /\ s[k].pos \in 1..Length(s[k].msg)
      /\ \A k \in 1..Len(s) : k = 1 => s[k].pos = 1
  BY <1>2, <1>3 DEF Framed
<1>5. ASSUME NEW k \in 1..Len(s), NEW l \in 1..Len(s), l = k + 1
      PROVE  IF IsEnd(s[k]) THEN s[l].pos = 1 ELSE s[l].msg = s[k].msg /\ s[l].pos = s[k].pos + 1
  <2>1. k \in 1..Len(u) /\ l \in 1..Len(u) /\ u[k] = s[k] /\ u[l] = s[l]
    BY <1>3
  <2>2. IF IsEnd(u[k]) THEN u[l].pos = 1 ELSE u[l].msg = u[k].msg /\ u[l].pos = u[k].pos + 1
    BY <1>2, <1>5, <2>1 DEF Framed
  <2> QED
    BY <2>1, <2>2
<1> QED
  BY <1>4, <1>5 DEF Framed

LEMMA FramedAppend ==
  ASSUME NEW M \in SUBSET Messages, NEW s \in Seq(Byte), Framed(s, M), Whole(s), NEW m \in M
  PROVE  Framed(s \o Bytes(m), M) /\ Whole(s \o Bytes(m))
<1> DEFINE n == Length(m)
           b == Bytes(m)
           u == s \o b
<1>1. n \in Nat \ {0} /\ b \in Seq(Byte) /\ Len(b) = n /\ Len(s) \in Nat
  BY MessageType, RequestLenAssumption, AnswerLenAssumption, LenProperties
  DEF Messages, Request, Answer, Length
<1>2. \A i \in 1..n : b[i].msg = m /\ b[i].pos = i
  BY DEF Bytes
<1>3. /\ Len(u) = Len(s) + n
      /\ \A k \in 1..Len(s) + n : u[k] = IF k <= Len(s) THEN s[k] ELSE b[k - Len(s)]
  BY <1>1, ConcatProperties
<1> HIDE DEF b, u, n
<1>4. ASSUME NEW k \in 1..Len(u)
      PROVE  \/ k \in 1..Len(s) /\ u[k] = s[k]
             \/ k - Len(s) \in 1..n /\ u[k].msg = m /\ u[k].pos = k - Len(s)
  <2>1. CASE k <= Len(s)
    BY <1>1, <1>3, <2>1
  <2>2. CASE ~(k <= Len(s))
    <3>1. PICK j \in 1..n : j = k - Len(s)
      <4>1. k \in Nat /\ k <= Len(s) + n /\ k > Len(s)
        BY <1>1, <1>3, <2>2
      <4>2. k - Len(s) \in 1..n
        BY <1>1, <4>1
      <4> QED
        BY <4>2
    <3>2. u[k] = b[j]
      BY <1>3, <2>2, <3>1
    <3> QED
      BY <1>2, <3>1, <3>2
  <2> QED
    BY <2>1, <2>2
<1>5. ASSUME NEW k \in 1..Len(u) PROVE u[k].msg \in M /\ u[k].pos \in 1..Length(u[k].msg)
  BY <1>4 DEF Framed, n
<1>6. ASSUME NEW k \in 1..Len(u), k = 1 PROVE u[k].pos = 1
  <2>1. CASE k \in 1..Len(s) /\ u[k] = s[k]
    BY <1>6, <2>1 DEF Framed
  <2>2. CASE k - Len(s) \in 1..n /\ u[k].msg = m /\ u[k].pos = k - Len(s)
    BY <1>1, <1>6, <2>2
  <2> QED
    BY <1>4, <2>1, <2>2
<1>7. ASSUME NEW k \in 1..Len(u), NEW l \in 1..Len(u), l = k + 1
      PROVE  IF IsEnd(u[k]) THEN u[l].pos = 1 ELSE u[l].msg = u[k].msg /\ u[l].pos = u[k].pos + 1
  <2>1. CASE l \in 1..Len(s)
    <3>1. k \in 1..Len(s)
      BY <1>1, <1>7, <2>1
    <3>2. u[k] = s[k] /\ u[l] = s[l]
      BY <1>1, <1>3, <2>1, <3>1
    <3> QED
      BY <1>7, <2>1, <3>1, <3>2 DEF Framed
  <2>2. CASE l \notin 1..Len(s)
    <3>1. l - Len(s) \in 1..n /\ u[l].msg = m /\ u[l].pos = l - Len(s)
      BY <1>4, <2>2
    <3>2. CASE k \in 1..Len(s)
      <4>1. k = Len(s) /\ u[k] = s[k]
        BY <1>1, <1>3, <1>7, <2>2, <3>2
      <4>2. IsEnd(u[k]) /\ l - Len(s) = 1
        BY <1>1, <1>7, <3>2, <4>1 DEF Whole
      <4> QED
        BY <3>1, <4>2
    <3>3. CASE k \notin 1..Len(s)
      <4>1. k - Len(s) \in 1..n /\ u[k].msg = m /\ u[k].pos = k - Len(s)
        BY <1>4, <3>3
      <4>2. ~ IsEnd(u[k])
        BY <1>1, <1>7, <3>1, <4>1 DEF IsEnd, n
      <4> QED
        BY <1>1, <1>7, <3>1, <4>1, <4>2
    <3> QED
      BY <3>2, <3>3
  <2> QED
    BY <2>1, <2>2
<1>8. ASSUME NEW k \in 1..Len(u), k = Len(u) PROVE IsEnd(u[k])
  <2>1. k \notin 1..Len(s) /\ k - Len(s) = n
    BY <1>1, <1>3, <1>8
  <2> QED
    BY <1>4, <2>1 DEF IsEnd, n
<1>9. Framed(u, M)
  BY <1>5, <1>6, <1>7 DEF Framed
<1>10. Whole(u)
  BY <1>8 DEF Whole
<1> QED
  BY <1>9, <1>10 DEF u, b

(* A framed stream begins with the bytes of its first message.              *)
LEMMA FramedFront ==
  ASSUME NEW M \in SUBSET Messages, NEW s \in Seq(Byte), NEW t \in Seq(Byte), Framed(s \o t, M),
         s # <<>>
  PROVE  LET m == Head(s).msg IN
         m \in M /\ \A k \in 1..Length(m) : k <= Len(s) => s[k] = Bytes(m)[k]
<1> DEFINE m == Head(s).msg
           n == Length(m)
           u == s \o t
<1>1. /\ Len(s) \in Nat \ {0} /\ Len(t) \in Nat /\ Len(u) = Len(s) + Len(t)
      /\ \A k \in 1..Len(s) + Len(t) : u[k] = IF k <= Len(s) THEN s[k] ELSE t[k - Len(s)]
      /\ \A k \in 1..Len(s) : s[k] \in Byte
  BY LenProperties, EmptySeq, ConcatProperties, ElementOfSeq
<1>2. Framed(u, M)
  OBVIOUS
<1>3. Head(s) = s[1] /\ 1 \in 1..Len(s)
  BY <1>1
<1> HIDE DEF u
<1>4. \A k \in 1..Len(s) : k \in 1..Len(u) /\ u[k] = s[k]
  BY <1>1
<1>5. m = s[1].msg /\ m \in M /\ s[1].pos = 1
  BY <1>2, <1>3, <1>4 DEF Framed
<1>6. n \in Nat \ {0}
  BY <1>5, MessageType, RequestLenAssumption, AnswerLenAssumption
  DEF Messages, Request, Answer, Length
<1> HIDE DEF m, n
<1> DEFINE T == {i \in 0..n : i # 0 /\ i <= Len(s) => s[i].msg = m /\ s[i].pos = i}
<1>7. 0 \in T
  BY <1>6
<1>8. ASSUME NEW i \in 0..n - 1, i \in T PROVE i + 1 \in T
  <2>1. PICK j \in 1..n : j = i + 1
    BY <1>6
  <2>2. CASE i = 0
    BY <1>5, <1>6, <2>1, <2>2
  <2>3. CASE i # 0 /\ j <= Len(s)
    <3>1. i \in 1..Len(s) /\ j \in 1..Len(s) /\ i # n /\ i \in Nat
      BY <1>1, <1>6, <2>1, <2>3
    <3>2. s[i].msg = m /\ s[i].pos = i
      BY <1>8, <2>3, <3>1
    <3>3. ~ IsEnd(u[i]) /\ u[i].msg = m /\ u[i].pos = i
      BY <1>4, <3>1, <3>2 DEF IsEnd, n
    <3>4. u[j].msg = u[i].msg /\ u[j].pos = u[i].pos + 1
      BY <1>2, <1>4, <2>1, <3>1, <3>3 DEF Framed
    <3>5. s[j].msg = m /\ s[j].pos = j
      BY <1>4, <2>1, <3>1, <3>3, <3>4
    <3> QED
      BY <2>1, <3>1, <3>5
  <2>4. CASE ~(j <= Len(s))
    BY <1>6, <2>1, <2>4
  <2> QED
    BY <2>2, <2>3, <2>4
<1>9. 0..n \subseteq T
  <2> HIDE DEF T
  <2>1. n \in Nat
    BY <1>6
  <2> QED
    BY <1>7, <1>8, <2>1, Counting
<1>10. ASSUME NEW k \in 1..n, k <= Len(s) PROVE s[k] = Bytes(m)[k]
  <2>1. k \in 0..n /\ k # 0 /\ k \in 1..Len(s)
    BY <1>1, <1>6, <1>10
  <2>2. s[k] \in Byte /\ s[k].msg = m /\ s[k].pos = k
    BY <1>1, <1>9, <1>10, <2>1
  <2>3. Bytes(m)[k] = [msg |-> m, pos |-> k]
    BY DEF Bytes, n
  <2> QED
    BY <2>2, <2>3 DEF Byte
<1> QED
  BY <1>5, <1>10 DEF m, n

(* When all bytes of the first message are there, they are what decode cuts *)
(* off, and the rest is framed as well.                                     *)
LEMMA FramedDecode ==
  ASSUME NEW M \in SUBSET Messages, NEW s \in Seq(Byte), NEW t \in Seq(Byte), Framed(s \o t, M),
         NEW m, s # <<>>, m = Head(s).msg, Length(m) <= Len(s)
  PROVE  LET r == SubSeq(s, Length(m) + 1, Len(s)) IN
         /\ m \in M /\ s = Bytes(m) \o r /\ r \in Seq(Byte)
         /\ Framed(r \o t, M) /\ (Whole(s \o t) => Whole(r \o t))
<1> DEFINE n == Length(m)
           r == SubSeq(s, n + 1, Len(s))
           u == s \o t
           v == r \o t
<1>1. /\ Len(s) \in Nat \ {0} /\ Len(t) \in Nat /\ Len(u) = Len(s) + Len(t)
      /\ \A k \in 1..Len(s) + Len(t) : u[k] = IF k <= Len(s) THEN s[k] ELSE t[k - Len(s)]
      /\ \A k \in 1..Len(s) : s[k] \in Byte
  BY LenProperties, EmptySeq, ConcatProperties, ElementOfSeq
<1>2. Framed(u, M)
  OBVIOUS
<1>3. Head(s) = s[1] /\ 1 \in 1..Len(s)
  BY <1>1
<1> HIDE DEF u
<1>4. \A k \in 1..Len(s) : k \in 1..Len(u) /\ u[k] = s[k]
  BY <1>1
<1>5. m = s[1].msg /\ m \in M /\ s[1].pos = 1
  BY <1>2, <1>3, <1>4 DEF Framed
<1>6. n \in Nat \ {0} /\ Bytes(m) \in Seq(Byte) /\ Len(Bytes(m)) = n /\ n <= Len(s)
  BY <1>5, MessageType, RequestLenAssumption, AnswerLenAssumption
  DEF Messages, Request, Answer, Length
<1>7. /\ r \in Seq(Byte) /\ Len(r) = Len(s) - n
      /\ \A k \in 1..Len(s) - n : r[k] = s[n + k]
  <2>1. \A i \in n + 1..Len(s) : s[i] \in Byte
    BY <1>1, <1>6
  <2>2. n + 1 \in Int /\ Len(s) \in Int /\ n \in Int
    BY <1>1, <1>6
  <2>3. /\ r \in Seq(Byte) /\ Len(r) = IF n + 1 <= Len(s) THEN Len(s) - (n + 1) + 1 ELSE 0
        /\ \A i \in 1..Len(s) - (n + 1) + 1 : r[i] = s[n + 1 + i - 1]
    BY <2>1, <2>2, SubSeqProperties
  <2>4. Len(r) = Len(s) - n /\ Len(s) - (n + 1) + 1 = Len(s) - n
    <3>1. CASE n + 1 <= Len(s)
      BY <1>1, <1>6, <2>3, <3>1
    <3>2. CASE ~(n + 1 <= Len(s))
      BY <1>1, <1>6, <2>3, <3>2
    <3> QED
      BY <3>1, <3>2
  <2>5. \A i \in 1..Len(s) - n : n + 1 + i - 1 = n + i
    BY <1>1, <1>6
  <2> QED
    BY <2>3, <2>4, <2>5
<1>8. /\ v \in Seq(Byte) /\ Len(v) = Len(r) + Len(t)
      /\ \A k \in 1..Len(r) + Len(t) : v[k] = IF k <= Len(r) THEN r[k] ELSE t[k - Len(r)]
  BY <1>7, ConcatProperties
<1> HIDE DEF n, r, v
<1>9. /\ Len(v) = Len(u) - n
      /\ \A k \in 1..Len(v) : n + k \in 1..Len(u) /\ v[k] = u[n + k]
  <2>1. Len(v) = Len(u) - n
    BY <1>1, <1>6, <1>7, <1>8
  <2>2. ASSUME NEW k \in 1..Len(v) PROVE n + k \in 1..Len(u) /\ v[k] = u[n + k]
    <3>1. n + k \in 1..Len(u) /\ k \in Nat
      BY <1>1, <1>6, <2>1
    <3>2. CASE k <= Len(r)
      <4>1. n + k <= Len(s) /\ n + k \in 1..Len(s) /\ k \in 1..Len(s) - n
        BY <1>1, <1>6, <1>7, <3>1, <3>2
      <4>2. v[k] = r[k] /\ r[k] = s[n + k]
        BY <1>7, <1>8, <3>2, <4>1
      <4>3. u[n + k] = s[n + k]
        BY <1>4, <4>1
      <4> QED
        BY <3>1, <4>2, <4>3
    <3>3. CASE ~(k <= Len(r))
      <4>1. ~(n + k <= Len(s)) /\ (n + k) - Len(s) = k - Len(r)
        BY <1>1, <1>6, <1>7, <3>1, <3>3
      <4>2. v[k] = t[k - Len(r)]
        BY <1>8, <3>3
      <4>3. u[n + k] = t[(n + k) - Len(s)]
        BY <1>1, <3>1, <4>1
      <4> QED
        BY <3>1, <4>1, <4>2, <4>3
    <3> QED
      BY <3>2, <3>3
  <2> QED
    BY <2>1, <2>2
<1>10. \A k \in 1..n : s[k] = Bytes(m)[k]
  <2>1. \A k \in 1..n : k <= Len(s)
    BY <1>1, <1>6
  <2> QED
    BY <2>1, FramedFront DEF n
<1>11. s[n].msg = m /\ s[n].pos = n
  <2>1. n \in 1..n /\ n \in 1..Length(m)
    BY <1>6 DEF n
  <2>2. Bytes(m)[n] = [msg |-> m, pos |-> n]
    BY <2>1 DEF Bytes
  <2> QED
    BY <1>10, <2>1, <2>2
<1>12. s = Bytes(m) \o r
  <2> DEFINE b == Bytes(m)
             c == b \o r
  <2>1. /\ c \in Seq(Byte) /\ Len(c) = n + Len(r)
        /\ \A k \in 1..n + Len(r) : c[k] = IF k <= n THEN b[k] ELSE r[k - n]
    <3>1. b \in Seq(Byte) /\ r \in Seq(Byte) /\ Len(b) = n
      BY <1>6, <1>7
    <3> HIDE DEF b
    <3>2. /\ c \in Seq(Byte) /\ Len(c) = Len(b) + Len(r)
          /\ \A k \in 1..Len(b) + Len(r) : c[k] = IF k <= Len(b) THEN b[k] ELSE r[k - Len(b)]
      BY <3>1, ConcatProperties
    <3> QED
      BY <3>1, <3>2
  <2>2. Len(c) = Len(s)
    BY <1>1, <1>6, <1>7, <2>1
  <2> HIDE DEF c
  <2>3. ASSUME NEW k \in 1..Len(s) PROVE s[k] = c[k]
    <3>1. k \in 1..n + Len(r)
      BY <2>1, <2>2
    <3>2. CASE k <= n
      <4>1. k \in 1..n
        BY <1>6, <3>2
      <4> QED
        BY <1>10, <2>1, <3>1, <3>2, <4>1
    <3>3. CASE ~(k <= n)
      <4>1. k - n \in 1..Len(s) - n /\ n + (k - n) = k
        BY <1>1, <1>6, <3>3
      <4>2. r[k - n] = s[n + (k - n)]
        BY <1>7, <4>1
      <4> QED
        BY <2>1, <3>1, <3>3, <4>1, <4>2
    <3> QED
      BY <3>2, <3>3
  <2>4. s = c
    BY <2>1, <2>2, <2>3, SeqEqual
  <2> QED
    BY <2>4 DEF c
<1>13. Framed(v, M)
  <2>1. \A k \in 1..Len(v) : v[k].msg \in M /\ v[k].pos \in 1..Length(v[k].msg)
    BY <1>2, <1>9 DEF Framed
  <2>2. ASSUME NEW k \in 1..Len(v), k = 1 PROVE v[k].pos = 1
    <3>1. n \in 1..Len(s) /\ n \in 1..Len(u) /\ n + k = n + 1 /\ n + k \in 1..Len(u)
      BY <1>1, <1>6, <1>9, <2>2
    <3>2. u[n].msg = m /\ u[n].pos = n
      BY <1>4, <1>11, <3>1
    <3>3. IsEnd(u[n])
      BY <3>2 DEF IsEnd, n
    <3>4. u[n + k].pos = 1
      BY <1>2, <3>1, <3>3 DEF Framed
    <3> QED
      BY <1>9, <3>4
  <2>3. ASSUME NEW k \in 1..Len(v), NEW l \in 1..Len(v), l = k + 1
        PROVE  IF IsEnd(v[k]) THEN v[l].pos = 1 ELSE v[l].msg = v[k].msg /\ v[l].pos = v[k].pos + 1
    <3>1. PICK i \in 1..Len(u), j \in 1..Len(u) : j = i + 1 /\ v[k] = u[i] /\ v[l] = u[j]
      <4>1. n + l = n + k + 1
        BY <1>6, <2>3
      <4> QED
        BY <1>9, <4>1
    <3>2. IF IsEnd(u[i]) THEN u[j].pos = 1 ELSE u[j].msg = u[i].msg /\ u[j].pos = u[i].pos + 1
      BY <1>2, <3>1 DEF Framed
    <3> QED
      BY <3>1, <3>2
  <2> QED
    BY <2>1, <2>2, <2>3 DEF Framed
<1>14. ASSUME Whole(u) PROVE Whole(v)
  <2>1. ASSUME NEW k \in 1..Len(v), k = Len(v) PROVE IsEnd(v[k])
    <3>1. n + k \in 1..Len(u) /\ n + k = Len(u) /\ v[k] = u[n + k]
      BY <1>1, <1>6, <1>9, <2>1
    <3> QED
      BY <1>14, <3>1 DEF Whole
  <2> QED
    BY <2>1 DEF Whole
<1> QED
  BY <1>5, <1>7, <1>12, <1>13, <1>14 DEF n, r, u, v

LEMMA FramedEmpty == \A M : Framed(<<>>, M) /\ Whole(<<>>)
  BY DEF Framed, Whole

LEMMA PeerIs ==
  ASSUME NEW e \in Ends
  PROVE  Peer(e) \in Ends /\ Peer(e) # e /\ Peer(Peer(e)) = e
         /\ \A x \in Ends : x = e \/ x = Peer(e)
  BY DEF Ends, Peer

(* An end that is closed rests for good, and the other end is not up: it    *)
(* has closed too or will find out.                                         *)
ConnOK(e) ==
  /\ conn[e] = "closed" => At(e, "idle") /\ ~reading[e] /\ ~writing[e] /\ conn[Peer(e)] # "up"
  /\ conn[e] \in {"eof", "reset", "spent"} => conn[Peer(e)] = "closed"

(* The client sends requests and the server answers; what the client has    *)
(* taken over to encode is encoded in the same run of onWrite.              *)
QueueInv ==
  /\ m_write_cb \in Seq(From("client"))
  /\ \A e \in Ends : todo[e] \in Seq(From(e))
  /\ ~At("client", "encode") => todo["client"] = <<>>

LEMMA FromType ==
  /\ \A e : From(e) \in SUBSET Messages
  /\ \A q \in Requests : Request(q) \in From("client") /\ Answer(q) \in From("server")
  BY DEF From, Messages

(* What the steps of the two ends do to their sockets.                      *)
LEMMA ConnNext ==
  ASSUME TypeOK, TypeOK', \A e \in Ends : ConnOK(e), [Next]_vars
  PROVE  \A e \in Ends : ConnOK(e)'
<1>1. /\ conn \in [Ends -> {"up", "eof", "reset", "spent", "closed"}]
      /\ pc \in [Ends -> {"idle", "read", "decode", "encode", "write"}]
      /\ reading \in [Ends -> BOOLEAN] /\ writing \in [Ends -> BOOLEAN]
  BY DEF TypeOK
<1>2. ASSUME UNCHANGED conn,
             \A e \in Ends : conn[e] = "closed" => pc'[e] = pc[e] /\ reading'[e] = reading[e] /\ writing'[e] = writing[e]
      PROVE  \A e \in Ends : ConnOK(e)'
  BY <1>2 DEF ConnOK, At
<1>3. CASE UNCHANGED vars
  BY <1>2, <1>3 DEF vars
<1>4. ASSUME NEW q \in Requests, WriteMessage(q) PROVE \A e \in Ends : ConnOK(e)'
  <2>1. /\ UNCHANGED <<conn, pc, reading>> /\ writing' = [writing EXCEPT !["client"] = TRUE]
        /\ conn["client"] # "closed"
    BY <1>4 DEF WriteMessage
  <2>2. \A e \in Ends : conn[e] = "closed" => writing'[e] = writing[e]
    BY <1>1, <2>1 DEF Ends
  <2> QED
    BY <1>2, <2>1, <2>2
<1>5. ASSUME NEW e \in Ends, OnRead(e) \/ ReadNothing(e) \/ DecodeDone(e) \/ OnWrite(e) \/ Decode(e)
                              \/ Misread(e) \/ Encode(e)
      PROVE  \A x \in Ends : ConnOK(x)'
  <2>1. UNCHANGED <<conn, reading, writing>> /\ conn[e] # "closed"
    BY <1>5 DEF OnRead, ReadNothing, DecodeDone, OnWrite, Decode, Misread, Encode, At, ConnOK
  <2>2. \A x \in Ends : x # e => pc'[x] = pc[x]
    BY <1>1, <1>5 DEF OnRead, ReadNothing, DecodeDone, OnWrite, Decode, Misread, Encode, GoTo
  <2> QED
    BY <1>2, <2>1, <2>2
<1>6. ASSUME NEW e \in Ends, ReadSome(e) PROVE \A x \in Ends : ConnOK(x)'
  <2>1. UNCHANGED <<conn, reading, writing>> /\ conn[e] # "closed"
    BY <1>6 DEF ReadSome, At, ConnOK
  <2>2. UNCHANGED pc \/ GoTo(e, "decode")
    BY <1>6 DEF ReadSome
  <2>3. \A x \in Ends : x # e => pc'[x] = pc[x]
    BY <1>1, <2>2 DEF GoTo
  <2> QED
    BY <1>2, <2>1, <2>3
<1>7. ASSUME NEW e \in Ends, EncodeDone(e) PROVE \A x \in Ends : ConnOK(x)'
  <2>1. UNCHANGED <<conn, reading>> /\ conn[e] # "closed"
    BY <1>7 DEF EncodeDone, At, ConnOK
  <2>2. \A x \in Ends : x # e => pc'[x] = pc[x] /\ writing'[x] = writing[x]
    BY <1>1, <1>7 DEF EncodeDone, GoTo
  <2> QED
    BY <1>2, <2>1, <2>2
<1>8. ASSUME NEW e \in Ends, Written(e) PROVE \A x \in Ends : x # e => pc'[x] = pc[x] /\ reading'[x] = reading[x]
  BY <1>1, <1>8 DEF Written, GoTo
<1>9. ASSUME NEW e \in Ends, WriteSome(e) \/ WriteBlocked(e) PROVE \A x \in Ends : ConnOK(x)'
  <2>1. UNCHANGED conn /\ conn[e] # "closed"
    BY <1>9 DEF WriteSome, WriteBlocked
  <2>2. \/ UNCHANGED <<pc, reading, writing>>
        \/ Written(e) /\ (writing' = [writing EXCEPT ![e] = FALSE] \/ UNCHANGED writing)
    BY <1>9 DEF WriteSome, WriteBlocked
  <2>3. \A x \in Ends : x # e => pc'[x] = pc[x] /\ reading'[x] = reading[x] /\ writing'[x] = writing[x]
    BY <1>1, <1>8, <2>2
  <2> QED
    BY <1>2, <2>1, <2>3
<1>10. ASSUME NEW e \in Ends, ReadFails(e) \/ WriteFails(e) \/ WriteLost(e) PROVE \A x \in Ends : ConnOK(x)'
  <2>1. conn' = [conn EXCEPT ![e] = "spent"] /\ conn[e] \in {"eof", "reset"}
    BY <1>10 DEF ReadFails, WriteFails, WriteLost
  <2>2. \A x \in Ends : x # e => pc'[x] = pc[x] /\ reading'[x] = reading[x] /\ writing'[x] = writing[x]
    BY <1>1, <1>8, <1>10 DEF ReadFails, WriteFails, WriteLost, GoTo
  <2>3. ConnOK(e) /\ ConnOK(Peer(e)) /\ conn[Peer(e)] = "closed"
    BY <2>1, PeerIs DEF ConnOK
  <2>4. conn'[e] = "spent" /\ conn'[Peer(e)] = "closed"
    BY <1>1, <2>1, <2>3, PeerIs
  <2>5. ConnOK(e)'
    BY <2>4 DEF ConnOK
  <2>6. ConnOK(Peer(e))'
    BY <2>2, <2>3, <2>4, PeerIs DEF ConnOK, At
  <2> QED
    BY <2>5, <2>6, PeerIs
<1>11. ASSUME NEW e \in Ends, Closed(e), GoTo(e, "idle") \/ (UNCHANGED pc /\ At(e, "idle"))
       PROVE  /\ pc'[e] = "idle" /\ ~reading'[e] /\ ~writing'[e]
              /\ \A x \in Ends : x # e => pc'[x] = pc[x] /\ reading'[x] = reading[x] /\ writing'[x] = writing[x]
  BY <1>1, <1>11 DEF Closed, GoTo, At
<1>12. ASSUME NEW e \in Ends, ReadEnd(e) \/ WriteKills(e) PROVE \A x \in Ends : ConnOK(x)'
  <2>1. conn' = [conn EXCEPT ![e] = "closed"] /\ conn[e] \in {"eof", "spent"} /\ Closed(e) /\ GoTo(e, "idle")
    BY <1>12 DEF ReadEnd, WriteKills
  <2>2. ConnOK(Peer(e)) /\ conn[Peer(e)] = "closed"
    BY <2>1, PeerIs DEF ConnOK
  <2>3. conn'[e] = "closed" /\ conn'[Peer(e)] = "closed"
    BY <1>1, <2>1, <2>2, PeerIs
  <2>4. ConnOK(e)'
    BY <1>11, <2>1, <2>3 DEF ConnOK, At
  <2>5. ConnOK(Peer(e))'
    BY <1>11, <2>1, <2>2, <2>3, PeerIs DEF ConnOK, At
  <2> QED
    BY <2>4, <2>5, PeerIs
<1>13. ASSUME NEW e \in Ends, Hangup(e) PROVE \A x \in Ends : ConnOK(x)'
  <2>1. /\ At(e, "idle") /\ UNCHANGED pc /\ Closed(e)
        /\ conn' = [x \in Ends |-> IF x = e THEN "closed" ELSE IF wire[e] = <<>> THEN "eof" ELSE "reset"]
    BY <1>13 DEF Hangup
  <2>2. conn'[e] = "closed" /\ conn'[Peer(e)] \in {"eof", "reset"}
    BY <2>1, PeerIs
  <2>3. ConnOK(e)'
    BY <1>11, <2>1, <2>2 DEF ConnOK, At
  <2>4. ConnOK(Peer(e))'
    BY <2>2, PeerIs DEF ConnOK
  <2> QED
    BY <2>3, <2>4, PeerIs
<1> QED
  BY <1>3, <1>4, <1>5, <1>6, <1>7, <1>9, <1>10, <1>12, <1>13 DEF Next, EndStep

LEMMA QueueNext ==
  ASSUME TypeOK, TypeOK', IndexInv, QueueInv, [Next]_vars
  PROVE  QueueInv'
<1>1. /\ pc \in [Ends -> {"idle", "read", "decode", "encode", "write"}]
      /\ todo \in [Ends -> Seq(Messages)] /\ "client" \in Ends /\ "server" \in Ends
  BY DEF TypeOK, Ends
<1>2. ASSUME UNCHANGED <<todo, m_write_cb>>, pc'["client"] = "encode" \/ pc'["client"] = pc["client"] \/ todo["client"] = <<>>
      PROVE  QueueInv'
  BY <1>2 DEF QueueInv, At
<1>3. CASE UNCHANGED vars
  BY <1>2, <1>3 DEF vars
<1>4. ASSUME NEW q \in Requests, WriteMessage(q) PROVE QueueInv'
  <2>1. m_write_cb' = Append(m_write_cb, Request(q)) /\ UNCHANGED <<todo, pc>>
    BY <1>4 DEF WriteMessage
  <2>2. Append(m_write_cb, Request(q)) \in Seq(From("client"))
    BY FromType, AppendProperties DEF QueueInv
  <2> QED
    BY <2>1, <2>2 DEF QueueInv, At
<1>5. ASSUME NEW e \in Ends, OnRead(e) \/ ReadNothing(e) \/ ReadFails(e) \/ WriteFails(e) \/ ReadEnd(e)
                              \/ WriteKills(e) \/ DecodeDone(e) \/ EncodeDone(e)
      PROVE  QueueInv'
  <2>1. UNCHANGED <<todo, m_write_cb>>
    BY <1>5 DEF OnRead, ReadNothing, ReadFails, WriteFails, ReadEnd, WriteKills, DecodeDone, EncodeDone
  <2>2. pc' = [pc EXCEPT ![e] = pc'[e]]
    BY <1>1, <1>5 DEF OnRead, ReadNothing, ReadFails, WriteFails, ReadEnd, WriteKills, DecodeDone,
                      EncodeDone, GoTo
  <2>3. e = "client" => todo["client"] = <<>>
    BY <1>5 DEF OnRead, ReadNothing, ReadFails, WriteFails, ReadEnd, WriteKills, DecodeDone,
                EncodeDone, QueueInv, At
  <2>4. e # "client" => pc'["client"] = pc["client"]
    BY <1>1, <2>2
  <2> QED
    BY <1>2, <2>1, <2>3, <2>4
<1>6. ASSUME NEW e \in Ends, ReadSome(e) PROVE QueueInv'
  <2>1. UNCHANGED <<todo, m_write_cb>> /\ (UNCHANGED pc \/ GoTo(e, "decode")) /\ At(e, "read")
    BY <1>6 DEF ReadSome
  <2>2. e = "client" => todo["client"] = <<>>
    BY <2>1 DEF QueueInv, At
  <2>3. e # "client" => pc'["client"] = pc["client"]
    BY <1>1, <2>1 DEF GoTo
  <2> QED
    BY <1>2, <2>1, <2>2, <2>3
<1>7. ASSUME NEW e \in Ends, Decode(e) PROVE QueueInv'
  <2> DEFINE m == Front(e)
  <2>1. UNCHANGED <<pc, m_write_cb>>
        /\ todo' = IF e = "server" THEN [todo EXCEPT ![e] = Append(todo[e], Answer(m.id))] ELSE todo
    BY <1>7 DEF Decode
  <2>2. CASE e = "server"
    <3>1. m.id \in Requests
      BY <1>7, FrontType, MessageType
    <3>2. Append(todo[e], Answer(m.id)) \in Seq(From(e))
      BY <2>2, <3>1, FromType, AppendProperties DEF QueueInv
    <3> HIDE DEF m
    <3>3. /\ todo'[e] = Append(todo[e], Answer(m.id)) /\ \A x \in Ends : x # e => todo'[x] = todo[x]
          /\ todo'["client"] = todo["client"]
      BY <1>1, <2>1, <2>2
    <3> QED
      BY <2>1, <3>2, <3>3 DEF QueueInv, At
  <2>3. CASE e # "server"
    BY <1>2, <2>1, <2>3
  <2> QED
    BY <2>2, <2>3
<1>8. ASSUME NEW e \in Ends, OnWrite(e) PROVE QueueInv'
  <2>1. CASE e = "client"
    <3>1. pc' = [pc EXCEPT ![e] = "encode"] /\ todo' = [todo EXCEPT ![e] = m_write_cb] /\ UNCHANGED m_write_cb
      BY <1>8, <2>1 DEF OnWrite, GoTo
    <3>2. pc'["client"] = "encode" /\ todo'["client"] = m_write_cb /\ todo'["server"] = todo["server"]
      BY <1>1, <2>1, <3>1
    <3> QED
      BY <3>1, <3>2 DEF QueueInv, At, Ends
  <2>2. CASE e # "client"
    <3>1. pc'["client"] = pc["client"] /\ UNCHANGED <<todo, m_write_cb>>
      BY <1>1, <1>8, <2>2 DEF OnWrite, GoTo
    <3> QED
      BY <1>2, <3>1
  <2> QED
    BY <2>1, <2>2
<1>9. ASSUME NEW e \in Ends, Encode(e) PROVE QueueInv'
  <2>1. todo[e] \in Seq(From(e)) /\ todo[e] # <<>> /\ UNCHANGED <<pc, m_write_cb>> /\ At(e, "encode")
        /\ todo' = [todo EXCEPT ![e] = Tail(todo[e])]
    BY <1>9 DEF Encode, QueueInv
  <2>2. Tail(todo[e]) \in Seq(From(e))
    BY <2>1, HeadTailProperties
  <2>3. todo'[e] = Tail(todo[e]) /\ \A x \in Ends : x # e => todo'[x] = todo[x]
    BY <1>1, <2>1
  <2> QED
    BY <1>1, <2>1, <2>2, <2>3 DEF QueueInv, At
<1>10. ASSUME NEW e \in Ends, Written(e), At(e, "write"), UNCHANGED todo PROVE QueueInv'
  <2>1. /\ pc' = [pc EXCEPT ![e] = "idle"]
        /\ IF e = "client" THEN m_write_cb' = <<>> ELSE UNCHANGED m_write_cb
    BY <1>10 DEF Written, GoTo
  <2>2. m_write_cb' \in Seq(From("client"))
    BY <2>1, EmptySeq DEF QueueInv
  <2>3. CASE e = "client"
    BY <1>10, <2>2, <2>3 DEF QueueInv, At
  <2>4. CASE e # "client"
    <3>1. pc'["client"] = pc["client"]
      BY <1>1, <2>1, <2>4
    <3> QED
      BY <1>10, <2>2, <3>1 DEF QueueInv, At
  <2> QED
    BY <2>3, <2>4
<1>11. ASSUME NEW e \in Ends, WriteSome(e) \/ WriteBlocked(e) \/ WriteLost(e) PROVE QueueInv'
  <2>1. At(e, "write") /\ UNCHANGED todo /\ (Written(e) \/ UNCHANGED <<pc, m_write_cb>>)
    BY <1>11 DEF WriteSome, WriteBlocked, WriteLost
  <2> QED
    BY <1>2, <1>10, <2>1
<1>12. ASSUME NEW e \in Ends, Hangup(e) PROVE QueueInv'
  BY <1>2, <1>12 DEF Hangup
<1>13. ASSUME NEW e \in Ends, Misread(e) PROVE QueueInv'
  BY <1>2, <1>13 DEF Misread
<1> QED
  BY <1>3, <1>4, <1>5, <1>6, <1>7, <1>8, <1>9, <1>11, <1>12, <1>13 DEF Next, EndStep

(* What the buffers hold after each operation.                              *)
LEMMA DropBytes ==
  ASSUME NEW b \in Buffer, NEW n \in 0..Len(b.bytes)
  PROVE  /\ ReadFromBuffer(b, n).bytes = SubSeq(b.bytes, n + 1, Len(b.bytes))
         /\ MoveReadIndex(b, n).bytes = SubSeq(b.bytes, n + 1, Len(b.bytes))
<1>1. b.bytes \in Seq(Byte) /\ Len(b.bytes) \in Nat /\ Drop(b, n) \in Buffer
  BY DropType, LenProperties DEF Buffer
<1>2. Drop(b, n).bytes = SubSeq(b.bytes, n + 1, Len(b.bytes))
  <2> DEFINE rest == SubSeq(b.bytes, n + 1, Len(b.bytes))
             index == b.read + n
  <2>1. Drop(b, n) = [b EXCEPT !.read = index, !.bytes = rest]
    BY DEF Drop
  <2> HIDE DEF rest, index
  <2>2. Drop(b, n).bytes = rest
    BY <2>1 DEF Buffer
  <2> QED
    BY <2>2 DEF rest
<1>3. ShiftBuffer(Drop(b, n)).bytes = Drop(b, n).bytes
  BY <1>1, ShiftType
<1>4. ASSUME n >= Len(b.bytes) PROVE MoveReadIndex(b, n).bytes = SubSeq(b.bytes, n + 1, Len(b.bytes))
  <2>1. MoveReadIndex(b, n) = [b EXCEPT !.read = 0, !.bytes = <<>>]
    BY <1>4 DEF MoveReadIndex, ReadAvailable
  <2>2. MoveReadIndex(b, n).bytes = <<>>
    BY <2>1 DEF Buffer
  <2>3. SubSeq(b.bytes, n + 1, Len(b.bytes)) = <<>>
    BY <1>1, <1>4, SubSeqEmpty
  <2> QED
    BY <2>2, <2>3
<1> QED
  BY <1>2, <1>3, <1>4 DEF ReadFromBuffer, MoveReadIndex, ReadAvailable

LEMMA WriteBytes ==
  ASSUME NEW b \in Buffer, NEW data \in Seq(Byte)
  PROVE  /\ WriteToBuffer(b, data).bytes = b.bytes \o data
         /\ ~Refuses(b, data) => MoveWriteIndex(b, data).bytes = b.bytes \o data
<1> DEFINE bytes == b.bytes \o data
           room == IF Len(data) > WriteAvailable(b)
                   THEN ResizeBuffer(b, 2 * (ReadAvailable(b) + Len(data))) ELSE b
<1>1. room \in [size : {room.size}, read : {room.read}, bytes : {b.bytes}, vec : {room.vec}]
  <2> DEFINE size == 2 * (ReadAvailable(b) + Len(data))
  <2>1. ResizeBuffer(b, size) = b \/ ResizeBuffer(b, size) = [b EXCEPT !.size = size, !.read = 0, !.vec = size]
    BY DEF ResizeBuffer
  <2>2. room = b \/ room = [b EXCEPT !.size = size, !.read = 0, !.vec = size]
    BY <2>1
  <2> HIDE DEF room, size
  <2> QED
    BY <2>2 DEF Buffer
<1>2. WriteToBuffer(b, data) = [room EXCEPT !.bytes = room.bytes \o data]
  BY DEF WriteToBuffer
<1> HIDE DEF room
<1>3. room.bytes = b.bytes
  BY <1>1
<1>4. WriteToBuffer(b, data).bytes = bytes
  BY <1>1, <1>2, <1>3
<1>5. ASSUME ~Refuses(b, data) PROVE MoveWriteIndex(b, data).bytes = bytes
  <2>1. MoveWriteIndex(b, data) = [b EXCEPT !.bytes = bytes]
    BY <1>5 DEF MoveWriteIndex
  <2> HIDE DEF bytes
  <2> QED
    BY <2>1 DEF Buffer
<1> QED
  BY <1>4, <1>5

-----------------------------------------------------------------------------
(* One direction of the connection is a channel: the way from e.            *)

Gone(e) == conn[e] = "closed"
Lossy(e) == Peer(e) \in refused
Ended == conn["client"] # "up"

(* What is on its way from e, while nothing of it was refused, are whole    *)
(* messages of e's, one behind the other; only when e has closed may the    *)
(* last one be cut off.                                                     *)
FrameOK(e) ==
  ~Lossy(e) /\ ~Gone(Peer(e)) =>
    Framed(Stream(e), From(e)) /\ (~Gone(e) => Whole(Stream(e)))

StreamInv ==
  /\ TypeOK /\ IndexInv /\ QueueInv
  /\ \A e \in Ends : ConnOK(e) /\ FrameOK(e)

(* The steps of MessageChannel, or none of them.                            *)
Moves(e) ==
  \/ /\ Sendings(e)' = Sendings(e) /\ received'[Peer(e)] = received[Peer(e)]
     /\ Lossy(e)' = Lossy(e) /\ Ended' = Ended
  \/ /\ ~Ended
     /\ \E m \in From(e) : Sendings(e)' = Append(Sendings(e), m)
     /\ received'[Peer(e)] = received[Peer(e)] /\ Lossy(e)' = Lossy(e) /\ Ended' = Ended
  \/ /\ Sendings(e) # <<>>
     /\ Sendings(e)' = Tail(Sendings(e))
     /\ received'[Peer(e)] = Append(received[Peer(e)], Head(Sendings(e)))
     /\ Lossy(e)' = Lossy(e) /\ Ended' = Ended
  \/ /\ Lossy(e)' = TRUE
     /\ \E i \in 0..Len(Sendings(e)) : \E j \in i..Len(Sendings(e)) :
          Sendings(e)' = SubSeq(Sendings(e), 1, i) \o SubSeq(Sendings(e), j + 1, Len(Sendings(e)))
     /\ received'[Peer(e)] = received[Peer(e)] /\ Ended' = Ended
  \/ /\ Ended' = TRUE
     /\ \E n \in 0..Len(Sendings(e)) : Sendings(e)' = SubSeq(Sendings(e), 1, n)
     /\ received'[Peer(e)] = received[Peer(e)] /\ Lossy(e)' = Lossy(e)

(* What the receiving end has refused and decoded stays as it is.           *)
Kept(e) == Lossy(e)' = Lossy(e) /\ received'[Peer(e)] = received[Peer(e)]

LEMMA LinkUp ==
  ASSUME TypeOK, \A x \in Ends : ConnOK(x), NEW e \in Ends
  PROVE  /\ Gone(e) => Ended
         /\ ~Gone(Peer(e)) => Gone(e) \/ (conn[e] = "up" /\ ~Ended)
         /\ conn["client"] = "up" <=> conn["server"] = "up"
<1>1. /\ ConnOK("client") /\ ConnOK("server") /\ "client" \in Ends /\ "server" \in Ends
      /\ Peer("client") = "server" /\ Peer("server") = "client" /\ e \in {"client", "server"}
      /\ conn["client"] \in {"up", "eof", "reset", "spent", "closed"}
      /\ conn["server"] \in {"up", "eof", "reset", "spent", "closed"}
  BY DEF Ends, Peer, TypeOK
<1>2. conn["client"] = "up" <=> conn["server"] = "up"
  BY <1>1 DEF ConnOK
<1>3. Gone(e) => Ended
  BY <1>1, <1>2 DEF Gone, Ended
<1>4. ~Gone(Peer(e)) => Gone(e) \/ (conn[e] = "up" /\ ~Ended)
  BY <1>1, <1>2 DEF ConnOK, Gone, Ended
<1> QED
  BY <1>2, <1>3, <1>4

LEMMA StreamTypes ==
  ASSUME TypeOK, QueueInv, NEW e \in Ends
  PROVE  /\ inBuf[e] \in Buffer /\ outBuf[e] \in Buffer
         /\ inBuf[Peer(e)].bytes \in Seq(Byte) /\ wire[Peer(e)] \in Seq(Byte)
         /\ outBuf[e].bytes \in Seq(Byte) /\ Stream(e) \in Seq(Byte)
         /\ OnTheWay(e) \in Seq(Messages) /\ ToEncode(e) \in Seq(Messages)
         /\ Sendings(e) \in Seq(Messages)
<1>1. /\ inBuf[Peer(e)].bytes \in Seq(Byte) /\ wire[Peer(e)] \in Seq(Byte)
      /\ outBuf[e].bytes \in Seq(Byte) /\ inBuf[e] \in Buffer /\ outBuf[e] \in Buffer
  BY PeerIs DEF TypeOK, Buffer
<1>2. (IF conn[e] = "closed" THEN <<>> ELSE outBuf[e].bytes) \in Seq(Byte)
  BY <1>1, EmptySeq
<1>3. Stream(e) \in Seq(Byte)
  BY <1>1, <1>2, ConcatProperties DEF Stream
<1>4. OnTheWay(e) \in Seq(Messages)
  BY <1>3, MessagesType DEF OnTheWay
<1>5. ToEncode(e) \in Seq(Messages)
  BY EmptySeq DEF ToEncode, TypeOK
<1>6. Sendings(e) \in Seq(Messages)
  BY <1>4, <1>5, EmptySeq, ConcatProperties DEF Sendings
<1> QED
  BY <1>1, <1>3, <1>4, <1>5, <1>6

(* Only the end that decodes receives.                                      *)
LEMMA ReceivedGrows ==
  ASSUME TypeOK, [Next]_vars, NEW d \in Ends
  PROVE  received'[d] = received[d] \/ Decode(d)
<1>1. UNCHANGED vars \/ (\E q \in Requests : WriteMessage(q)) => received' = received
  BY DEF vars, WriteMessage
<1>2. ASSUME NEW x \in Ends, EndStep(x) \/ Hangup(x) PROVE received' = received \/ Decode(x)
  BY <1>2 DEF EndStep, OnRead, ReadSome, ReadNothing, Misread, DecodeDone, OnWrite, Encode,
              EncodeDone, WriteSome, WriteBlocked, WriteLost, WriteFails, WriteKills, ReadEnd,
              ReadFails, Hangup
<1>3. ASSUME NEW x \in Ends, Decode(x), x # d PROVE received'[d] = received[d]
  <2>1. received' = [received EXCEPT ![x] = Append(received[x], Front(x))]
    BY <1>3 DEF Decode
  <2> QED
    BY <1>3, <2>1 DEF TypeOK
<1> QED
  BY <1>1, <1>2, <1>3 DEF Next

(* An end that has gone neither reads nor decodes, and what was under way   *)
(* to it is lost.                                                           *)
LEMMA DeafStep ==
  ASSUME TypeOK, QueueInv, TypeOK', [Next]_vars, \A x \in Ends : ConnOK(x)', NEW e \in Ends,
         Gone(Peer(e))'
  PROVE  FrameOK(e)' /\ Moves(e)
<1> DEFINE d == Peer(e)
<1>1. d \in Ends /\ ConnOK(d)' /\ conn'[d] = "closed"
  BY PeerIs DEF Gone
<1>2. pc'[d] = "idle"
  BY <1>1 DEF ConnOK, At
<1>3. ~ReadSome(d) /\ ~Decode(d)
  <2>1. ReadSome(d) => pc'[d] \in {"read", "decode"}
    BY <1>1 DEF ReadSome, At, GoTo, TypeOK
  <2>2. Decode(d) => pc'[d] = "decode"
    BY <1>1 DEF Decode, At
  <2> QED
    BY <1>2, <2>1, <2>2
<1>4. Lossy(e)' = Lossy(e) /\ received'[Peer(e)] = received[Peer(e)]
  BY <1>1, <1>3, RefusedGrows, ReceivedGrows DEF Lossy
<1>5. Ended' = TRUE
  <2>1. /\ ConnOK("client")' /\ ConnOK("server")' /\ Peer("client") = "server" /\ Peer("server") = "client"
        /\ d \in {"client", "server"}
    BY <1>1 DEF Ends, Peer
  <2> QED
    BY <1>1, <2>1 DEF ConnOK, Ended
<1>6. Sendings(e)' = <<>>
  BY <1>1 DEF Sendings
<1>7. SubSeq(Sendings(e), 1, 0) = <<>> /\ 0 \in 0..Len(Sendings(e))
  <2>1. Sendings(e) \in Seq(Messages) /\ Len(Sendings(e)) \in Nat
    BY StreamTypes, LenProperties
  <2> QED
    BY <2>1, SubSeqEmpty
<1>8. FrameOK(e)'
  BY <1>1 DEF FrameOK, Gone
<1> QED
  BY <1>4, <1>5, <1>6, <1>7, <1>8 DEF Moves

(* The stream moves or stays, and so does what is still to be encoded.      *)
LEMMA QuietStep ==
  ASSUME NEW e \in Ends, FrameOK(e), ~Gone(Peer(e)), ~Gone(Peer(e))', Kept(e),
         Stream(e)' = Stream(e), ToEncode(e)' = ToEncode(e), Gone(e) => Gone(e)', Ended' = Ended
  PROVE  FrameOK(e)' /\ Moves(e)
<1>1. Lossy(e)' = Lossy(e) /\ received'[Peer(e)] = received[Peer(e)]
  BY DEF Kept, Lossy
<1>2. OnTheWay(e)' = OnTheWay(e)
  BY DEF OnTheWay
<1>3. Sendings(e)' = Sendings(e)
  BY <1>2 DEF Sendings, Gone
<1> QED
  BY <1>1, <1>3 DEF Moves, FrameOK

LEMMA SameStream ==
  ASSUME NEW e \in Ends, inBuf'[Peer(e)] = inBuf[Peer(e)], wire'[Peer(e)] = wire[Peer(e)],
         outBuf'[e] = outBuf[e], conn'[e] = conn[e]
  PROVE  Stream(e)' = Stream(e)
  BY DEF Stream

(* One more message to encode.                                              *)
LEMMA SendStep ==
  ASSUME StreamInv, NEW e \in Ends, ~Gone(Peer(e)), ~Gone(Peer(e))', Kept(e),
         Stream(e)' = Stream(e), UNCHANGED conn, ~Gone(e),
         NEW m \in From(e), ToEncode(e)' = Append(ToEncode(e), m)
  PROVE  FrameOK(e)' /\ Moves(e)
<1>1. /\ Lossy(e)' = Lossy(e) /\ received'[Peer(e)] = received[Peer(e)]
      /\ Ended' = Ended /\ ~Ended
  BY LinkUp DEF Kept, Lossy, Ended, StreamInv
<1>2. OnTheWay(e) \in Seq(Messages) /\ ToEncode(e) \in Seq(Messages) /\ m \in Messages
  BY StreamTypes, FromType DEF StreamInv
<1>3. /\ Sendings(e) = OnTheWay(e) \o ToEncode(e)
      /\ Sendings(e)' = OnTheWay(e) \o Append(ToEncode(e), m)
  BY DEF Sendings, OnTheWay, Gone
<1>4. Sendings(e)' = Append(Sendings(e), m)
  BY <1>2, <1>3, AppendConcat
<1>5. FrameOK(e)'
  BY <1>1 DEF FrameOK, StreamInv, Gone
<1> QED
  BY <1>1, <1>4, <1>5 DEF Moves

(* encode moves a message from one part of the channel to the next.         *)
LEMMA EncodeStep ==
  ASSUME StreamInv, NEW e \in Ends, Encode(e), ~Gone(Peer(e)), ~Gone(Peer(e))'
  PROVE  FrameOK(e)' /\ Moves(e)
<1> DEFINE m == Head(todo[e])
           rest == Tail(todo[e])
           s == Stream(e)
           old == inBuf[Peer(e)].bytes \o wire[Peer(e)]
           out == outBuf[e].bytes
<1>1. /\ TypeOK /\ QueueInv /\ ConnOK(e) /\ FrameOK(e) /\ todo[e] # <<>> /\ At(e, "encode")
      /\ UNCHANGED <<pc, inBuf, wire, conn, refused, m_write_cb>>
      /\ todo' = [todo EXCEPT ![e] = rest]
      /\ outBuf' = [outBuf EXCEPT ![e] = WriteToBuffer(outBuf[e], Bytes(m))]
  BY DEF Encode, StreamInv
<1>2. conn[e] # "closed" /\ Kept(e) /\ Ended' = Ended
  BY <1>1 DEF ConnOK, At, Encode, Kept, Lossy, Ended
<1>3. todo[e] \in Seq(From(e)) /\ m \in From(e) /\ rest \in Seq(From(e))
  BY <1>1, HeadTailProperties DEF QueueInv
<1>4. m \in Messages /\ Bytes(m) \in Seq(Byte) /\ rest \in Seq(Messages) /\ todo[e] = <<m>> \o rest
  <2>1. m \in Messages /\ rest \in Seq(Messages)
    BY <1>3, FromType, SeqMonotonic
  <2>2. todo[e] = <<m>> \o rest
    <3>1. todo[e] \in Seq(From(e)) /\ Len(todo[e]) \in Nat \ {0} /\ 1 \in 1..Len(todo[e])
          /\ Len(todo[e]) \in 1..Len(todo[e])
      BY <1>1, <1>3, EmptySeq
    <3>2. SubSeq(todo[e], 1, Len(todo[e])) = <<todo[e][1]>> \o SubSeq(todo[e], 2, Len(todo[e]))
      BY <3>1, SubSeqRecursiveFirst
    <3>3. SubSeq(todo[e], 1, Len(todo[e])) = todo[e]
      BY <3>1, SubSeqFull
    <3>4. rest = SubSeq(todo[e], 2, Len(todo[e])) /\ m = todo[e][1]
      BY <1>1, <3>1, TailIsSubSeq
    <3> QED
      BY <3>2, <3>3, <3>4
  <2> QED
    BY <2>1, <2>2, MessageType
<1>5. /\ outBuf[e] \in Buffer /\ out \in Seq(Byte) /\ s \in Seq(Byte) /\ old \in Seq(Byte)
      /\ OnTheWay(e) \in Seq(Messages)
  BY <1>1, StreamTypes, ConcatProperties
<1>6. outBuf'[e].bytes = out \o Bytes(m)
  <2>1. outBuf \in [Ends -> Buffer]
    BY <1>1 DEF TypeOK
  <2>2. outBuf'[e] = WriteToBuffer(outBuf[e], Bytes(m))
    BY <1>1, <2>1
  <2> QED
    BY <1>4, <1>5, <2>2, WriteBytes
<1>7. s = old \o out /\ Stream(e)' = old \o (out \o Bytes(m))
  BY <1>1, <1>2, <1>6 DEF Stream
<1>8. Stream(e)' = s \o Bytes(m)
  <2>1. Bytes(m) \in Seq(Byte)
    BY <1>4
  <2> HIDE DEF s, old, out, m
  <2>2. Regroups(old, out, Bytes(m))
    BY <1>5, <2>1, Associative
  <2> QED
    BY <1>7, <2>2 DEF Regroups
<1>9. OnTheWay(e)' = OnTheWay(e) \o <<m>>
  BY <1>4, <1>5, <1>8, MessagesConcat, MessagesOne DEF OnTheWay
<1>10. ToEncode(e) = <<m>> \o rest /\ ToEncode(e)' = rest
  <2>1. todo'[e] = rest
    BY <1>1 DEF TypeOK
  <2>2. ToEncode(e) = todo[e] /\ ToEncode(e)' = todo'[e]
    BY <1>1, <1>2 DEF ToEncode, At
  <2> QED
    BY <1>4, <2>1, <2>2
<1>11. Sendings(e)' = Sendings(e)
  <2>1. (OnTheWay(e) \o <<m>>) \o rest = OnTheWay(e) \o (<<m>> \o rest)
    <3>1. <<m>> \in Seq(Messages)
      BY <1>4
    <3> HIDE DEF m, rest
    <3>2. Regroups(OnTheWay(e), <<m>>, rest)
      BY <1>4, <1>5, <3>1, Associative
    <3> QED
      BY <3>2 DEF Regroups
  <2>2. Sendings(e) = OnTheWay(e) \o ToEncode(e) /\ Sendings(e)' = OnTheWay(e)' \o ToEncode(e)'
    BY DEF Sendings, Gone
  <2> QED
    BY <1>9, <1>10, <2>1, <2>2
<1>12. Lossy(e)' = Lossy(e) /\ received'[Peer(e)] = received[Peer(e)]
  BY <1>2 DEF Kept, Lossy
<1>13. ASSUME ~Lossy(e) PROVE Framed(Stream(e)', From(e)) /\ Whole(Stream(e)')
  <2>1. Framed(s, From(e)) /\ Whole(s)
    BY <1>1, <1>2, <1>13 DEF FrameOK, Gone
  <2>2. From(e) \in SUBSET Messages
    BY FromType
  <2>3. Framed(s \o Bytes(m), From(e)) /\ Whole(s \o Bytes(m))
    BY <1>3, <1>5, <2>1, <2>2, FramedAppend
  <2> QED
    BY <1>8, <2>3
<1>14. FrameOK(e)'
  BY <1>12, <1>13 DEF FrameOK
<1> QED
  BY <1>2, <1>11, <1>12, <1>14 DEF Moves

(* write moves bytes from the output buffer to the wire.                    *)
LEMMA WriteStep ==
  ASSUME StreamInv, NEW e \in Ends, WriteSome(e), ~Gone(Peer(e)), ~Gone(Peer(e))'
  PROVE  FrameOK(e)' /\ Moves(e)
<1> DEFINE in == inBuf[Peer(e)].bytes
           w == wire[Peer(e)]
           out == outBuf[e].bytes
<1>1. PICK n \in 1..(WireSize - Len(w)) :
        /\ n <= ReadAvailable(outBuf[e])
        /\ wire' = [wire EXCEPT ![Peer(e)] = w \o SubSeq(out, 1, n)]
        /\ outBuf' = [outBuf EXCEPT ![e] = MoveReadIndex(outBuf[e], n)]
        /\ IF n < ReadAvailable(outBuf[e])
           THEN UNCHANGED <<pc, m_read_cb, reading, m_write_cb, writing>>
           ELSE Written(e) /\ writing' = [writing EXCEPT ![e] = FALSE]
  BY DEF WriteSome
<1>2. /\ TypeOK /\ QueueInv /\ FrameOK(e) /\ conn[e] = "up" /\ At(e, "write")
      /\ UNCHANGED <<inBuf, todo, conn, refused>> /\ Kept(e)
  BY DEF WriteSome, StreamInv, Kept, Lossy
<1>3. /\ in \in Seq(Byte) /\ w \in Seq(Byte) /\ out \in Seq(Byte) /\ outBuf[e] \in Buffer
      /\ Len(out) \in Nat /\ Peer(e) \in Ends
  BY <1>2, StreamTypes, LenProperties, PeerIs
<1>4. n \in 1..Len(out) /\ n \in 0..Len(out)
  BY <1>1, <1>3 DEF ReadAvailable
<1>5. wire'[Peer(e)] = w \o SubSeq(out, 1, n)
  BY <1>1, <1>2, <1>3 DEF TypeOK
<1>6. outBuf'[e].bytes = SubSeq(out, n + 1, Len(out))
  <2>1. outBuf'[e] = MoveReadIndex(outBuf[e], n)
    BY <1>1, <1>2 DEF TypeOK
  <2> QED
    BY <1>3, <1>4, <2>1, DropBytes
<1>7. Stream(e)' = Stream(e)
  <2> DEFINE a == SubSeq(out, 1, n)
             b == SubSeq(out, n + 1, Len(out))
  <2>1. a \in Seq(Byte) /\ b \in Seq(Byte)
    BY <1>3, <1>4, SubSeqType
  <2>2. a \o b = out
    <3>1. 1 \in 1..Len(out) + 1 /\ n \in 1 - 1..Len(out) /\ Len(out) \in n..Len(out)
      BY <1>3, <1>4
    <3>2. a \o b = SubSeq(out, 1, Len(out))
      BY <1>3, <3>1, ConcatAdjacentSubSeq
    <3> QED
      BY <1>3, <3>2, SubSeqFull
  <2>3. Stream(e) = (in \o w) \o out /\ Stream(e)' = (in \o (w \o a)) \o b
    BY <1>2, <1>5, <1>6 DEF Stream
  <2> HIDE DEF in, w, out, a, b
  <2>4. in \o w \in Seq(Byte)
    BY <1>3, ConcatProperties
  <2>5. Regroups(in, w, a) /\ Regroups(in \o w, a, b)
    BY <1>3, <2>1, <2>4, Associative
  <2> QED
    BY <2>2, <2>3, <2>5 DEF Regroups
<1>8. ToEncode(e)' = ToEncode(e)
  <2>1. CASE e = "server"
    BY <1>2, <2>1 DEF ToEncode
  <2>2. CASE e # "server"
    <3>1. e = "client" /\ ToEncode(e) = <<>>
      BY <1>2, <2>2 DEF ToEncode, At, Ends
    <3>2. CASE UNCHANGED <<pc, m_write_cb>>
      BY <1>2, <3>1, <3>2 DEF ToEncode, At
    <3>3. CASE Written(e)
      <4>1. pc'[e] = "idle" /\ m_write_cb' = <<>>
        BY <1>2, <3>1, <3>3 DEF Written, GoTo, TypeOK
      <4> QED
        BY <1>2, <3>1, <4>1 DEF ToEncode, At
    <3> QED
      BY <1>1, <3>2, <3>3
  <2> QED
    BY <2>1, <2>2
<1>9. Ended' = Ended /\ (Gone(e) => Gone(e)')
  BY <1>2 DEF Ended, Gone
<1> QED
  BY <1>2, <1>7, <1>8, <1>9, QuietStep

LEMMA TailIs ==
  ASSUME NEW S, NEW x \in S, NEW q \in Seq(S)
  PROVE  <<x>> \o q # <<>> /\ Tail(<<x>> \o q) = q /\ Head(<<x>> \o q) = x
<1> DEFINE u == <<x>> \o q
<1>1. <<x>> \in Seq(S) /\ Len(<<x>>) = 1
  OBVIOUS
<1>2. /\ u \in Seq(S) /\ Len(u) = 1 + Len(q) /\ Len(q) \in Nat
      /\ \A i \in 1..1 + Len(q) : u[i] = IF i <= 1 THEN <<x>>[i] ELSE q[i - 1]
  BY <1>1, ConcatProperties, LenProperties
<1> HIDE DEF u
<1>3. u # <<>>
  BY <1>2, EmptySeq
<1>4. Tail(u) \in Seq(S) /\ Len(Tail(u)) = Len(u) - 1 /\ \A i \in 1..Len(Tail(u)) : Tail(u)[i] = u[i + 1]
  BY <1>2, <1>3, HeadTailProperties
<1>5. ASSUME NEW i \in 1..Len(Tail(u)) PROVE Tail(u)[i] = q[i]
  <2>1. PICK j \in 1..1 + Len(q) : j = i + 1
    BY <1>2, <1>4
  <2>2. ~(j <= 1) /\ j - 1 = i
    BY <1>2, <1>4, <2>1
  <2> QED
    BY <1>2, <1>4, <2>1, <2>2
<1>6. Tail(u) = q
  BY <1>2, <1>4, <1>5, SeqEqual
<1>7. Head(u) = x
  BY <1>2, <1>3
<1> QED
  BY <1>3, <1>6, <1>7 DEF u

LEMMA FrontOfConcat ==
  ASSUME NEW S, NEW q \in Seq(S), NEW r \in Seq(S)
  PROVE  Len(q) \in 0..Len(q \o r) /\ SubSeq(q \o r, 1, Len(q)) = q
<1> DEFINE u == q \o r
           v == SubSeq(u, 1, Len(q))
<1>1. /\ u \in Seq(S) /\ Len(u) = Len(q) + Len(r) /\ Len(q) \in Nat /\ Len(r) \in Nat
      /\ \A i \in 1..Len(q) + Len(r) : u[i] = IF i <= Len(q) THEN q[i] ELSE r[i - Len(q)]
  BY ConcatProperties, LenProperties
<1> HIDE DEF u
<1>2. \A i \in 1..Len(q) : i \in 1..Len(u) /\ u[i] = q[i] /\ u[i] \in S
  BY <1>1, ElementOfSeq
<1>3. v \in Seq(S) /\ Len(v) = Len(q) /\ \A i \in 1..Len(q) : v[i] = u[i]
  <2>1. 1 \in Int /\ Len(q) \in Int
    BY <1>1
  <2>2. /\ v \in Seq(S) /\ Len(v) = IF 1 <= Len(q) THEN Len(q) - 1 + 1 ELSE 0
        /\ \A i \in 1..Len(q) - 1 + 1 : v[i] = u[1 + i - 1]
    BY <1>2, <2>1, SubSeqProperties
  <2>3. Len(q) - 1 + 1 = Len(q) /\ \A i \in 1..Len(q) : 1 + i - 1 = i
    BY <1>1
  <2>4. Len(v) = Len(q)
    BY <1>1, <2>2
  <2> QED
    BY <2>2, <2>3, <2>4
<1> HIDE DEF v
<1>4. v = q
  BY <1>2, <1>3, SeqEqual
<1> QED
  BY <1>1, <1>4 DEF u, v

LEMMA BackOfConcat ==
  ASSUME NEW S, NEW q \in Seq(S), NEW r \in Seq(S)
  PROVE  Len(q) \in 0..Len(q \o r) /\ SubSeq(q \o r, Len(q) + 1, Len(q \o r)) = r
<1> DEFINE u == q \o r
           v == SubSeq(u, Len(q) + 1, Len(u))
<1>1. /\ u \in Seq(S) /\ Len(u) = Len(q) + Len(r) /\ Len(q) \in Nat /\ Len(r) \in Nat
      /\ \A i \in 1..Len(q) + Len(r) : u[i] = IF i <= Len(q) THEN q[i] ELSE r[i - Len(q)]
  BY ConcatProperties, LenProperties
<1> HIDE DEF u
<1>2. \A i \in Len(q) + 1..Len(u) : u[i] \in S
  BY <1>1, ElementOfSeq
<1>3. v \in Seq(S) /\ Len(v) = Len(r) /\ \A i \in 1..Len(r) : v[i] = u[Len(q) + i]
  <2>1. Len(q) + 1 \in Int /\ Len(u) \in Int
    BY <1>1
  <2>2. /\ v \in Seq(S)
        /\ Len(v) = IF Len(q) + 1 <= Len(u) THEN Len(u) - (Len(q) + 1) + 1 ELSE 0
        /\ \A i \in 1..Len(u) - (Len(q) + 1) + 1 : v[i] = u[Len(q) + 1 + i - 1]
    BY <1>2, <2>1, SubSeqProperties
  <2>3. /\ Len(u) - (Len(q) + 1) + 1 = Len(r)
        /\ \A i \in 1..Len(r) : Len(q) + 1 + i - 1 = Len(q) + i
    BY <1>1
  <2>4. Len(v) = Len(r)
    BY <1>1, <2>2, <2>3
  <2> QED
    BY <2>2, <2>3, <2>4
<1> HIDE DEF v
<1>4. ASSUME NEW i \in 1..Len(r) PROVE v[i] = r[i]
  <2>1. PICK j \in 1..Len(q) + Len(r) : j = Len(q) + i
    BY <1>1
  <2>2. ~(j <= Len(q)) /\ j - Len(q) = i
    BY <1>1, <2>1
  <2> QED
    BY <1>1, <1>3, <2>1, <2>2
<1>5. v = r
  BY <1>3, <1>4, SeqEqual
<1> QED
  BY <1>1, <1>5 DEF u, v

(* A run of messages is lost out of the middle of a queue.                  *)
LosesRun(before, after) ==
  \E i \in 0..Len(before) : \E j \in i..Len(before) :
    after = SubSeq(before, 1, i) \o SubSeq(before, j + 1, Len(before))

LEMMA LoseRun ==
  ASSUME NEW S, NEW a \in Seq(S), NEW b \in Seq(S), NEW c \in Seq(S)
  PROVE  LosesRun((a \o b) \o c, a \o c)
<1> DEFINE u == (a \o b) \o c
<1>1. a \o b \in Seq(S) /\ b \o c \in Seq(S) /\ Len(a \o b) = Len(a) + Len(b)
      /\ Len(a) \in Nat /\ Len(b) \in Nat
  BY ConcatProperties, LenProperties
<1>2. u = a \o (b \o c)
  BY Associative DEF Regroups
<1>3. Len(a) \in 0..Len(u) /\ SubSeq(u, 1, Len(a)) = a
  BY <1>1, <1>2, FrontOfConcat
<1>4. Len(a \o b) \in 0..Len(u) /\ SubSeq(u, Len(a \o b) + 1, Len(u)) = c
  BY <1>1, BackOfConcat
<1> HIDE DEF u
<1>5. PICK i \in 0..Len(u) : i = Len(a)
  BY <1>3
<1>6. PICK j \in i..Len(u) : j = Len(a \o b)
  BY <1>1, <1>4, <1>5
<1>7. a \o c = SubSeq(u, 1, i) \o SubSeq(u, j + 1, Len(u))
  BY <1>3, <1>4, <1>5, <1>6
<1>8. LosesRun(u, a \o c)
  BY <1>5, <1>6, <1>7 DEF LosesRun
<1> QED
  BY <1>8 DEF u

(* Bytes a between s and t are gone from the stream, and with them the      *)
(* messages that end in a.                                                  *)
LEMMA LoseStep ==
  ASSUME TypeOK, QueueInv, NEW e \in Ends, ~Gone(Peer(e)), ~Gone(Peer(e))',
         NEW s \in Seq(Byte), NEW a \in Seq(Byte), NEW t \in Seq(Byte),
         Stream(e) = (s \o a) \o t, Stream(e)' = s \o t, ToEncode(e)' = ToEncode(e),
         Lossy(e)', received'[Peer(e)] = received[Peer(e)], Ended' = Ended
  PROVE  FrameOK(e)' /\ Moves(e)
<1> DEFINE S == MessagesOf(s)
           A == MessagesOf(a)
           T == MessagesOf(t)
           more == ToEncode(e)
<1>1. S \in Seq(Messages) /\ A \in Seq(Messages) /\ T \in Seq(Messages) /\ more \in Seq(Messages)
  BY MessagesType, StreamTypes
<1>2. OnTheWay(e) = (S \o A) \o T /\ OnTheWay(e)' = S \o T
  <2>1. s \o a \in Seq(Byte)
    BY ConcatProperties
  <2>2. MessagesOf((s \o a) \o t) = (S \o A) \o T
    BY <2>1, MessagesConcat
  <2>3. MessagesOf(s \o t) = S \o T
    BY MessagesConcat
  <2> QED
    BY <2>2, <2>3 DEF OnTheWay
<1>3. Sendings(e) = ((S \o A) \o T) \o more /\ Sendings(e)' = (S \o T) \o more
  BY <1>2 DEF Sendings, Gone
<1> HIDE DEF S, A, T, more
<1>4. Sendings(e) = (S \o A) \o (T \o more) /\ Sendings(e)' = S \o (T \o more)
  <2>1. S \o A \in Seq(Messages)
    BY <1>1, ConcatProperties
  <2>2. Regroups(S \o A, T, more) /\ Regroups(S, T, more)
    BY <1>1, <2>1, Associative
  <2> QED
    BY <1>3, <2>2 DEF Regroups
<1>5. LosesRun(Sendings(e), Sendings(e)')
  <2>1. T \o more \in Seq(Messages)
    BY <1>1, ConcatProperties
  <2>2. LosesRun((S \o A) \o (T \o more), S \o (T \o more))
    BY <1>1, <2>1, LoseRun
  <2> QED
    BY <1>4, <2>2
<1>6. Moves(e)
  BY <1>5 DEF Moves, LosesRun
<1> QED
  BY <1>6 DEF FrameOK

(* read moves bytes from the wire to the input buffer, which takes them or  *)
(* drops them.                                                              *)
LEMMA ReadStep ==
  ASSUME StreamInv, NEW e \in Ends, ReadSome(Peer(e)), ~Gone(Peer(e)), ~Gone(Peer(e))'
  PROVE  FrameOK(e)' /\ Moves(e)
<1> DEFINE d == Peer(e)
           in == inBuf[d].bytes
           w == wire[d]
           out == IF conn[e] = "closed" THEN <<>> ELSE outBuf[e].bytes
<1>1. TypeOK /\ IndexInv /\ QueueInv /\ FrameOK(e) /\ d \in Ends /\ d # e
  BY PeerIs DEF StreamInv
<1>2. PICK n \in 1..Len(w) :
        LET data == SubSeq(w, 1, n) IN
        /\ n <= WriteAvailable(inBuf[d])
        /\ wire' = [wire EXCEPT ![d] = SubSeq(w, n + 1, Len(w))]
        /\ inBuf' = [inBuf EXCEPT ![d] = MoveWriteIndex(inBuf[d], data)]
        /\ refused' = IF Refuses(inBuf[d], data) THEN refused \cup {d} ELSE refused
        /\ IF n < WriteAvailable(inBuf[d]) THEN GoTo(d, "decode") ELSE UNCHANGED pc
  BY <1>1, RoomToRead DEF ReadSome
<1>3. UNCHANGED <<outBuf, todo, m_write_cb, conn>>
  BY DEF ReadSome
<1>4. /\ in \in Seq(Byte) /\ w \in Seq(Byte) /\ out \in Seq(Byte) /\ inBuf[d] \in Buffer
      /\ Len(w) \in Nat
  BY <1>1, StreamTypes, LenProperties, EmptySeq
<1> DEFINE a == SubSeq(w, 1, n)
           b == SubSeq(w, n + 1, Len(w))
<1>5. a \in Seq(Byte) /\ b \in Seq(Byte) /\ a \o b = w
  <2>1. a \in Seq(Byte) /\ b \in Seq(Byte)
    BY <1>4, SubSeqType
  <2>2. 1 \in 1..Len(w) + 1 /\ n \in 1 - 1..Len(w) /\ Len(w) \in n..Len(w)
    BY <1>4
  <2>3. a \o b = SubSeq(w, 1, Len(w))
    BY <1>4, <2>2, ConcatAdjacentSubSeq
  <2> QED
    BY <1>4, <2>1, <2>3, SubSeqFull
<1>6. wire'[d] = b /\ inBuf'[d] = MoveWriteIndex(inBuf[d], a)
  BY <1>1, <1>2 DEF TypeOK
<1>7. Stream(e) = (in \o w) \o out /\ Stream(e)' = (inBuf'[d].bytes \o b) \o out
  BY <1>3, <1>6 DEF Stream
<1>8. ToEncode(e)' = ToEncode(e)
  <2>1. pc'[e] = pc[e]
    BY <1>1, <1>2 DEF GoTo, TypeOK
  <2> QED
    BY <1>3, <2>1 DEF ToEncode, At
<1>9. Ended' = Ended /\ (Gone(e) => Gone(e)') /\ UNCHANGED received
  BY <1>3 DEF Ended, Gone, ReadSome
<1>10. CASE ~Refuses(inBuf[d], a)
  <2>1. inBuf'[d].bytes = in \o a
    BY <1>4, <1>5, <1>6, <1>10, WriteBytes
  <2>2. Kept(e)
    BY <1>2, <1>9, <1>10 DEF Kept, Lossy
  <2>3. Stream(e)' = Stream(e)
    <3>1. Stream(e)' = ((in \o a) \o b) \o out
      BY <1>7, <2>1
    <3> HIDE DEF in, w, out, a, b
    <3>2. Regroups(in, a, b)
      BY <1>4, <1>5, Associative
    <3> QED
      BY <1>5, <1>7, <3>1, <3>2 DEF Regroups
  <2> QED
    BY <1>1, <1>8, <1>9, <2>2, <2>3, QuietStep
<1>11. CASE Refuses(inBuf[d], a)
  <2>1. inBuf'[d].bytes = in
    BY <1>6, <1>11 DEF MoveWriteIndex
  <2>2. Lossy(e)'
    BY <1>2, <1>11 DEF Lossy
  <2>3. Stream(e)' = (in \o b) \o out
    BY <1>7, <2>1
  <2> HIDE DEF in, w, out, a, b, d
  <2>4. in \o a \in Seq(Byte) /\ b \o out \in Seq(Byte)
    BY <1>4, <1>5, ConcatProperties
  <2>5. Regroups(in, a, b) /\ Regroups(in \o a, b, out) /\ Regroups(in, b, out)
    BY <1>4, <1>5, <2>4, Associative
  <2>6. Stream(e) = (in \o a) \o (b \o out) /\ Stream(e)' = in \o (b \o out)
    BY <1>5, <1>7, <2>3, <2>5 DEF Regroups
  <2> QED
    BY <1>1, <1>4, <1>5, <1>8, <1>9, <2>2, <2>4, <2>6, LoseStep
<1> QED
  BY <1>10, <1>11

(* decode takes the first message of the channel.                           *)
LEMMA DecodeHead ==
  ASSUME StreamInv, NEW e \in Ends, Decode(Peer(e))
  PROVE  LET d == Peer(e)
             m == Head(inBuf[d].bytes).msg
             r == SubSeq(inBuf[d].bytes, Length(m) + 1, Len(inBuf[d].bytes))
             t == wire[d] \o (IF conn[e] = "closed" THEN <<>> ELSE outBuf[e].bytes)
         IN /\ m \in Messages
            /\ inBuf[d].bytes = Bytes(m) \o r /\ r \in Seq(Byte) /\ t \in Seq(Byte)
            /\ Stream(e) = Bytes(m) \o (r \o t)
            /\ ~Lossy(e) => Framed(r \o t, From(e)) /\ (~Gone(e) => Whole(r \o t))
            /\ inBuf' = [inBuf EXCEPT ![d] = ReadFromBuffer(inBuf[d], Length(m))]
            /\ inBuf'[d].bytes = r
<1> DEFINE d == Peer(e)
           s == inBuf[d].bytes
           m == Head(s).msg
           r == SubSeq(s, Length(m) + 1, Len(s))
           w == wire[d]
           out == IF conn[e] = "closed" THEN <<>> ELSE outBuf[e].bytes
           t == w \o out
<1>1. TypeOK /\ QueueInv /\ FrameOK(e) /\ ConnOK(d) /\ d \in Ends /\ d # e
  BY PeerIs DEF StreamInv
<1>2. /\ s # <<>> /\ Length(m) <= Len(s) /\ At(d, "decode") /\ SubSeq(s, 1, Length(m)) = Bytes(m)
      /\ inBuf' = [inBuf EXCEPT ![d] = ReadFromBuffer(inBuf[d], Length(m))]
  BY DEF Decode, HasMessage, Front, ReadAvailable
<1>3. ~Gone(d)
  BY <1>1, <1>2 DEF Gone, ConnOK, At
<1>4. /\ s \in Seq(Byte) /\ w \in Seq(Byte) /\ out \in Seq(Byte) /\ t \in Seq(Byte)
      /\ inBuf[d] \in Buffer
  BY <1>1, StreamTypes, EmptySeq, ConcatProperties
<1>5. Stream(e) = s \o t
  <2>1. Stream(e) = (s \o w) \o out
    BY DEF Stream
  <2> HIDE DEF s, w, out
  <2>2. Regroups(s, w, out)
    BY <1>4, Associative
  <2> QED
    BY <2>1, <2>2 DEF Regroups, t
<1>6. m \in Messages /\ Bytes(m) \in Seq(Byte) /\ Length(m) \in 1..Len(s)
  <2>1. m \in Messages /\ Len(s) \in Nat
    BY <1>1, <1>4, FrontType, LenProperties DEF StreamInv, Front
  <2>2. Bytes(m) \in Seq(Byte) /\ Length(m) \in Nat \ {0}
    BY <2>1, MessageType, RequestLenAssumption, AnswerLenAssumption
    DEF Messages, Request, Answer, Length
  <2> QED
    BY <1>2, <2>1, <2>2
<1>7. s = Bytes(m) \o r /\ r \in Seq(Byte)
  <2> DEFINE n == Length(m)
  <2>1. r \in Seq(Byte)
    <3>1. n + 1 \in Nat \ {0} /\ Len(s) \in 0..Len(s)
      BY <1>6
    <3> QED
      BY <1>4, <3>1, SubSeqType
  <2>2. 1 \in 1..Len(s) + 1 /\ n \in 1 - 1..Len(s) /\ Len(s) \in n..Len(s)
    BY <1>6
  <2>3. SubSeq(s, 1, n) \o r = SubSeq(s, 1, Len(s))
    BY <1>4, <2>2, ConcatAdjacentSubSeq
  <2> QED
    BY <1>2, <1>4, <2>1, <2>3, SubSeqFull
<1>8. ~Lossy(e) => Framed(r \o t, From(e)) /\ (~Gone(e) => Whole(r \o t))
  <2> SUFFICES ASSUME ~Lossy(e) PROVE Framed(r \o t, From(e)) /\ (~Gone(e) => Whole(r \o t))
    OBVIOUS
  <2>1. Framed(s \o t, From(e)) /\ (~Gone(e) => Whole(s \o t)) /\ From(e) \in SUBSET Messages
    BY <1>1, <1>3, <1>5, FromType DEF FrameOK
  <2> HIDE DEF s, t
  <2>2. Framed(r \o t, From(e)) /\ (Whole(s \o t) => Whole(r \o t))
    BY <1>2, <1>4, <2>1, FramedDecode
  <2> QED
    BY <2>1, <2>2
<1>9. Stream(e) = Bytes(m) \o (r \o t)
  <2>1. Stream(e) = (Bytes(m) \o r) \o t
    BY <1>5, <1>7
  <2> HIDE DEF m, r, t
  <2>2. Regroups(Bytes(m), r, t)
    BY <1>4, <1>6, <1>7, Associative
  <2> QED
    BY <2>1, <2>2 DEF Regroups
<1>10. inBuf'[d].bytes = r
  <2>1. inBuf'[d] = ReadFromBuffer(inBuf[d], Length(m)) /\ Length(m) \in 0..Len(s)
    BY <1>1, <1>2, <1>6 DEF TypeOK
  <2> QED
    BY <1>4, <2>1, DropBytes
<1> QED
  BY <1>2, <1>4, <1>6, <1>7, <1>8, <1>9, <1>10

LEMMA DecodeStep ==
  ASSUME StreamInv, NEW e \in Ends, Decode(Peer(e)), ~Gone(Peer(e)), ~Gone(Peer(e))'
  PROVE  FrameOK(e)' /\ Moves(e)
<1> DEFINE d == Peer(e)
           m == Head(inBuf[d].bytes).msg
           r == SubSeq(inBuf[d].bytes, Length(m) + 1, Len(inBuf[d].bytes))
           w == wire[d]
           out == IF conn[e] = "closed" THEN <<>> ELSE outBuf[e].bytes
           t == w \o out
           rest == MessagesOf(r \o t)
           more == ToEncode(e)
<1>1. /\ m \in Messages /\ r \in Seq(Byte) /\ t \in Seq(Byte)
      /\ Stream(e) = Bytes(m) \o (r \o t)
      /\ ~Lossy(e) => Framed(r \o t, From(e)) /\ (~Gone(e) => Whole(r \o t))
      /\ inBuf'[d].bytes = r
  BY DecodeHead
<1>2. TypeOK /\ QueueInv /\ d \in Ends /\ d # e
  BY PeerIs DEF StreamInv
<1>3. /\ UNCHANGED <<pc, outBuf, wire, m_write_cb, conn, refused>>
      /\ received' = [received EXCEPT ![d] = Append(received[d], m)]
      /\ todo' = IF d = "server" THEN [todo EXCEPT ![d] = Append(todo[d], Answer(m.id))] ELSE todo
  BY DEF Decode, Front
<1>4. /\ m \in Messages /\ Bytes(m) \in Seq(Byte) /\ w \in Seq(Byte) /\ out \in Seq(Byte)
      /\ r \o t \in Seq(Byte) /\ more \in Seq(Messages)
  <2>1. m \in Messages /\ w \in Seq(Byte) /\ out \in Seq(Byte) /\ more \in Seq(Messages)
    BY <1>1, <1>2, StreamTypes, EmptySeq
  <2> HIDE DEF m, r, t
  <2> QED
    BY <1>1, <2>1, MessageType, ConcatProperties
<1>5. Stream(e)' = r \o t
  <2>1. Stream(e)' = (r \o w) \o out
    BY <1>1, <1>3 DEF Stream
  <2> HIDE DEF r, w, out
  <2>2. Regroups(r, w, out)
    BY <1>1, <1>4, Associative
  <2> QED
    BY <2>1, <2>2 DEF Regroups, t
<1>6. ToEncode(e)' = more
  <2>1. todo'[e] = todo[e]
    BY <1>2, <1>3 DEF TypeOK
  <2> QED
    BY <1>3, <2>1 DEF ToEncode, At
<1>7. OnTheWay(e) = <<m>> \o rest /\ OnTheWay(e)' = rest /\ rest \in Seq(Messages)
  <2> HIDE DEF m, r, t
  <2>1. MessagesOf(Bytes(m)) = <<m>> /\ rest \in Seq(Messages)
    BY <1>4, MessagesOne, MessagesType
  <2>2. MessagesOf(Bytes(m) \o (r \o t)) = MessagesOf(Bytes(m)) \o rest
    BY <1>4, MessagesConcat
  <2> HIDE DEF rest
  <2> QED
    BY <1>1, <1>5, <2>1, <2>2 DEF OnTheWay, rest
<1>8. Sendings(e) = (<<m>> \o rest) \o more /\ Sendings(e)' = rest \o more
  BY <1>1, <1>6, <1>7 DEF Sendings, Gone
<1>9. Sendings(e) = <<m>> \o (rest \o more) /\ rest \o more \in Seq(Messages)
  <2>1. <<m>> \in Seq(Messages)
    BY <1>4
  <2> HIDE DEF m, rest, more
  <2>2. Regroups(<<m>>, rest, more) /\ rest \o more \in Seq(Messages)
    BY <1>4, <1>7, <2>1, Associative, ConcatProperties
  <2> QED
    BY <1>8, <2>2 DEF Regroups
<1>10. Sendings(e) # <<>> /\ Tail(Sendings(e)) = rest \o more /\ Head(Sendings(e)) = m
  <2> HIDE DEF m, rest, more
  <2> QED
    BY <1>4, <1>9, TailIs
<1>11. Lossy(e)' = Lossy(e) /\ Ended' = Ended /\ Gone(e)' = Gone(e)
  BY <1>3 DEF Lossy, Ended, Gone
<1>12. received'[d] = Append(received[d], Head(Sendings(e)))
  <2>1. received'[d] = Append(received[d], m)
    BY <1>2, <1>3 DEF TypeOK
  <2> QED
    BY <1>10, <2>1
<1>13. FrameOK(e)'
  BY <1>1, <1>5, <1>11 DEF FrameOK
<1>14. Sendings(e)' = Tail(Sendings(e))
  <2> HIDE DEF m, rest, more
  <2> QED
    BY <1>8, <1>10
<1> QED
  BY <1>10, <1>11, <1>12, <1>13, <1>14 DEF Moves

LEMMA FrontOf ==
  ASSUME NEW u \in Seq(Byte), NEW n \in 0..Len(u)
  PROVE  /\ SubSeq(u, 1, n) \in Seq(Byte) /\ Len(SubSeq(u, 1, n)) = n
         /\ \A k \in 1..n : SubSeq(u, 1, n)[k] = u[k]
<1> DEFINE v == SubSeq(u, 1, n)
<1>1. v \in Seq(Byte) /\ Len(v) = IF 1 <= n THEN n - 1 + 1 ELSE 0
  BY SubSeqType
<1>2. n \in Nat /\ Len(v) = n
  BY <1>1, LenProperties
<1>3. \A i \in 1..n : u[i] \in Byte
  BY <1>2, LenProperties, ElementOfSeq
<1>4. \A i \in 1..n - 1 + 1 : v[i] = u[1 + i - 1]
  BY <1>2, <1>3, SubSeqProperties
<1>5. n - 1 + 1 = n /\ \A i \in 1..n : 1 + i - 1 = i
  BY <1>2
<1> HIDE DEF v
<1>6. \A k \in 1..n : v[k] = u[k]
  BY <1>4, <1>5
<1> QED
  BY <1>1, <1>2, <1>6 DEF v

(* decode misreads only what stands behind refused bytes.                   *)
LEMMA MisreadStep ==
  ASSUME StreamInv, NEW e \in Ends, Misread(Peer(e)), ~Gone(Peer(e)), ~Gone(Peer(e))'
  PROVE  FrameOK(e)' /\ Moves(e)
<1> DEFINE d == Peer(e)
           s == inBuf[d].bytes
           w == wire[d]
           out == IF conn[e] = "closed" THEN <<>> ELSE outBuf[e].bytes
           t == w \o out
<1>1. /\ TypeOK /\ QueueInv /\ FrameOK(e) /\ d \in Ends /\ d # e /\ ~HasMessage(d) /\ ~HasBeginning(d)
      /\ UNCHANGED <<pc, outBuf, wire, todo, m_write_cb, conn, refused, received>>
  BY PeerIs DEF StreamInv, Misread
<1>2. /\ s \in Seq(Byte) /\ w \in Seq(Byte) /\ out \in Seq(Byte) /\ t \in Seq(Byte)
      /\ inBuf[d] \in Buffer /\ Len(s) \in Nat /\ s # <<>>
  BY <1>1, StreamTypes, EmptySeq, ConcatProperties, LenProperties DEF HasBeginning
<1>3. PICK n \in 1..Len(s) :
        \/ inBuf' = [inBuf EXCEPT ![d] = MoveReadIndex(inBuf[d], n)]
        \/ inBuf' = [inBuf EXCEPT ![d] = ReadFromBuffer(inBuf[d], n)]
  BY DEF Misread, ReadAvailable
<1> DEFINE a == SubSeq(s, 1, n)
           r == SubSeq(s, n + 1, Len(s))
<1>4. inBuf'[d].bytes = r
  <2>1. n \in 0..Len(s)
    BY <1>2
  <2>2. inBuf'[d] = MoveReadIndex(inBuf[d], n) \/ inBuf'[d] = ReadFromBuffer(inBuf[d], n)
    BY <1>1, <1>3 DEF TypeOK
  <2> QED
    BY <1>2, <2>1, <2>2, DropBytes
<1>5. a \in Seq(Byte) /\ r \in Seq(Byte) /\ a \o r = s
  <2>1. a \in Seq(Byte) /\ r \in Seq(Byte)
    BY <1>2, SubSeqType
  <2>2. 1 \in 1..Len(s) + 1 /\ n \in 1 - 1..Len(s) /\ Len(s) \in n..Len(s)
    BY <1>2
  <2>3. a \o r = SubSeq(s, 1, Len(s))
    BY <1>2, <2>2, ConcatAdjacentSubSeq
  <2> QED
    BY <1>2, <2>1, <2>3, SubSeqFull
<1>6. Stream(e) = s \o t /\ Stream(e)' = r \o t
  <2>1. Stream(e) = (s \o w) \o out /\ Stream(e)' = (r \o w) \o out
    BY <1>1, <1>4 DEF Stream
  <2> HIDE DEF s, r, w, out
  <2>2. Regroups(s, w, out) /\ Regroups(r, w, out)
    BY <1>2, <1>5, Associative
  <2> QED
    BY <2>1, <2>2 DEF Regroups, t
<1>7. ASSUME ~Lossy(e) PROVE FALSE
  <2> DEFINE m == Head(s).msg
  <2>1. Framed(s \o t, From(e)) /\ From(e) \in SUBSET Messages
    BY <1>1, <1>6, <1>7, FromType DEF FrameOK
  <2>2. m \in Messages /\ \A k \in 1..Length(m) : k <= Len(s) => s[k] = Bytes(m)[k]
    <3> HIDE DEF s, t
    <3> QED
      BY <1>2, <2>1, FramedFront
  <2>3. Length(m) \in Nat /\ Bytes(m) \in Seq(Byte) /\ Len(Bytes(m)) = Length(m)
    BY <2>2, MessageType
  <2>4. m = Front(d) /\ Len(s) = ReadAvailable(inBuf[d])
    BY DEF Front, ReadAvailable
  <2> HIDE DEF m
  <2>5. CASE Length(m) <= Len(s)
    <3>1. SubSeq(s, 1, Length(m)) = Bytes(m)
      <4> DEFINE v == SubSeq(s, 1, Length(m))
      <4>1. v \in Seq(Byte) /\ Len(v) = Length(m) /\ \A k \in 1..Length(m) : v[k] = s[k]
        <5> HIDE DEF s
        <5> QED
          BY <1>2, <2>3, <2>5, FrontOf
      <4>2. \A k \in 1..Length(m) : v[k] = Bytes(m)[k]
        BY <1>2, <2>2, <2>3, <2>5, <4>1
      <4> HIDE DEF v
      <4>3. v = Bytes(m)
        BY <2>3, <4>1, <4>2, SeqEqual
      <4> QED
        BY <4>3 DEF v
    <3> QED
      BY <1>1, <1>2, <2>4, <2>5, <3>1 DEF HasMessage
  <2>6. CASE ~(Length(m) <= Len(s))
    <3>1. s = SubSeq(Bytes(m), 1, Len(s))
      <4> DEFINE v == SubSeq(Bytes(m), 1, Len(s))
      <4>1. v \in Seq(Byte) /\ Len(v) = Len(s) /\ \A k \in 1..Len(s) : v[k] = Bytes(m)[k]
        <5> DEFINE b == Bytes(m)
        <5>1. b \in Seq(Byte) /\ Len(s) \in 0..Len(b)
          BY <1>2, <2>3, <2>6
        <5> HIDE DEF b, s
        <5>2. SubSeq(b, 1, Len(s)) \in Seq(Byte) /\ Len(SubSeq(b, 1, Len(s))) = Len(s)
              /\ \A k \in 1..Len(s) : SubSeq(b, 1, Len(s))[k] = b[k]
          BY <5>1, FrontOf
        <5> QED
          BY <5>2 DEF b
      <4>2. \A k \in 1..Len(s) : k \in 1..Length(m) /\ k <= Len(s)
        BY <1>2, <2>3, <2>6
      <4>3. \A k \in 1..Len(s) : v[k] = s[k]
        BY <2>2, <4>1, <4>2
      <4> HIDE DEF v
      <4>4. v = s
        BY <1>2, <4>1, <4>3, SeqEqual
      <4> QED
        BY <4>4 DEF v
    <3>2. ReadAvailable(inBuf[d]) < Length(Front(d))
      BY <1>2, <2>3, <2>4, <2>6
    <3> QED
      BY <1>1, <2>4, <3>1, <3>2 DEF HasBeginning
  <2> QED
    BY <2>5, <2>6
<1>8. Lossy(e)' /\ Ended' = Ended /\ received'[Peer(e)] = received[Peer(e)]
  BY <1>1, <1>7 DEF Lossy, Ended
<1>9. ToEncode(e)' = ToEncode(e)
  BY <1>1 DEF ToEncode, At
<1> DEFINE none == <<>>
<1>10. none \in Seq(Byte) /\ Stream(e) = (none \o a) \o (r \o t) /\ Stream(e)' = none \o (r \o t)
       /\ r \o t \in Seq(Byte)
  <2> HIDE DEF s, a, r, t
  <2>1. none \in Seq(Byte) /\ none \o a = a /\ r \o t \in Seq(Byte)
    BY <1>2, <1>5, EmptySeq, ConcatEmptySeq, ConcatProperties
  <2>2. none \o (r \o t) = r \o t
    BY <2>1, ConcatEmptySeq
  <2>3. Regroups(a, r, t)
    BY <1>2, <1>5, Associative
  <2>4. s \o t = a \o (r \o t)
    BY <1>5, <2>3 DEF Regroups
  <2> QED
    BY <1>6, <2>1, <2>2, <2>4
<1> HIDE DEF a, r, t, none
<1> QED
  BY <1>1, <1>5, <1>8, <1>9, <1>10, LoseStep

(* Hanging up cuts off what the end still had to write.                     *)
LEMMA HangupStep ==
  ASSUME StreamInv, NEW e \in Ends, Hangup(e), ~Gone(Peer(e)), ~Gone(Peer(e))'
  PROVE  FrameOK(e)' /\ Moves(e)
<1> DEFINE in == inBuf[Peer(e)].bytes
           w == wire[Peer(e)]
           out == outBuf[e].bytes
           q == MessagesOf(in \o w)
<1>1. /\ TypeOK /\ QueueInv /\ FrameOK(e) /\ conn[e] = "up" /\ Closed(e) /\ Peer(e) \in Ends /\ Peer(e) # e
      /\ conn' = [x \in Ends |-> IF x = e THEN "closed" ELSE IF wire[e] = <<>> THEN "eof" ELSE "reset"]
      /\ UNCHANGED <<pc, inBuf, outBuf, todo, m_write_cb, refused, received>>
  BY PeerIs DEF Hangup, StreamInv
<1>2. conn'[e] = "closed" /\ conn'["client"] # "up" /\ wire'[Peer(e)] = w
  BY <1>1 DEF Closed, TypeOK, Ends
<1>3. /\ in \in Seq(Byte) /\ w \in Seq(Byte) /\ out \in Seq(Byte) /\ ToEncode(e) \in Seq(Messages)
      /\ in \o w \in Seq(Byte) /\ Sendings(e) \in Seq(Messages)
  BY <1>1, StreamTypes, ConcatProperties
<1>4. Stream(e) = (in \o w) \o out /\ Stream(e)' = (in \o w) \o <<>>
  BY <1>1, <1>2 DEF Stream
<1>5. Stream(e)' = in \o w
  BY <1>3, <1>4, ConcatEmptySeq
<1>6. OnTheWay(e) = q \o MessagesOf(out) /\ OnTheWay(e)' = q
      /\ q \in Seq(Messages) /\ MessagesOf(out) \in Seq(Messages)
  <2> HIDE DEF in, w, out
  <2> QED
    BY <1>3, <1>4, <1>5, MessagesConcat, MessagesType DEF OnTheWay
<1>7. Sendings(e)' = q
  <2>1. ToEncode(e)' = <<>>
    BY <1>2 DEF ToEncode
  <2>2. q \o <<>> = q
    BY <1>6, ConcatEmptySeq
  <2> QED
    BY <1>6, <2>1, <2>2 DEF Sendings, Gone
<1>8. Sendings(e) = (q \o MessagesOf(out)) \o ToEncode(e)
  BY <1>6 DEF Sendings, Gone
<1>9. PICK more \in Seq(Messages) : Sendings(e) = q \o more
  <2> DEFINE b == MessagesOf(out)
  <2>1. q \in Seq(Messages) /\ b \in Seq(Messages) /\ ToEncode(e) \in Seq(Messages)
        /\ Sendings(e) = (q \o b) \o ToEncode(e)
    BY <1>3, <1>6, <1>8
  <2> HIDE DEF q, b
  <2>2. Regroups(q, b, ToEncode(e)) /\ b \o ToEncode(e) \in Seq(Messages)
    BY <2>1, Associative, ConcatProperties
  <2> QED
    BY <2>1, <2>2 DEF Regroups
<1>10. \E n \in 0..Len(Sendings(e)) : Sendings(e)' = SubSeq(Sendings(e), 1, n)
  <2>1. Len(q) \in 0..Len(Sendings(e)) /\ SubSeq(Sendings(e), 1, Len(q)) = q
    <3> HIDE DEF q
    <3> QED
      BY <1>6, <1>9, FrontOfConcat
  <2> QED
    BY <1>7, <2>1
<1>11. Ended' = TRUE /\ Lossy(e)' = Lossy(e) /\ received'[Peer(e)] = received[Peer(e)]
  BY <1>1, <1>2 DEF Ended, Lossy
<1>12. ASSUME ~Lossy(e) PROVE Framed(Stream(e)', From(e))
  <2>1. Framed((in \o w) \o out, From(e))
    BY <1>1, <1>4, <1>12 DEF FrameOK
  <2>2. Framed(in \o w, From(e))
    BY <1>3, <2>1, FramedPrefix
  <2> QED
    BY <1>5, <2>2
<1>13. FrameOK(e)'
  BY <1>2, <1>11, <1>12 DEF FrameOK, Gone
<1> QED
  BY <1>10, <1>11, <1>13 DEF Moves

(* An end that has closed stays closed.                                     *)
LEMMA GoneStays ==
  ASSUME StreamInv, [Next]_vars, NEW d \in Ends, Gone(d)
  PROVE  Gone(d)'
<1>1. conn \in [Ends -> {"up", "eof", "reset", "spent", "closed"}]
  BY DEF StreamInv, TypeOK
<1>2. ASSUME conn[d] = "closed" PROVE conn'[d] = "closed"
  <2>1. \/ UNCHANGED conn
        \/ \E e \in Ends : conn[e] # "closed" /\ \E to : conn' = [conn EXCEPT ![e] = to]
        \/ \E e \in Ends : Hangup(e)
    BY DEF Next, vars, WriteMessage, EndStep, OnRead, ReadSome, ReadNothing, Decode, Misread, DecodeDone,
           OnWrite, Encode, EncodeDone, WriteSome, WriteBlocked, WriteLost, WriteFails,
           WriteKills, ReadEnd, ReadFails
  <2>2. ASSUME NEW e \in Ends, conn[e] # "closed", NEW to, conn' = [conn EXCEPT ![e] = to]
        PROVE  conn'[d] = "closed"
    BY <1>1, <1>2, <2>2
  <2>3. ASSUME NEW e \in Ends, Hangup(e) PROVE conn'[d] = "closed"
    <3>1. conn[e] = "up" /\ ConnOK(d)
      BY <2>3 DEF Hangup, StreamInv
    <3>2. e = d \/ e = Peer(d)
      BY PeerIs
    <3> QED
      BY <1>2, <3>1, <3>2 DEF ConnOK
  <2> QED
    BY <1>2, <2>1, <2>2, <2>3
<1> QED
  BY <1>2 DEF Gone

LEMMA StillStep ==
  ASSUME StreamInv, NEW e \in Ends, ~Gone(Peer(e)), ~Gone(Peer(e))',
         UNCHANGED conn, inBuf'[Peer(e)] = inBuf[Peer(e)], wire'[Peer(e)] = wire[Peer(e)],
         outBuf'[e] = outBuf[e], ToEncode(e)' = ToEncode(e),
         (Peer(e) \in refused)' = (Peer(e) \in refused), received'[Peer(e)] = received[Peer(e)]
  PROVE  FrameOK(e)' /\ Moves(e)
<1>1. /\ FrameOK(e) /\ Stream(e)' = Stream(e) /\ Kept(e)
      /\ (Gone(e) => Gone(e)') /\ Ended' = Ended
  BY SameStream DEF StreamInv, Kept, Lossy, Gone, Ended
<1> QED
  BY <1>1, QuietStep

(* The steps that leave the stream from e alone.                            *)
LEMMA QueueSteps ==
  ASSUME StreamInv, NEW e \in Ends, ~Gone(Peer(e)), ~Gone(Peer(e))', NEW x \in Ends,
         OnRead(x) \/ ReadNothing(x) \/ DecodeDone(x) \/ OnWrite(x) \/ EncodeDone(x) \/ WriteBlocked(x)
  PROVE  FrameOK(e)' /\ Moves(e)
<1>1. /\ pc \in [Ends -> {"idle", "read", "decode", "encode", "write"}]
      /\ todo \in [Ends -> Seq(Messages)] /\ QueueInv
  BY DEF StreamInv, TypeOK
<1>2. UNCHANGED <<inBuf, outBuf, wire, conn, refused, received>>
  BY DEF OnRead, ReadNothing, DecodeDone, OnWrite, EncodeDone, WriteBlocked
<1>3. \A y \in Ends : y # x => pc'[y] = pc[y] /\ todo'[y] = todo[y]
  BY <1>1 DEF OnRead, ReadNothing, DecodeDone, OnWrite, EncodeDone, WriteBlocked, Written, GoTo
<1>4. x # "client" => UNCHANGED m_write_cb
  BY DEF OnRead, ReadNothing, DecodeDone, OnWrite, EncodeDone, WriteBlocked, Written
<1>5. x = "server" => todo' = todo
  BY DEF OnRead, ReadNothing, DecodeDone, OnWrite, EncodeDone, WriteBlocked
<1>6. ToEncode(e)' = ToEncode(e)
  <2>1. CASE e = "server"
    <3>1. todo'[e] = todo[e]
      BY <1>3, <1>5, <2>1 DEF Ends
    <3> QED
      BY <1>2, <2>1, <3>1 DEF ToEncode
  <2>2. CASE e = "client" /\ x # e
    BY <1>2, <1>3, <1>4, <2>2 DEF ToEncode, At
  <2>3. CASE e = "client" /\ x = e
    <3>1. CASE OnRead(x) \/ ReadNothing(x)
      <4>1. /\ pc[e] \in {"idle", "read"} /\ pc'[e] \in {"read", "decode"} /\ UNCHANGED m_write_cb
        BY <1>1, <2>3, <3>1 DEF OnRead, ReadNothing, GoTo, At
      <4> QED
        BY <1>2, <2>3, <4>1 DEF ToEncode, At
    <3>2. CASE DecodeDone(x)
      <4>1. /\ pc[e] = "decode" /\ todo[e] = <<>> /\ UNCHANGED m_write_cb /\ GoTo(e, "idle")
        BY <1>1, <2>3, <3>2 DEF DecodeDone, QueueInv, At
      <4>2. pc'[e] = "idle"
        BY <1>1, <4>1 DEF GoTo
      <4> QED
        BY <1>2, <2>3, <4>1, <4>2 DEF ToEncode, At
    <3>3. CASE OnWrite(x)
      <4>1. /\ pc[e] = "idle" /\ pc' = [pc EXCEPT ![e] = "encode"]
            /\ todo' = [todo EXCEPT ![e] = m_write_cb]
        BY <2>3, <3>3 DEF OnWrite, GoTo, At
      <4>2. pc'[e] = "encode" /\ todo'[e] = m_write_cb
        BY <1>1, <4>1
      <4> QED
        BY <1>2, <2>3, <4>1, <4>2 DEF ToEncode, At
    <3>4. CASE EncodeDone(x)
      <4>1. pc[e] = "encode" /\ todo[e] = <<>> /\ GoTo(e, "write")
        BY <2>3, <3>4 DEF EncodeDone, At
      <4>2. pc'[e] = "write"
        BY <1>1, <4>1 DEF GoTo
      <4> QED
        BY <1>2, <2>3, <4>1, <4>2 DEF ToEncode, At
    <3>5. CASE WriteBlocked(x)
      <4>1. pc[e] = "write" /\ GoTo(e, "idle") /\ m_write_cb' = <<>>
        BY <2>3, <3>5 DEF WriteBlocked, Written, At
      <4>2. pc'[e] = "idle"
        BY <1>1, <4>1 DEF GoTo
      <4> QED
        BY <1>2, <2>3, <4>1, <4>2 DEF ToEncode, At
    <3> QED
      BY <3>1, <3>2, <3>3, <3>4, <3>5
  <2> QED
    BY <2>1, <2>2, <2>3 DEF Ends
<1> QED
  BY <1>2, <1>6, StillStep

(* What the receiving end writes goes the other way, and the other way      *)
(* round: e's own reads are no part of the way from e.                      *)
LEMMA OtherWaySteps ==
  ASSUME StreamInv, NEW e \in Ends, ~Gone(Peer(e)), ~Gone(Peer(e))',
         \/ Encode(Peer(e)) \/ WriteSome(Peer(e)) \/ ReadSome(e) \/ Misread(e)
         \/ e = "client" /\ Decode(e)
  PROVE  FrameOK(e)' /\ Moves(e)
<1>1. /\ pc \in [Ends -> {"idle", "read", "decode", "encode", "write"}]
      /\ todo \in [Ends -> Seq(Messages)] /\ Peer(e) \in Ends /\ Peer(e) # e /\ Peer(Peer(e)) = e
      /\ inBuf \in [Ends -> Buffer] /\ outBuf \in [Ends -> Buffer] /\ wire \in [Ends -> Seq(Byte)]
      /\ TypeOK
  BY PeerIs DEF StreamInv, TypeOK
<1>2. CASE Encode(Peer(e))
  <2>1. /\ UNCHANGED <<pc, inBuf, wire, m_write_cb, conn, refused, received>>
        /\ outBuf'[e] = outBuf[e] /\ todo'[e] = todo[e]
    BY <1>1, <1>2 DEF Encode
  <2>2. ToEncode(e)' = ToEncode(e)
    BY <2>1 DEF ToEncode, At
  <2> QED
    BY <2>1, <2>2, StillStep
<1>3. CASE WriteSome(Peer(e))
  <2>1. /\ UNCHANGED <<inBuf, todo, conn, refused, received>>
        /\ \E n, b : wire' = [wire EXCEPT ![e] = n] /\ outBuf' = [outBuf EXCEPT ![Peer(e)] = b]
        /\ UNCHANGED <<pc, m_write_cb>> \/ Written(Peer(e))
    BY <1>1, <1>3 DEF WriteSome
  <2>2. wire'[Peer(e)] = wire[Peer(e)] /\ outBuf'[e] = outBuf[e]
    BY <1>1, <2>1
  <2>3. pc'[e] = pc[e] /\ (e = "client" => UNCHANGED m_write_cb)
    BY <1>1, <2>1 DEF Written, GoTo
  <2>4. ToEncode(e)' = ToEncode(e)
    BY <2>1, <2>3 DEF ToEncode, At, Ends
  <2> QED
    BY <2>1, <2>2, <2>4, StillStep
<1>4. CASE ReadSome(e)
  <2>1. /\ UNCHANGED <<outBuf, todo, m_write_cb, conn, received>> /\ At(e, "read")
        /\ refused' = refused \/ refused' = refused \cup {e}
        /\ \E n, b : wire' = [wire EXCEPT ![e] = n] /\ inBuf' = [inBuf EXCEPT ![e] = b]
        /\ UNCHANGED pc \/ GoTo(e, "decode")
    BY <1>4 DEF ReadSome
  <2>2. wire'[Peer(e)] = wire[Peer(e)] /\ inBuf'[Peer(e)] = inBuf[Peer(e)]
    BY <1>1, <2>1
  <2>3. pc[e] = "read" /\ pc'[e] \in {"read", "decode"}
    BY <1>1, <2>1 DEF GoTo, At
  <2>4. ToEncode(e)' = ToEncode(e)
    BY <2>1, <2>3 DEF ToEncode, At
  <2>5. (Peer(e) \in refused)' = (Peer(e) \in refused)
    BY <1>1, <2>1
  <2> QED
    BY <2>1, <2>2, <2>4, <2>5, StillStep
<1>5. CASE e = "client" /\ Decode(e)
  <2>1. /\ UNCHANGED <<pc, outBuf, wire, todo, m_write_cb, conn, refused>>
        /\ \E b : inBuf' = [inBuf EXCEPT ![e] = b]
        /\ \E b : received' = [received EXCEPT ![e] = b]
    BY <1>5 DEF Decode
  <2>2. inBuf'[Peer(e)] = inBuf[Peer(e)] /\ received'[Peer(e)] = received[Peer(e)]
    BY <1>1, <2>1 DEF TypeOK
  <2>3. ToEncode(e)' = ToEncode(e)
    BY <2>1 DEF ToEncode, At
  <2> QED
    BY <2>1, <2>2, <2>3, StillStep
<1>6. CASE Misread(e)
  <2>1. /\ UNCHANGED <<pc, outBuf, wire, todo, m_write_cb, conn, refused, received>>
        /\ \E b : inBuf' = [inBuf EXCEPT ![e] = b]
    BY <1>6 DEF Misread
  <2>2. inBuf'[Peer(e)] = inBuf[Peer(e)]
    BY <1>1, <2>1
  <2>3. ToEncode(e)' = ToEncode(e)
    BY <2>1 DEF ToEncode, At
  <2> QED
    BY <2>1, <2>2, <2>3, StillStep
<1> QED
  BY <1>2, <1>3, <1>4, <1>5, <1>6

(* The two steps at which a message enters a channel.                       *)
LEMMA RequestStep ==
  ASSUME StreamInv, NEW e \in Ends, ~Gone(Peer(e)), ~Gone(Peer(e))',
         NEW q \in Requests, WriteMessage(q)
  PROVE  FrameOK(e)' /\ Moves(e)
<1>1. /\ UNCHANGED <<pc, inBuf, outBuf, wire, todo, conn, refused, received>> /\ At("client", "idle")
      /\ conn["client"] # "closed" /\ m_write_cb' = Append(m_write_cb, Request(q))
  BY DEF WriteMessage
<1>2. Stream(e)' = Stream(e)
  BY <1>1, SameStream
<1>3. CASE e = "server"
  <2>1. ToEncode(e)' = ToEncode(e)
    BY <1>1, <1>3 DEF ToEncode, At
  <2> QED
    BY <1>1, <2>1, StillStep
<1>4. CASE e = "client"
  <2>1. ToEncode(e) = m_write_cb /\ ToEncode(e)' = m_write_cb'
    BY <1>1, <1>4 DEF ToEncode, At
  <2>2. Request(q) \in From(e)
    BY <1>4, FromType
  <2>3. Kept(e) /\ ~Gone(e)
    BY <1>1, <1>4 DEF Kept, Lossy, Gone
  <2> QED
    BY <1>1, <1>2, <1>4, <2>1, <2>2, <2>3, SendStep
<1> QED
  BY <1>3, <1>4 DEF Ends

LEMMA AnswerStep ==
  ASSUME StreamInv, ~Gone("client"), ~Gone("client")', Decode("server")
  PROVE  FrameOK("server")' /\ Moves("server")
<1> DEFINE m == Front("server")
           b == ReadFromBuffer(inBuf["server"], Length(m))
           got == Append(received["server"], m)
<1>1. Peer("server") = "client" /\ Peer("client") = "server" /\ "server" \in Ends /\ "client" \in Ends
  BY DEF Peer, Ends
<1>2. m \in Messages
  BY <1>1, FrontType DEF StreamInv
<1>3. Answer(m.id) \in From("server")
  BY <1>2, FromType, MessageType
<1>4. /\ UNCHANGED <<pc, outBuf, wire, m_write_cb, conn, refused>> /\ At("server", "decode")
      /\ inBuf' = [inBuf EXCEPT !["server"] = b]
      /\ received' = [received EXCEPT !["server"] = got]
      /\ todo' = [todo EXCEPT !["server"] = Append(todo["server"], Answer(m.id))]
  BY DEF Decode
<1>5. TypeOK /\ ~Gone("server")
  BY <1>1, <1>4 DEF StreamInv, ConnOK, At, Gone
<1> HIDE DEF m, b, got
<1>6. /\ inBuf'["client"] = inBuf["client"] /\ received'["client"] = received["client"]
      /\ todo'["server"] = Append(todo["server"], Answer(m.id))
  BY <1>1, <1>4, <1>5 DEF TypeOK
<1>7. Stream("server")' = Stream("server")
  BY <1>1, <1>4, <1>6, SameStream
<1>8. ToEncode("server") = todo["server"] /\ ToEncode("server")' = todo'["server"]
  BY <1>4, <1>5 DEF ToEncode, Gone
<1>9. Kept("server")
  BY <1>1, <1>4, <1>6 DEF Kept, Lossy
<1> QED
  BY <1>1, <1>3, <1>4, <1>5, <1>6, <1>7, <1>8, <1>9, SendStep

(* An end that finds out that the other one has gone.                       *)
LEMMA GoneStep ==
  ASSUME StreamInv, NEW e \in Ends, ~Gone(Peer(e)), ~Gone(Peer(e))', NEW x \in Ends,
         ReadFails(x) \/ WriteFails(x) \/ WriteLost(x) \/ ReadEnd(x) \/ WriteKills(x)
  PROVE  FrameOK(e)' /\ Moves(e)
<1>1. /\ conn \in [Ends -> {"up", "eof", "reset", "spent", "closed"}]
      /\ outBuf \in [Ends -> Buffer]
      /\ conn[e] \in {"closed", "up"} /\ FrameOK(e) /\ Peer(e) \in Ends /\ Peer(e) # e
      /\ Peer(Peer(e)) = e
  BY LinkUp, PeerIs DEF StreamInv, TypeOK, Gone
<1>2. /\ conn[x] \in {"eof", "reset", "spent"} /\ UNCHANGED inBuf /\ Kept(e)
      /\ conn' = [conn EXCEPT ![x] = "spent"] \/ conn' = [conn EXCEPT ![x] = "closed"]
  BY DEF ReadFails, WriteFails, WriteLost, ReadEnd, WriteKills, Kept, Lossy
<1>3. x = Peer(e)
  BY <1>1, <1>2, PeerIs
<1>4. conn[e] = "closed"
  BY <1>1, <1>2, <1>3 DEF StreamInv, ConnOK
<1>5. ReadFails(x) \/ WriteFails(x) \/ WriteLost(x)
  <2>1. conn'[x] # "closed"
    BY <1>3 DEF Gone
  <2> QED
    BY <1>1, <1>3, <2>1 DEF ReadEnd, WriteKills
<1>6. /\ UNCHANGED <<inBuf, wire>> /\ outBuf'[e] = outBuf[e] /\ conn'[e] = conn[e] /\ conn'[x] = "spent"
  BY <1>1, <1>3, <1>5 DEF ReadFails, WriteFails, WriteLost
<1>7. Stream(e)' = Stream(e)
  BY <1>6, SameStream
<1>8. ToEncode(e)' = ToEncode(e)
  BY <1>4, <1>6 DEF ToEncode
<1>9. Ended' = Ended /\ (Gone(e) => Gone(e)')
  <2>1. e = "client" \/ x = "client"
    BY <1>3 DEF Ends, Peer
  <2> QED
    BY <1>2, <1>4, <1>6, <2>1 DEF Ended, Gone
<1> QED
  BY <1>1, <1>2, <1>7, <1>8, <1>9, QuietStep

LEMMA ChannelNext ==
  ASSUME StreamInv, TypeOK', \A x \in Ends : ConnOK(x)', [Next]_vars, NEW e \in Ends
  PROVE  FrameOK(e)' /\ Moves(e)
<1>1. CASE Gone(Peer(e))'
  BY <1>1, DeafStep DEF StreamInv
<1>2. CASE ~Gone(Peer(e))'
  <2>1. ~Gone(Peer(e)) /\ Peer(e) \in Ends /\ Peer(Peer(e)) = e
    BY <1>2, GoneStays, PeerIs
  <2>2. CASE UNCHANGED vars
    <3>1. ToEncode(e)' = ToEncode(e) /\ UNCHANGED <<conn, inBuf, wire, outBuf, refused, received>>
      BY <2>2 DEF vars, ToEncode, At
    <3> QED
      BY <1>2, <2>1, <3>1, StillStep
  <2>3. ASSUME NEW q \in Requests, WriteMessage(q) PROVE FrameOK(e)' /\ Moves(e)
    BY <1>2, <2>1, <2>3, RequestStep
  <2>4. ASSUME NEW x \in Ends, Hangup(x) PROVE FrameOK(e)' /\ Moves(e)
    <3>1. CASE x = e
      BY <1>2, <2>1, <2>4, <3>1, HangupStep
    <3>2. CASE x # e
      <4>1. x = Peer(e)
        BY <3>2, PeerIs
      <4>2. conn'[x] = "closed"
        BY <2>4 DEF Hangup
      <4> QED
        BY <1>2, <4>1, <4>2 DEF Gone
    <3> QED
      BY <3>1, <3>2
  <2>5. ASSUME NEW x \in Ends,
               OnRead(x) \/ ReadNothing(x) \/ DecodeDone(x) \/ OnWrite(x) \/ EncodeDone(x) \/ WriteBlocked(x)
        PROVE  FrameOK(e)' /\ Moves(e)
    BY <1>2, <2>1, <2>5, QueueSteps
  <2>6. ASSUME NEW x \in Ends,
               ReadFails(x) \/ WriteFails(x) \/ WriteLost(x) \/ ReadEnd(x) \/ WriteKills(x)
        PROVE  FrameOK(e)' /\ Moves(e)
    BY <1>2, <2>1, <2>6, GoneStep
  <2>7. ASSUME Encode(e) \/ WriteSome(e) \/ ReadSome(e) \/ Decode(e) \/ Misread(e)
        PROVE  FrameOK(e)' /\ Moves(e)
    <3>1. CASE Decode(e) /\ e = "server"
      <4>1. Peer(e) = "client"
        BY <3>1 DEF Peer
      <4> QED
        BY <1>2, <2>1, <3>1, <4>1, AnswerStep
    <3>2. CASE Decode(e) /\ e = "client"
      BY <1>2, <2>1, <3>2, OtherWaySteps
    <3> QED
      BY <1>2, <2>1, <2>7, <3>1, <3>2, EncodeStep, WriteStep, OtherWaySteps DEF Ends
  <2>8. ASSUME Encode(Peer(e)) \/ WriteSome(Peer(e)) \/ ReadSome(Peer(e)) \/ Decode(Peer(e))
                 \/ Misread(Peer(e))
        PROVE  FrameOK(e)' /\ Moves(e)
    BY <1>2, <2>1, <2>8, ReadStep, DecodeStep, MisreadStep, OtherWaySteps
  <2>9. ASSUME NEW x \in Ends, EndStep(x) PROVE FrameOK(e)' /\ Moves(e)
    <3>1. x = e \/ x = Peer(e)
      BY PeerIs
    <3> QED
      BY <2>5, <2>6, <2>7, <2>8, <2>9, <3>1 DEF EndStep
  <2> QED
    BY <2>2, <2>3, <2>4, <2>9 DEF Next
<1> QED
  BY <1>1, <1>2

LEMMA StreamInit == Init => StreamInv
<1> SUFFICES ASSUME Init PROVE StreamInv
  OBVIOUS
<1>1. TypeOK /\ IndexInv
  BY InitInv
<1>2. QueueInv
  BY EmptySeq DEF Init, QueueInv, Ends
<1>3. ASSUME NEW e \in Ends PROVE ConnOK(e) /\ FrameOK(e)
  <2>1. ConnOK(e)
    BY <1>3 DEF Init, ConnOK
  <2>2. Stream(e) = <<>>
    <3>1. /\ inBuf[Peer(e)].bytes = <<>> /\ outBuf[e].bytes = <<>> /\ wire[Peer(e)] = <<>>
      BY <1>3, PeerIs DEF Init, NewBuffer
    <3>2. <<>> \o <<>> = <<>>
      <4>1. <<>> \in Seq(Byte)
        BY EmptySeq
      <4> QED
        BY <4>1, ConcatEmptySeq
    <3> QED
      BY <3>1, <3>2 DEF Stream
  <2> QED
    BY <2>1, <2>2, FramedEmpty DEF FrameOK
<1> QED
  BY <1>1, <1>2, <1>3 DEF StreamInv

LEMMA StreamNext ==
  ASSUME StreamInv, [Next]_vars
  PROVE  StreamInv' /\ \A e \in Ends : Moves(e)
<1>1. TypeOK' /\ IndexInv'
  BY NextInv DEF StreamInv
<1>2. \A e \in Ends : ConnOK(e)'
  BY <1>1, ConnNext DEF StreamInv
<1>3. QueueInv'
  BY <1>1, QueueNext DEF StreamInv
<1>4. \A e \in Ends : FrameOK(e)' /\ Moves(e)
  BY <1>1, <1>2, ChannelNext
<1> QED
  BY <1>1, <1>2, <1>3, <1>4 DEF StreamInv

LEMMA StreamSafe == Spec => []StreamInv
<1>1. StreamInv /\ [Next]_vars => StreamInv'
  BY StreamNext
<1> QED
  BY <1>1, StreamInit, PTL DEF Spec

LEMMA InitSendings ==
  Init => \A e \in Ends : /\ Sendings(e) = <<>> /\ received[Peer(e)] = <<>>
                          /\ Lossy(e) = FALSE /\ Ended = FALSE
<1> SUFFICES ASSUME Init, NEW e \in Ends
             PROVE  /\ Sendings(e) = <<>> /\ received[Peer(e)] = <<>>
                    /\ Lossy(e) = FALSE /\ Ended = FALSE
  OBVIOUS
<1>1. /\ inBuf[Peer(e)].bytes = <<>> /\ outBuf[e].bytes = <<>> /\ wire[Peer(e)] = <<>>
      /\ conn[e] = "up" /\ conn["client"] = "up" /\ refused = {} /\ todo[e] = <<>> /\ m_write_cb = <<>>
      /\ received[Peer(e)] = <<>>
  BY PeerIs DEF Init, NewBuffer, Ends
<1>2. /\ \A S : <<>> \in Seq(S)
      /\ <<>> \o <<>> = <<>>
  <2>1. <<>> \in Seq(Byte)
    BY EmptySeq
  <2> QED
    BY <2>1, EmptySeq, ConcatEmptySeq
<1>3. Stream(e) = <<>> /\ ToEncode(e) = <<>>
  BY <1>1, <1>2 DEF Stream, ToEncode
<1>4. Sendings(e) = <<>>
  BY <1>2, <1>3, MessagesEmpty DEF Sendings, OnTheWay
<1> QED
  BY <1>1, <1>4 DEF Lossy, Ended

(* The requests reach the server's dispatcher as through a FIFO, whatever   *)
(* way the bytes are split. It loses requests only once bytes were refused, *)
(* and the last of them when an end hangs up: onWrite, onRead and decode    *)
(* implement MessageChannel.                                                *)
THEOREM RequestsImplemented == Spec => RequestsInOrder
<1>1. /\ "client" \in Ends /\ Peer("client") = "server"
      /\ From("client") = {Request(q) : q \in Requests}
      /\ Lossy("client") = ("server" \in refused) /\ Lossy("client")' = ("server" \in refused)'
      /\ Ended = (conn["client"] # "up") /\ Ended' = (conn["client"] # "up")'
  BY DEF Ends, Peer, From, Lossy, Ended
<1>2. Init => RequestChannel!Init
  BY <1>1, InitSendings DEF RequestChannel!Init
<1>3. StreamInv /\ [Next]_vars =>
        [RequestChannel!Next]_<<Sendings("client"), received["server"], "server" \in refused,
                                conn["client"] # "up">>
  <2> SUFFICES ASSUME StreamInv, [Next]_vars
               PROVE  [RequestChannel!Next]_<<Sendings("client"), received["server"],
                                              "server" \in refused, conn["client"] # "up">>
    OBVIOUS
  <2>1. Moves("client")
    BY <1>1, StreamNext
  <2> QED
    BY <1>1, <2>1
    DEF Moves, RequestChannel!Next, RequestChannel!Send, RequestChannel!Receive,
        RequestChannel!Lose, RequestChannel!Close
<1> QED
  BY <1>2, <1>3, StreamSafe, PTL DEF Spec, RequestsInOrder, RequestChannel!Spec

(* The answers reach the client's callbacks as through such a FIFO.         *)
THEOREM AnswersImplemented == Spec => AnswersInOrder
<1>1. /\ "server" \in Ends /\ Peer("server") = "client"
      /\ From("server") = {Answer(q) : q \in Requests}
      /\ Lossy("server") = ("client" \in refused) /\ Lossy("server")' = ("client" \in refused)'
      /\ Ended = (conn["client"] # "up") /\ Ended' = (conn["client"] # "up")'
  BY DEF Ends, Peer, From, Lossy, Ended
<1>2. Init => AnswerChannel!Init
  BY <1>1, InitSendings DEF AnswerChannel!Init
<1>3. StreamInv /\ [Next]_vars =>
        [AnswerChannel!Next]_<<Sendings("server"), received["client"], "client" \in refused,
                               conn["client"] # "up">>
  <2> SUFFICES ASSUME StreamInv, [Next]_vars
               PROVE  [AnswerChannel!Next]_<<Sendings("server"), received["client"],
                                             "client" \in refused, conn["client"] # "up">>
    OBVIOUS
  <2>1. Moves("server")
    BY <1>1, StreamNext
  <2> QED
    BY <1>1, <2>1
    DEF Moves, AnswerChannel!Next, AnswerChannel!Send, AnswerChannel!Receive, AnswerChannel!Lose,
        AnswerChannel!Close
<1> QED
  BY <1>2, <1>3, StreamSafe, PTL DEF Spec, AnswersInOrder, AnswerChannel!Spec
=============================================================================
