----------------------------- MODULE TcpBuffer -----------------------------
(* TcpBuffer (src/net/tcp/tcp_buffer.cc) as operators on its value. A       *)
(* buffer keeps the bytes between its two indices; what lies outside them   *)
(* in the vector is never looked at. Moving the bytes to the front of the   *)
(* vector only resets the read index.                                       *)
EXTENDS Integers, Sequences

(* m_size, m_read_index, the unread bytes, and m_buffer.size(), which the   *)
(* constructor's reserve() leaves at 0.                                     *)
NewBuffer(size) == [size |-> size, read |-> 0, bytes |-> <<>>, vec |-> 0]

ReadAvailable(b)  == Len(b.bytes)
WriteIndex(b)     == b.read + Len(b.bytes)
WriteAvailable(b) == b.size - WriteIndex(b)

ResizeBuffer(b, size) ==
  IF size < ReadAvailable(b) THEN b
  ELSE [b EXCEPT !.size = size, !.read = 0, !.vec = size]

(* Mutant: the consumed bytes are never reclaimed.                          *)
ShiftNever(b) == b

ShiftBuffer(b) == IF b.read >= b.size \div 2 THEN [b EXCEPT !.read = 0] ELSE b

(* Mutant: the resized buffer has no room for what it already holds.        *)
WriteAfterSmallResize(b, data) ==
  LET room == IF Len(data) > WriteAvailable(b) THEN ResizeBuffer(b, Len(data)) ELSE b
  IN [room EXCEPT !.bytes = @ \o data]

WriteToBuffer(b, data) ==
  LET room == IF Len(data) > WriteAvailable(b)
              THEN ResizeBuffer(b, 2 * (ReadAvailable(b) + Len(data))) ELSE b
  IN [room EXCEPT !.bytes = @ \o data]

Drop(b, n) == [b EXCEPT !.read = @ + n, !.bytes = SubSeq(@, n + 1, Len(@))]

(* readFromBuffer of n bytes that are there.                                *)
ReadFromBuffer(b, n) == ShiftBuffer(Drop(b, n))

(* Mutant: one byte of what was written stays in the buffer.                *)
MoveReadShort(b, n) == ShiftBuffer(Drop(b, n - 1))

MoveReadIndex(b, n) ==
  IF n >= ReadAvailable(b) THEN [b EXCEPT !.read = 0, !.bytes = <<>>]
  ELSE ShiftBuffer(Drop(b, n))

(* Bytes the kernel has put behind the write index; moveWriteIndex takes    *)
(* them over or, when they reach the end of the buffer, refuses.            *)
Refuses(b, data) == WriteIndex(b) + Len(data) >= b.size

(* Mutant: the check lets the index reach the end.                          *)
MoveWriteToEnd(b, data) ==
  IF WriteIndex(b) + Len(data) > b.size THEN b ELSE [b EXCEPT !.bytes = @ \o data]

MoveWriteIndex(b, data) == IF Refuses(b, data) THEN b ELSE [b EXCEPT !.bytes = @ \o data]
=============================================================================
