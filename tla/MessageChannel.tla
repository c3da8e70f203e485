--------------------------- MODULE MessageChannel ---------------------------
(* What one direction of a connection promises: the messages received were  *)
(* sent, in the order they were sent and at most once each. A channel loses *)
(* messages only when it is lossy, from then on some behind one another at  *)
(* a time, or when it closes: then the last of those under way, the first   *)
(* of them may still arrive and no more are sent.                           *)
EXTENDS Sequences, Integers

CONSTANT Message

VARIABLES queue,    \* messages sent, not lost and not yet received
          received, \* those received, in order
          lossy,
          closed

Init == queue = <<>> /\ received = <<>> /\ lossy = FALSE /\ closed = FALSE

Send == /\ ~closed
        /\ \E m \in Message : queue' = Append(queue, m)
        /\ UNCHANGED <<received, lossy, closed>>

Receive == /\ queue # <<>>
           /\ queue' = Tail(queue)
           /\ received' = Append(received, Head(queue))
           /\ UNCHANGED <<lossy, closed>>

Lose == /\ lossy' = TRUE
        /\ \E i \in 0..Len(queue) : \E j \in i..Len(queue) :
             queue' = SubSeq(queue, 1, i) \o SubSeq(queue, j + 1, Len(queue))
        /\ UNCHANGED <<received, closed>>

Close == /\ closed' = TRUE
         /\ \E n \in 0..Len(queue) : queue' = SubSeq(queue, 1, n)
         /\ UNCHANGED <<received, lossy>>

Next == Send \/ Receive \/ Lose \/ Close

Spec == Init /\ [][Next]_<<queue, received, lossy, closed>>
=============================================================================
