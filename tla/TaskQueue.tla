----------------------------- MODULE TaskQueue -----------------------------
(* What an EventLoop promises to the threads that hand it work: one queue   *)
(* from which tasks leave in the order they entered, one at a time, none    *)
(* lost and none run twice, until the loop has ended.                       *)
EXTENDS Sequences

CONSTANT Task

VARIABLES queue,   \* tasks accepted and not yet run
          closed   \* the loop has returned

Init == /\ queue = <<>>
        /\ closed = FALSE

Post == /\ \E task \in Task : queue' = Append(queue, task)
        /\ UNCHANGED closed

Take == /\ ~closed
        /\ queue # <<>>
        /\ queue' = Tail(queue)
        /\ UNCHANGED closed

Close == /\ ~closed
         /\ closed' = TRUE
         /\ UNCHANGED queue

Next == Post \/ Take \/ Close

Spec == Init /\ [][Next]_<<queue, closed>>
=============================================================================
