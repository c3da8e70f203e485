---------------------------- MODULE MCTcpStream ----------------------------
EXTENDS TcpStream

CONSTANTS q1, q2, q3

ThreeRequests == {q1, q2, q3}

(* With BufferSize 6 and WireSize 3: one long request and one long answer,  *)
(* which fit or not depending on what was consumed before them; when they   *)
(* do not, their middle or their end is refused.                            *)
RequestLens == [q \in Requests |-> IF q = q2 THEN 4 ELSE 2]
AnswerLens  == [q \in Requests |-> IF q = q3 THEN 4 ELSE IF q = q1 THEN 3 ELSE 2]

(* Two requests go out under the id the coder gives those without one.      *)
MsgIds == [q \in Requests |-> IF q = q3 THEN <<7>> ELSE NoId]
=============================================================================
