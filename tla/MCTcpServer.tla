---------------------------- MODULE MCTcpServer ----------------------------
EXTENDS TcpServer

CONSTANTS c1, c2, c3

TwoConns   == {c1, c2}
ThreeConns == {c1, c2, c3}

(* The acceptor's number and two more, the last past the group's end.       *)
SomeFds == {5, 6, 7}
=============================================================================
