------------------------------- MODULE MsgId -------------------------------
(* MsgIdUtil::GenMsgId (src/common/msg_id_util.cc), the message ids of one  *)
(* thread: a number drawn digit by digit from /dev/urandom, then counted up *)
(* until all its digits are 9. t_msg_id_no is <<>> before the first draw.   *)
EXTENDS Integers, Sequences

CONSTANTS Base,     \* the digits are 0 to Base - 1: 10
          IdLength, \* g_msg_id_length: 20
          Draws     \* the ids /dev/urandom may give

ASSUME BaseAssumption == Base \in Nat /\ Base >= 2
ASSUME IdLengthAssumption == IdLength \in Nat \ {0}

Ids   == [1..IdLength -> 0..(Base - 1)]

ASSUME DrawsAssumption == Draws \subseteq Ids

MaxId == [i \in 1..IdLength |-> Base - 1]

(* Mutant: the digits behind the one that grows keep their value.           *)
IncrementWithoutCarry(no) ==
  LET p == CHOOSE i \in 1..IdLength : no[i] # Base - 1 /\ \A j \in (i + 1)..IdLength : no[j] = Base - 1
  IN [no EXCEPT ![p] = @ + 1]

(* The loop from the last digit: 9s become 0 up to the first other digit,   *)
(* which takes the carry.                                                   *)
Increment(no) ==
  LET p == CHOOSE i \in 1..IdLength : no[i] # Base - 1 /\ \A j \in (i + 1)..IdLength : no[j] = Base - 1
  IN [i \in 1..IdLength |-> IF i < p THEN no[i] ELSE IF i = p THEN no[i] + 1 ELSE 0]

(* What a call may do: t_msg_id_no afterwards, and the id returned. A short *)
(* read from /dev/urandom returns none.                                     *)
GenMsgId(no) ==
  IF no \in {<<>>, MaxId}
  THEN {[no |-> drawn, id |-> drawn] : drawn \in Draws} \cup {[no |-> no, id |-> <<>>]}
  ELSE {[no |-> Increment(no), id |-> Increment(no)]}
=============================================================================
