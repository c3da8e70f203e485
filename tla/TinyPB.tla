------------------------------- MODULE TinyPB -------------------------------
(* TinyPBProtocol and the layout TinyPBCoder gives it on the wire           *)
(* (include/rapidrpc/net/coder/tinypb_protocol.h, coder/tinypb_coder.cc).   *)
(*                                                                          *)
(* Strings are sequences, the empty one <<>>. An encoded message is a       *)
(* sequence of cells: a character is a cell, an int32_t is one cell and not *)
(* four. The checksum is any digest that tells its inputs apart.            *)
EXTENDS Integers, Sequences

NoId      == <<>>
DefaultId == <<1, 2, 3, 4, 5, 6>>
IntSize   == 1
PB_START  == "PB_START"
PB_END    == "PB_END"

IsString(s) == s \in Seq({s[i] : i \in DOMAIN s})

NewProtocol == [m_msg_id |-> NoId, m_method_name |-> <<>>, m_err_code |-> "OK",
                m_err_info |-> <<>>, m_pb_data |-> <<>>]

(* The setters; the lengths they also keep are those of the fields.         *)
SetMsgId(msg, id)         == [msg EXCEPT !.m_msg_id = id]
SetMethodName(msg, name)  == [msg EXCEPT !.m_method_name = name]
SetErrCodeAndInfo(msg, err, info) == [msg EXCEPT !.m_err_code = err, !.m_err_info = info]
SetPbData(msg, data)      == [msg EXCEPT !.m_pb_data = data]

(* complete, and again in encodeMessage.                                    *)
PkLen(msg) == 2 + 6 * IntSize + Len(msg.m_msg_id) + Len(msg.m_method_name)
                + Len(msg.m_err_info) + Len(msg.m_pb_data)

-----------------------------------------------------------------------------
(* encodeMessage names a message without an id, in the message itself: the  *)
(* id is the one its sender then waits for.                                 *)
EncodedId(id) == IF id = NoId THEN DefaultId ELSE id

ChecksumCell(cells) == Len(cells) - IntSize

(* checksum_xor, of the message with its checksum zeroed.                   *)
Checksum(cells) == [cells EXCEPT ![ChecksumCell(cells)] = 0]

ChecksumValid(cells) == cells[ChecksumCell(cells)] = Checksum(cells)

Field(string) == <<Len(string)>> \o string

EncodeMessage(message) ==
  LET msg   == SetMsgId(message, EncodedId(message.m_msg_id))
      cells == <<PB_START, PkLen(msg)>> \o Field(msg.m_msg_id) \o Field(msg.m_method_name)
                 \o <<msg.m_err_code>> \o Field(msg.m_err_info) \o msg.m_pb_data \o <<0, PB_END>>
  IN [cells EXCEPT ![ChecksumCell(cells)] = Checksum(cells)]

(* checkIndexValid; indices are the code's, from 0.                         *)
CheckIndexValid(index, len, end) == index + len < end

(* What decode makes of the cells of one message: the fields one after the  *)
(* other, each checked against the end, or nothing.                         *)
DecodeFields(cells) ==
  LET end        == cells[2]
      Number(index) == cells[index + 1]
      Text(index) == SubSeq(cells, index + IntSize + 1, index + IntSize + Number(index))
      id     == 1 + IntSize
      method == id + IntSize + Number(id)
      code   == method + IntSize + Number(method)
      info   == code + IntSize
      data   == info + IntSize + Number(info)
      HasText(index) == CheckIndexValid(index, IntSize, end)
                          /\ CheckIndexValid(index + IntSize, Number(index), end)
  IN IF /\ HasText(id) /\ HasText(method)
        /\ CheckIndexValid(code, IntSize, end) /\ HasText(info)
        /\ data + IntSize + 1 <= end
        /\ ChecksumValid(cells)
     THEN {[m_msg_id |-> Text(id), m_method_name |-> Text(method), m_err_code |-> Number(code),
            m_err_info |-> Text(info), m_pb_data |-> SubSeq(cells, data + 1, end - IntSize - 1)]}
     ELSE {}

(* What arrives of a message: what it decodes to at the other end.          *)
Received(msg) == UNION {DecodeFields(cells) : cells \in {EncodeMessage(msg)}}
=============================================================================
