------------------------- MODULE DispatcherProofs --------------------------
(* Proofs about the coding of messages and the dispatch of requests, for    *)
(* any strings and any services.                                            *)
EXTENDS Dispatcher, SequenceTheorems, FiniteSetTheorems, WellFoundedInduction, TLAPS

-----------------------------------------------------------------------------
(* Sequences.                                                               *)

LEMMA StringIn ==
  ASSUME NEW s, IsString(s), NEW S, {s[i] : i \in DOMAIN s} \subseteq S
  PROVE  s \in Seq(S)
  BY SeqMonotonic DEF IsString

LEMMA StringOf ==
  ASSUME NEW S, NEW s \in Seq(S)
  PROVE  IsString(s)
<1>1. Len(s) \in Nat /\ s \in [1..Len(s) -> S] /\ DOMAIN s = 1..Len(s)
  BY LenProperties
<1>2. s \in [1..Len(s) -> {s[i] : i \in DOMAIN s}]
  BY <1>1
<1> QED
  BY <1>1, <1>2, SeqDef DEF IsString

(* q is p continued by t.                                                   *)
Joined(S, p, t, q) ==
  /\ q \in Seq(S) /\ Len(p) \in Nat /\ Len(t) \in Nat
  /\ Len(q) = Len(p) + Len(t)
  /\ \A i \in 1..Len(p) : q[i] = p[i]
  /\ \A i \in 1..Len(t) : q[Len(p) + i] = t[i]

LEMMA Continued ==
  ASSUME NEW S, NEW p \in Seq(S), NEW t \in Seq(S)
  PROVE  Joined(S, p, t, p \o t)
<1>1. Len(p) \in Nat /\ Len(t) \in Nat
  BY LenProperties
<1>2. /\ p \o t \in Seq(S) /\ Len(p \o t) = Len(p) + Len(t)
      /\ \A i \in 1..Len(p) + Len(t) : (p \o t)[i] = IF i <= Len(p) THEN p[i] ELSE t[i - Len(p)]
  BY ConcatProperties
<1>3. ASSUME NEW i \in 1..Len(p) PROVE (p \o t)[i] = p[i]
  <2>1. i \in 1..Len(p) + Len(t) /\ i <= Len(p)
    BY <1>1
  <2> QED
    BY <1>2, <2>1
<1>4. ASSUME NEW i \in 1..Len(t) PROVE (p \o t)[Len(p) + i] = t[i]
  <2>1. Len(p) + i \in 1..Len(p) + Len(t) /\ ~ (Len(p) + i <= Len(p)) /\ Len(p) + i - Len(p) = i
    BY <1>1
  <2>2. (p \o t)[Len(p) + i] = t[Len(p) + i - Len(p)]
    BY <1>2, <2>1
  <2> QED
    BY <2>1, <2>2
<1> QED
  BY <1>1, <1>2, <1>3, <1>4 DEF Joined

(* A part of a sequence, found again in what agrees with it there.          *)
LEMMA PartIs ==
  ASSUME NEW S, NEW x \in Seq(S), NEW c, NEW n \in Nat,
         \A i \in 1..Len(x) : c[n + i] = x[i]
  PROVE  SubSeq(c, n + 1, n + Len(x)) = x
<1>1. Len(x) \in Nat /\ \A i \in 1..Len(x) : x[i] \in S
  BY LenProperties, ElementOfSeq
<1>2. ASSUME NEW i \in n + 1..n + Len(x) PROVE c[i] \in S
  <2>1. i - n \in 1..Len(x) /\ n + (i - n) = i
    BY <1>1
  <2> QED
    BY <1>1, <2>1
<1> DEFINE part == SubSeq(c, n + 1, n + Len(x))
<1>3. /\ part \in Seq(S)
      /\ Len(part) = IF n + 1 <= n + Len(x) THEN n + Len(x) - (n + 1) + 1 ELSE 0
      /\ \A i \in 1..n + Len(x) - (n + 1) + 1 : part[i] = c[n + 1 + i - 1]
  <2>1. n + 1 \in Int /\ n + Len(x) \in Int
    BY <1>1
  <2> QED
    BY <1>2, <2>1, SubSeqProperties
<1> HIDE DEF part
<1>4. Len(part) = Len(x)
  BY <1>1, <1>3
<1>5. ASSUME NEW i \in 1..Len(x) PROVE part[i] = x[i]
  <2>1. i \in 1..n + Len(x) - (n + 1) + 1 /\ n + 1 + i - 1 = n + i
    BY <1>1
  <2> QED
    BY <1>3, <2>1
<1>6. part = x
  BY <1>3, <1>4, <1>5, SeqEqual
<1> QED
  BY <1>6 DEF part

-----------------------------------------------------------------------------
(* A message's cells, one field after the other, before its checksum.       *)

IsMessage(msg) ==
  /\ msg = [m_msg_id |-> msg.m_msg_id, m_method_name |-> msg.m_method_name,
            m_err_code |-> msg.m_err_code, m_err_info |-> msg.m_err_info,
            m_pb_data |-> msg.m_pb_data]
  /\ IsString(msg.m_msg_id) /\ IsString(msg.m_method_name)
  /\ IsString(msg.m_err_info) /\ IsString(msg.m_pb_data)

Start(msg)      == <<PB_START, PkLen(msg)>>
UpToId(msg)     == Start(msg) \o Field(msg.m_msg_id)
UpToMethod(msg) == UpToId(msg) \o Field(msg.m_method_name)
UpToCode(msg)   == UpToMethod(msg) \o <<msg.m_err_code>>
UpToInfo(msg)   == UpToCode(msg) \o Field(msg.m_err_info)
UpToData(msg)   == UpToInfo(msg) \o msg.m_pb_data
Whole(msg)      == UpToData(msg) \o <<0, PB_END>>

(* Where they begin, from 0.                                                *)
MethodAt(msg) == 3 + Len(msg.m_msg_id)
CodeAt(msg)   == MethodAt(msg) + 1 + Len(msg.m_method_name)
InfoAt(msg)   == CodeAt(msg) + 1
DataAt(msg)   == InfoAt(msg) + 1 + Len(msg.m_err_info)

(* The cells c have every field of msg at its place.                        *)
Holds(c, msg) ==
  /\ c[2] = PkLen(msg)
  /\ c[3] = Len(msg.m_msg_id)
  /\ SubSeq(c, 4, 3 + Len(msg.m_msg_id)) = msg.m_msg_id
  /\ c[MethodAt(msg) + 1] = Len(msg.m_method_name)
  /\ SubSeq(c, MethodAt(msg) + 2, MethodAt(msg) + 1 + Len(msg.m_method_name)) = msg.m_method_name
  /\ c[CodeAt(msg) + 1] = msg.m_err_code
  /\ c[InfoAt(msg) + 1] = Len(msg.m_err_info)
  /\ SubSeq(c, InfoAt(msg) + 2, InfoAt(msg) + 1 + Len(msg.m_err_info)) = msg.m_err_info
  /\ SubSeq(c, DataAt(msg) + 1, DataAt(msg) + Len(msg.m_pb_data)) = msg.m_pb_data

Begins(p, c) == \A i \in 1..Len(p) : c[i] = p[i]

(* q continues p by the field x, and the cells c hold both.                 *)
FieldIn(S, p, x, q, c) ==
  /\ q \in Seq(S) /\ Len(q) = Len(p) + 1 + Len(x)
  /\ Len(p) \in Nat /\ Len(x) \in Nat
  /\ Begins(p, c)
  /\ c[Len(p) + 1] = Len(x)
  /\ SubSeq(c, Len(p) + 2, Len(p) + 1 + Len(x)) = x

LEMMA FieldHeld ==
  ASSUME NEW S, Nat \subseteq S, NEW p \in Seq(S), NEW x \in Seq(S), NEW c,
         Begins(p \o Field(x), c)
  PROVE  FieldIn(S, p, x, p \o Field(x), c)
<1>1. /\ Len(p) \in Nat /\ Len(x) \in Nat /\ <<Len(x)>> \in Seq(S) /\ Len(<<Len(x)>>) = 1
      /\ <<Len(x)>>[1] = Len(x)
  <2>1. Len(x) \in S /\ Len(p) \in Nat /\ Len(x) \in Nat
    BY LenProperties
  <2> QED
    BY <2>1
<1>2. /\ Field(x) \in Seq(S) /\ Len(Field(x)) = 1 + Len(x) /\ Field(x)[1] = Len(x)
      /\ \A i \in 1..Len(x) : Field(x)[1 + i] = x[i]
  <2> DEFINE l == <<Len(x)>>
  <2>1. l \in Seq(S) /\ Len(l) = 1 /\ l[1] = Len(x)
    BY <1>1
  <2> HIDE DEF l
  <2>2. Field(x) = l \o x
    BY DEF Field, l
  <2>3. Joined(S, l, x, Field(x))
    BY <2>1, <2>2, Continued
  <2> QED
    BY <2>1, <2>3 DEF Joined
<1>3. Joined(S, p, Field(x), p \o Field(x))
  BY <1>2, Continued
<1> DEFINE f == Field(x)
           q == p \o Field(x)
<1> HIDE DEF f, q
<1>4. /\ q \in Seq(S) /\ Len(q) = Len(p) + 1 + Len(x)
      /\ \A i \in 1..Len(p) : q[i] = p[i]
      /\ \A i \in 1..1 + Len(x) : q[Len(p) + i] = f[i]
      /\ \A i \in 1..Len(p) + 1 + Len(x) : c[i] = q[i]
  <2>1. Joined(S, p, f, q) /\ Len(f) = 1 + Len(x) /\ Begins(q, c)
    BY <1>2, <1>3 DEF f, q
  <2>2. Len(q) = Len(p) + 1 + Len(x)
    BY <1>1, <2>1 DEF Joined
  <2> QED
    BY <2>1, <2>2 DEF Joined, Begins
<1>5. Begins(p, c)
  <2>1. \A i \in 1..Len(p) : i \in 1..Len(p) + 1 + Len(x)
    BY <1>1
  <2> QED
    BY <1>4, <2>1 DEF Begins
<1>6. ASSUME NEW i \in 1..1 + Len(x) PROVE c[Len(p) + i] = f[i]
  <2>1. Len(p) + i \in 1..Len(p) + 1 + Len(x)
    BY <1>1
  <2> QED
    BY <1>4, <2>1
<1>7. c[Len(p) + 1] = Len(x)
  <2>1. 1 \in 1..1 + Len(x)
    BY <1>1
  <2> QED
    BY <1>2, <1>6, <2>1 DEF f
<1>8. ASSUME NEW i \in 1..Len(x) PROVE c[Len(p) + 1 + i] = x[i]
  <2>1. PICK j : j = 1 + i
    OBVIOUS
  <2>2. j \in 1..1 + Len(x) /\ Len(p) + 1 + i = Len(p) + j
    BY <1>1, <2>1
  <2> QED
    BY <1>2, <1>6, <2>1, <2>2 DEF f
<1>9. SubSeq(c, Len(p) + 1 + 1, Len(p) + 1 + Len(x)) = x
  <2>1. Len(p) + 1 \in Nat
    BY <1>1
  <2> QED
    BY <1>8, <2>1, PartIs
<1>10. Len(p) + 1 + 1 = Len(p) + 2
  BY <1>1
<1> QED
  BY <1>1, <1>4, <1>5, <1>7, <1>9, <1>10 DEF FieldIn, q

(* The same for what is no field: the sequence itself.                      *)
PartIn(S, p, x, q, c) ==
  /\ q \in Seq(S) /\ Len(q) = Len(p) + Len(x)
  /\ Len(p) \in Nat /\ Len(x) \in Nat
  /\ Begins(p, c)
  /\ \A i \in 1..Len(x) : c[Len(p) + i] = x[i]
  /\ SubSeq(c, Len(p) + 1, Len(p) + Len(x)) = x

LEMMA PartHeld ==
  ASSUME NEW S, NEW p \in Seq(S), NEW x \in Seq(S), NEW c, Begins(p \o x, c)
  PROVE  PartIn(S, p, x, p \o x, c)
<1>1. /\ Len(p) \in Nat /\ Len(x) \in Nat
      /\ p \o x \in Seq(S) /\ Len(p \o x) = Len(p) + Len(x)
      /\ \A i \in 1..Len(p) : (p \o x)[i] = p[i]
      /\ \A i \in 1..Len(x) : (p \o x)[Len(p) + i] = x[i]
  BY Continued DEF Joined
<1>2. \A i \in 1..Len(p) + Len(x) : c[i] = (p \o x)[i]
  BY <1>1 DEF Begins
<1>3. Begins(p, c)
  <2>1. \A i \in 1..Len(p) : i \in 1..Len(p) + Len(x)
    BY <1>1
  <2> QED
    BY <1>1, <1>2, <2>1 DEF Begins
<1>4. ASSUME NEW i \in 1..Len(x) PROVE c[Len(p) + i] = x[i]
  <2>1. Len(p) + i \in 1..Len(p) + Len(x)
    BY <1>1
  <2> QED
    BY <1>1, <1>2, <2>1
<1> QED
  BY <1>1, <1>3, <1>4, PartIs DEF PartIn

(* The lengths of a message's fields, and the places they add up to.        *)
LEMMA Places ==
  ASSUME NEW msg, IsMessage(msg)
  PROVE  /\ Len(msg.m_msg_id) \in Nat /\ Len(msg.m_method_name) \in Nat
         /\ Len(msg.m_err_info) \in Nat /\ Len(msg.m_pb_data) \in Nat
         /\ MethodAt(msg) = 3 + Len(msg.m_msg_id)
         /\ CodeAt(msg) = 4 + Len(msg.m_msg_id) + Len(msg.m_method_name)
         /\ InfoAt(msg) = 5 + Len(msg.m_msg_id) + Len(msg.m_method_name)
         /\ DataAt(msg) = 6 + Len(msg.m_msg_id) + Len(msg.m_method_name) + Len(msg.m_err_info)
         /\ PkLen(msg) = 8 + Len(msg.m_msg_id) + Len(msg.m_method_name) + Len(msg.m_err_info)
                           + Len(msg.m_pb_data)
<1> DEFINE a == Len(msg.m_msg_id)
           b == Len(msg.m_method_name)
           e == Len(msg.m_err_info)
           d == Len(msg.m_pb_data)
<1>1. a \in Nat /\ b \in Nat /\ e \in Nat /\ d \in Nat
  BY LenProperties DEF IsMessage, IsString
<1>2. /\ MethodAt(msg) = 3 + a /\ CodeAt(msg) = 3 + a + 1 + b /\ InfoAt(msg) = 3 + a + 1 + b + 1
      /\ DataAt(msg) = 3 + a + 1 + b + 1 + 1 + e
      /\ PkLen(msg) = 2 + 6 * 1 + a + b + e + d
  BY DEF MethodAt, CodeAt, InfoAt, DataAt, PkLen, IntSize
<1> HIDE DEF a, b, e, d
<1>3. /\ CodeAt(msg) = 4 + a + b /\ InfoAt(msg) = 5 + a + b /\ DataAt(msg) = 6 + a + b + e
      /\ PkLen(msg) = 8 + a + b + e + d
  BY <1>1, <1>2
<1> QED
  BY <1>1, <1>2, <1>3 DEF a, b, e, d

(* Cells that begin as encodeMessage lays a message out hold its fields.    *)
LEMMA LaidOut ==
  ASSUME NEW msg, IsMessage(msg), NEW c, Begins(UpToData(msg), c)
  PROVE  /\ Holds(c, msg)
         /\ IsString(Whole(msg)) /\ Begins(UpToData(msg), Whole(msg))
         /\ Len(UpToData(msg)) = PkLen(msg) - 2 /\ Len(Whole(msg)) = PkLen(msg)
<1> DEFINE S == Nat \cup {PB_START, PB_END, msg.m_err_code, PkLen(msg)}
                  \cup {msg.m_msg_id[i] : i \in DOMAIN msg.m_msg_id}
                  \cup {msg.m_method_name[i] : i \in DOMAIN msg.m_method_name}
                  \cup {msg.m_err_info[i] : i \in DOMAIN msg.m_err_info}
                  \cup {msg.m_pb_data[i] : i \in DOMAIN msg.m_pb_data}
<1>1. /\ msg.m_msg_id \in Seq(S) /\ msg.m_method_name \in Seq(S)
      /\ msg.m_err_info \in Seq(S) /\ msg.m_pb_data \in Seq(S)
  BY StringIn DEF IsMessage
<1>2. /\ Nat \subseteq S /\ PB_START \in S /\ PB_END \in S /\ 0 \in S
      /\ msg.m_err_code \in S /\ PkLen(msg) \in S
  OBVIOUS
<1> HIDE DEF S
<1>3. /\ Start(msg) \in Seq(S) /\ Len(Start(msg)) = 2 /\ Start(msg)[2] = PkLen(msg)
      /\ <<msg.m_err_code>> \in Seq(S) /\ Len(<<msg.m_err_code>>) = 1
      /\ <<msg.m_err_code>>[1] = msg.m_err_code
      /\ <<0, PB_END>> \in Seq(S) /\ Len(<<0, PB_END>>) = 2
  BY <1>2 DEF Start
<1>4. /\ UpToId(msg) \in Seq(S) /\ UpToMethod(msg) \in Seq(S) /\ UpToCode(msg) \in Seq(S)
      /\ UpToInfo(msg) \in Seq(S) /\ UpToData(msg) \in Seq(S)
  <2>1. ASSUME NEW p \in Seq(S), NEW x \in Seq(S) PROVE p \o x \in Seq(S)
    BY <2>1, Continued DEF Joined
  <2>2. ASSUME NEW x \in Seq(S) PROVE Field(x) \in Seq(S)
    <3>1. <<Len(x)>> \in Seq(S)
      <4>1. Len(x) \in S
        BY <1>2, LenProperties
      <4> QED
        BY <4>1
    <3> QED
      BY <2>1, <3>1 DEF Field
  <2>3. UpToId(msg) \in Seq(S)
    BY <1>1, <1>3, <2>1, <2>2 DEF UpToId
  <2>4. UpToMethod(msg) \in Seq(S)
    BY <1>1, <2>1, <2>2, <2>3 DEF UpToMethod
  <2>5. UpToCode(msg) \in Seq(S)
    BY <1>3, <2>1, <2>4 DEF UpToCode
  <2>6. UpToInfo(msg) \in Seq(S)
    BY <1>1, <2>1, <2>2, <2>5 DEF UpToInfo
  <2>7. UpToData(msg) \in Seq(S)
    BY <1>1, <2>1, <2>6 DEF UpToData
  <2> QED
    BY <2>3, <2>4, <2>5, <2>6, <2>7
<1>5. Joined(S, UpToData(msg), <<0, PB_END>>, Whole(msg))
  BY <1>3, <1>4, Continued DEF Whole
<1>6. PartIn(S, UpToInfo(msg), msg.m_pb_data, UpToData(msg), c)
  BY <1>1, <1>4, PartHeld DEF UpToData
<1>7. FieldIn(S, UpToCode(msg), msg.m_err_info, UpToInfo(msg), c)
  <2>1. Begins(UpToInfo(msg), c)
    BY <1>6 DEF PartIn
  <2> QED
    BY <1>1, <1>2, <1>4, <2>1, FieldHeld DEF UpToInfo
<1>8. PartIn(S, UpToMethod(msg), <<msg.m_err_code>>, UpToCode(msg), c)
  <2>1. Begins(UpToCode(msg), c)
    BY <1>7 DEF FieldIn
  <2> QED
    BY <1>3, <1>4, <2>1, PartHeld DEF UpToCode
<1>9. FieldIn(S, UpToId(msg), msg.m_method_name, UpToMethod(msg), c)
  <2>1. Begins(UpToMethod(msg), c)
    BY <1>8 DEF PartIn
  <2> QED
    BY <1>1, <1>2, <1>4, <2>1, FieldHeld DEF UpToMethod
<1>10. FieldIn(S, Start(msg), msg.m_msg_id, UpToId(msg), c)
  <2>1. Begins(UpToId(msg), c)
    BY <1>9 DEF FieldIn
  <2> QED
    BY <1>1, <1>2, <1>3, <2>1, FieldHeld DEF UpToId
<1>11. c[2] = PkLen(msg) /\ c[3] = Len(msg.m_msg_id)
       /\ SubSeq(c, 4, 3 + Len(msg.m_msg_id)) = msg.m_msg_id
       /\ Len(UpToId(msg)) = MethodAt(msg) /\ Len(msg.m_msg_id) \in Nat
  <2>1. /\ Begins(Start(msg), c) /\ Len(msg.m_msg_id) \in Nat
        /\ Len(UpToId(msg)) = 2 + 1 + Len(msg.m_msg_id)
        /\ c[2 + 1] = Len(msg.m_msg_id)
        /\ SubSeq(c, 2 + 2, 2 + 1 + Len(msg.m_msg_id)) = msg.m_msg_id
    BY <1>3, <1>10 DEF FieldIn
  <2> QED
    BY <1>3, <2>1 DEF Begins, MethodAt
<1>12. /\ c[MethodAt(msg) + 1] = Len(msg.m_method_name)
       /\ SubSeq(c, MethodAt(msg) + 2, MethodAt(msg) + 1 + Len(msg.m_method_name)) = msg.m_method_name
       /\ Len(UpToMethod(msg)) = CodeAt(msg) /\ Len(msg.m_method_name) \in Nat
  BY <1>9, <1>11 DEF FieldIn, CodeAt
<1>13. c[CodeAt(msg) + 1] = msg.m_err_code /\ Len(UpToCode(msg)) = InfoAt(msg)
  <2>1. /\ Len(UpToCode(msg)) = CodeAt(msg) + 1
        /\ \A i \in 1..1 : c[CodeAt(msg) + i] = <<msg.m_err_code>>[i]
    BY <1>3, <1>8, <1>12 DEF PartIn
  <2> QED
    BY <1>3, <2>1 DEF InfoAt
<1>14. /\ c[InfoAt(msg) + 1] = Len(msg.m_err_info)
       /\ SubSeq(c, InfoAt(msg) + 2, InfoAt(msg) + 1 + Len(msg.m_err_info)) = msg.m_err_info
       /\ Len(UpToInfo(msg)) = DataAt(msg) /\ Len(msg.m_err_info) \in Nat
  BY <1>7, <1>13 DEF FieldIn, DataAt
<1>15. /\ SubSeq(c, DataAt(msg) + 1, DataAt(msg) + Len(msg.m_pb_data)) = msg.m_pb_data
       /\ Len(UpToData(msg)) = DataAt(msg) + Len(msg.m_pb_data) /\ Len(msg.m_pb_data) \in Nat
  BY <1>6, <1>14 DEF PartIn
<1>16. Len(Whole(msg)) = DataAt(msg) + Len(msg.m_pb_data) + 2
  BY <1>3, <1>5, <1>15 DEF Joined
<1>17. Len(Whole(msg)) = PkLen(msg)
  <2> DEFINE a == Len(msg.m_msg_id)
             b == Len(msg.m_method_name)
             e == Len(msg.m_err_info)
             d == Len(msg.m_pb_data)
  <2>1. /\ a \in Nat /\ b \in Nat /\ e \in Nat /\ d \in Nat /\ DataAt(msg) = 6 + a + b + e
        /\ PkLen(msg) = 8 + a + b + e + d
    BY Places
  <2>2. Len(Whole(msg)) = DataAt(msg) + d + 2
    BY <1>16
  <2> HIDE DEF a, b, e, d
  <2> QED
    BY <2>1, <2>2
<1>18. Len(UpToData(msg)) = PkLen(msg) - 2
  <2>1. Len(Whole(msg)) = Len(UpToData(msg)) + 2 /\ Len(UpToData(msg)) \in Nat
    BY <1>3, <1>5 DEF Joined
  <2> QED
    BY <1>17, <2>1
<1>19. IsString(Whole(msg)) /\ Begins(UpToData(msg), Whole(msg))
  BY <1>5, StringOf DEF Joined, Begins
<1>20. Holds(c, msg)
  BY <1>11, <1>12, <1>13, <1>14, <1>15 DEF Holds
<1> QED
  BY <1>17, <1>18, <1>19, <1>20

(* decode takes a message out of the cells that hold it.                    *)
LEMMA FieldsFound ==
  ASSUME NEW msg, IsMessage(msg), NEW c, Holds(c, msg), ChecksumValid(c)
  PROVE  DecodeFields(c) = {msg}
<1> DEFINE end == c[2]
           Number(index) == c[index + 1]
           Text(index) == SubSeq(c, index + IntSize + 1, index + IntSize + Number(index))
           id     == 1 + IntSize
           method == id + IntSize + Number(id)
           code   == method + IntSize + Number(method)
           info   == code + IntSize
           data   == info + IntSize + Number(info)
           HasText(index) == CheckIndexValid(index, IntSize, end)
                               /\ CheckIndexValid(index + IntSize, Number(index), end)
<1> DEFINE a == Len(msg.m_msg_id)
           b == Len(msg.m_method_name)
           e == Len(msg.m_err_info)
           d == Len(msg.m_pb_data)
<1>1. /\ a \in Nat /\ b \in Nat /\ e \in Nat /\ d \in Nat
      /\ MethodAt(msg) = 3 + a /\ CodeAt(msg) = 4 + a + b /\ InfoAt(msg) = 5 + a + b
      /\ DataAt(msg) = 6 + a + b + e /\ PkLen(msg) = 8 + a + b + e + d
  BY Places
<1> HIDE DEF a, b, e, d
<1>2. /\ c[2] = 8 + a + b + e + d /\ c[3] = a /\ SubSeq(c, 4, 3 + a) = msg.m_msg_id
      /\ c[3 + a + 1] = b /\ SubSeq(c, 3 + a + 2, 3 + a + 1 + b) = msg.m_method_name
      /\ c[4 + a + b + 1] = msg.m_err_code
      /\ c[5 + a + b + 1] = e /\ SubSeq(c, 5 + a + b + 2, 5 + a + b + 1 + e) = msg.m_err_info
      /\ SubSeq(c, 6 + a + b + e + 1, 6 + a + b + e + d) = msg.m_pb_data
  BY <1>1 DEF Holds, a, b, e, d
<1>3. end = 8 + a + b + e + d /\ id = 2 /\ Number(id) = a /\ Text(id) = msg.m_msg_id
  BY <1>1, <1>2 DEF IntSize
<1>4. method = 3 + a
  BY <1>1, <1>3 DEF IntSize
<1> HIDE DEF end, id, method
<1>5. Number(method) = b /\ Text(method) = msg.m_method_name
  <2>1. Number(method) = b
    BY <1>2, <1>4
  <2>2. method + IntSize + 1 = 3 + a + 2 /\ method + IntSize + b = 3 + a + 1 + b
    BY <1>1, <1>4 DEF IntSize
  <2> QED
    BY <1>2, <2>1, <2>2
<1>6. code = 4 + a + b
  BY <1>1, <1>4, <1>5 DEF IntSize
<1> HIDE DEF code
<1>7. Number(code) = msg.m_err_code /\ info = 5 + a + b
  BY <1>1, <1>2, <1>6 DEF IntSize
<1> HIDE DEF info
<1>8. Number(info) = e /\ Text(info) = msg.m_err_info
  BY <1>1, <1>2, <1>7 DEF IntSize
<1>9. data = 6 + a + b + e
  BY <1>1, <1>7, <1>8 DEF IntSize
<1> HIDE DEF data
<1>10. SubSeq(c, data + 1, end - IntSize - 1) = msg.m_pb_data
  <2>1. data + 1 = 6 + a + b + e + 1 /\ end - IntSize - 1 = 6 + a + b + e + d
    BY <1>1, <1>3, <1>9 DEF IntSize
  <2> QED
    BY <1>2, <2>1
<1>11. /\ HasText(id) /\ HasText(method) /\ CheckIndexValid(code, IntSize, end) /\ HasText(info)
       /\ data + IntSize + 1 <= end
  BY <1>1, <1>3, <1>4, <1>5, <1>6, <1>7, <1>8, <1>9 DEF CheckIndexValid, IntSize
<1> HIDE DEF Number, Text, HasText
<1>12. DecodeFields(c) =
         IF /\ HasText(id) /\ HasText(method)
            /\ CheckIndexValid(code, IntSize, end) /\ HasText(info)
            /\ data + IntSize + 1 <= end
            /\ ChecksumValid(c)
         THEN {[m_msg_id |-> Text(id), m_method_name |-> Text(method), m_err_code |-> Number(code),
                m_err_info |-> Text(info), m_pb_data |-> SubSeq(c, data + 1, end - IntSize - 1)]}
         ELSE {}
  BY DEF DecodeFields, end, Number, Text, id, method, code, info, data, HasText
<1>13. DecodeFields(c) =
         {[m_msg_id |-> msg.m_msg_id, m_method_name |-> msg.m_method_name,
           m_err_code |-> msg.m_err_code, m_err_info |-> msg.m_err_info,
           m_pb_data |-> msg.m_pb_data]}
  BY <1>3, <1>5, <1>7, <1>8, <1>10, <1>11, <1>12
<1> QED
  BY <1>13 DEF IsMessage

-----------------------------------------------------------------------------
(* Whatever strings a message is made of, and however long they are, what   *)
(* encode makes of it decodes to that message and to nothing else: no       *)
(* length, index or end that encode writes makes decode lose a field or     *)
(* take a neighbour's, and the checksum it puts in is the one decode finds. *)
(* Only an empty id is replaced, by the default one.                        *)
THEOREM RoundTrip ==
  ASSUME NEW message, IsMessage(message)
  PROVE  Received(message) = {SetMsgId(message, EncodedId(message.m_msg_id))}
<1> DEFINE msg == SetMsgId(message, EncodedId(message.m_msg_id))
           cells == Whole(msg)
           at == ChecksumCell(cells)
           sent == [cells EXCEPT ![at] = Checksum(cells)]
<1>1. IsMessage(msg)
  <2>1. IsString(DefaultId)
    <3>1. DefaultId \in Seq(Nat)
      BY DEF DefaultId
    <3> QED
      BY <3>1, StringOf
  <2>2. IsString(EncodedId(message.m_msg_id))
    BY <2>1 DEF EncodedId, IsMessage
  <2> QED
    BY <2>2 DEF IsMessage, SetMsgId
<1>2. EncodeMessage(message) = sent
  BY DEF EncodeMessage, Whole, UpToData, UpToInfo, UpToCode, UpToMethod, UpToId, Start
<1> HIDE DEF msg
<1>3. /\ IsString(cells) /\ Begins(UpToData(msg), cells)
      /\ Len(UpToData(msg)) = PkLen(msg) - 2 /\ Len(cells) = PkLen(msg)
      /\ PkLen(msg) \in Nat /\ PkLen(msg) >= 8
  <2>1. Begins(UpToData(msg), UpToData(msg))
    BY DEF Begins
  <2>2. /\ IsString(cells) /\ Begins(UpToData(msg), cells)
        /\ Len(UpToData(msg)) = PkLen(msg) - 2 /\ Len(cells) = PkLen(msg)
    BY <1>1, <2>1, LaidOut
  <2>3. PkLen(msg) \in Nat /\ PkLen(msg) >= 8
    <3> DEFINE a == Len(msg.m_msg_id)
               b == Len(msg.m_method_name)
               e == Len(msg.m_err_info)
               d == Len(msg.m_pb_data)
    <3>1. a \in Nat /\ b \in Nat /\ e \in Nat /\ d \in Nat /\ PkLen(msg) = 8 + a + b + e + d
      BY <1>1, Places
    <3> HIDE DEF a, b, e, d
    <3> QED
      BY <3>1
  <2> QED
    BY <2>2, <2>3
<1> DEFINE S == {cells[i] : i \in DOMAIN cells}
           T == S \cup {Checksum(cells)}
           n == PkLen(msg)
<1>4. cells \in Seq(S) /\ DOMAIN cells = 1..n /\ at = n - 1 /\ at \in 1..n
  <2>1. cells \in Seq(S)
    BY <1>3 DEF IsString
  <2>2. DOMAIN cells = 1..n
    BY <1>3, <2>1, LenProperties
  <2> HIDE DEF cells
  <2>3. at = n - 1
    BY <1>3 DEF ChecksumCell, IntSize
  <2> QED
    BY <1>3, <2>1, <2>2, <2>3
<1> HIDE DEF cells, at
<1>5. DOMAIN sent = 1..n /\ Len(sent) = n /\ sent[at] = Checksum(cells)
      /\ \A i \in 1..n : i # at => sent[i] = cells[i]
  <2>1. DOMAIN sent = 1..n /\ sent[at] = Checksum(cells)
        /\ \A i \in 1..n : i # at => sent[i] = cells[i]
    BY <1>4
  <2>2. cells \in Seq(T)
    BY <1>4, SeqMonotonic
  <2>3. sent \in Seq(T)
    BY <1>3, <1>4, <2>2, ExceptSeq
  <2>4. Len(sent) = n
    <3>1. Len(sent) \in Nat /\ 1..Len(sent) = 1..n
      BY <2>1, <2>3, LenProperties
    <3> QED
      BY <1>3, <3>1
  <2> QED
    BY <2>1, <2>4
<1>6. Begins(UpToData(msg), sent)
  <2>1. ASSUME NEW i \in 1..Len(UpToData(msg)) PROVE i \in 1..n /\ i # at
    BY <1>3, <1>4
  <2> QED
    BY <1>3, <1>5, <2>1 DEF Begins
<1>7. ChecksumValid(sent)
  <2>1. ChecksumCell(sent) = at
    <3>1. Len(sent) = Len(cells)
      BY <1>3, <1>5 DEF cells
    <3> QED
      BY <3>1 DEF ChecksumCell, at
  <2>2. Checksum(sent) = Checksum(cells)
    <3>1. Checksum(cells) = [cells EXCEPT ![at] = 0]
      BY DEF Checksum, at
    <3>2. Checksum(sent) = [sent EXCEPT ![at] = 0]
      BY <2>1 DEF Checksum
    <3>3. [sent EXCEPT ![at] = 0] = [cells EXCEPT ![at] = 0]
      BY <1>4, <1>5
    <3> QED
      BY <3>1, <3>2, <3>3
  <2> QED
    BY <1>5, <2>1, <2>2 DEF ChecksumValid
<1>8. DecodeFields(sent) = {msg}
  BY <1>1, <1>6, <1>7, FieldsFound, LaidOut
<1> QED
  BY <1>2, <1>8 DEF Received, msg

-----------------------------------------------------------------------------
(* Least and greatest numbers.                                              *)

LEMMA LeastNumber ==
  ASSUME NEW S \in SUBSET Nat, S # {}
  PROVE  \E k \in S : \A j \in S : k <= j
<1> DEFINE R == OpToRel(<, Nat)
<1>1. IsWellFoundedOn(R, Nat)
  BY NatLessThanWellFounded
<1>2. \A x, y \in Nat : x < y => <<x, y>> \in R
  BY DEF OpToRel
<1> HIDE DEF R
<1>3. PICK x \in S : \A y \in S : ~ (<<y, x>> \in R)
  BY <1>1, WFMin
<1>4. ASSUME NEW y \in S PROVE x <= y
  <2>1. x \in Nat /\ y \in Nat /\ ~ (y < x)
    BY <1>2, <1>3
  <2> QED
    BY <2>1
<1> QED
  BY <1>3, <1>4

LEMMA GreatestNumber ==
  ASSUME NEW n \in Nat, NEW S \in SUBSET (1..n), S # {}
  PROVE  \E k \in S : \A j \in S : j <= k
<1> DEFINE R == {n - i : i \in S}
<1>1. R \in SUBSET Nat /\ R # {}
  <2>1. ASSUME NEW i \in S PROVE n - i \in Nat
    OBVIOUS
  <2> QED
    BY <2>1
<1>2. PICK l \in R : \A r \in R : l <= r
  <2> HIDE DEF R
  <2> QED
    BY <1>1, LeastNumber
<1>3. PICK k \in S : l = n - k
  OBVIOUS
<1>4. ASSUME NEW j \in S PROVE j <= k
  <2>1. n - j \in R /\ j \in Int /\ k \in Int
    OBVIOUS
  <2>2. l <= n - j
    BY <1>2, <2>1
  <2> QED
    BY <1>3, <2>1, <2>2
<1> QED
  BY <1>4

-----------------------------------------------------------------------------
(* parseServiceAndMethod.                                                   *)

LEMMA DotsType ==
  ASSUME NEW name, IsString(name)
  PROVE  /\ Dots(name) \subseteq 1..Len(name) /\ Dots(name) \subseteq Nat /\ Len(name) \in Nat
         /\ IsFiniteSet(Dots(name))
<1>1. Len(name) \in Nat
  BY LenProperties DEF IsString
<1>2. Dots(name) \subseteq 1..Len(name)
  BY DEF Dots
<1>3. IsFiniteSet(1..Len(name))
  BY <1>1, FS_Interval
<1> QED
  BY <1>1, <1>2, <1>3, FS_Subset

(* The first dot, if there is one.                                          *)
FirstDot(name) == CHOOSE i \in Dots(name) : \A j \in Dots(name) : i <= j

LEMMA FirstDotIs ==
  ASSUME NEW name, IsString(name), Dots(name) # {}
  PROVE  /\ FirstDot(name) \in Dots(name)
         /\ \A j \in Dots(name) : FirstDot(name) <= j
<1>1. \E i \in Dots(name) : \A j \in Dots(name) : i <= j
  BY DotsType, LeastNumber
<1> QED
  BY <1>1 DEF FirstDot

LEMMA ParseIs ==
  ASSUME NEW name
  PROVE  ParseServiceAndMethod(name) =
           IF Dots(name) = {} \/ FirstDot(name) = 1 \/ FirstDot(name) = Len(name) THEN {}
           ELSE {[service |-> SubSeq(name, 1, FirstDot(name) - 1),
                  method |-> SubSeq(name, FirstDot(name) + 1, Len(name))]}
  BY DEF ParseServiceAndMethod, FirstDot

(* What has been taken apart is what was put together.                      *)
LEMMA ParseSplits ==
  ASSUME NEW name, IsString(name), NEW parsed \in ParseServiceAndMethod(name)
  PROVE  parsed.service \o <<".">> \o parsed.method = name
<1> DEFINE S == {name[i] : i \in DOMAIN name}
           n == Len(name)
           p == FirstDot(name)
           before == SubSeq(name, 1, p - 1)
           after == SubSeq(name, p + 1, n)
           dot == <<".">>
<1>1. Dots(name) # {} /\ p # 1 /\ p # n /\ parsed = [service |-> before, method |-> after]
  BY ParseIs
<1>2. p \in 1..n /\ n \in Nat /\ name[p] = "."
  BY <1>1, FirstDotIs, DotsType DEF Dots
<1>3. name \in Seq(S) /\ (\A i \in 1..n : name[i] \in S) /\ DOMAIN name = 1..n
  <2>1. name \in Seq(S)
    BY DEF IsString
  <2> HIDE DEF S
  <2> QED
    BY <2>1, LenProperties, ElementOfSeq
<1> HIDE DEF S, n, p
<1>4. before \in Seq(S) /\ Len(before) = p - 1 /\ \A i \in 1..p - 1 : before[i] = name[i]
  <2>1. \A i \in 1..p - 1 : name[i] \in S
    BY <1>2, <1>3
  <2>2. /\ before \in Seq(S) /\ Len(before) = IF 1 <= p - 1 THEN p - 1 - 1 + 1 ELSE 0
        /\ \A i \in 1..p - 1 - 1 + 1 : before[i] = name[1 + i - 1]
    <3>1. 1 \in Int /\ p - 1 \in Int
      BY <1>2
    <3> QED
      BY <2>1, <3>1, SubSeqProperties
  <2> HIDE DEF before
  <2>3. Len(before) = p - 1
    BY <1>2, <2>2
  <2>4. ASSUME NEW i \in 1..p - 1 PROVE before[i] = name[i]
    <3>1. i \in 1..p - 1 - 1 + 1 /\ 1 + i - 1 = i
      BY <1>2
    <3> QED
      BY <2>2, <3>1
  <2> QED
    BY <2>2, <2>3, <2>4
<1>5. after \in Seq(S) /\ Len(after) = n - p /\ \A i \in 1..n - p : after[i] = name[p + i]
  <2>1. \A i \in p + 1..n : name[i] \in S
    BY <1>2, <1>3
  <2>2. /\ after \in Seq(S) /\ Len(after) = IF p + 1 <= n THEN n - (p + 1) + 1 ELSE 0
        /\ \A i \in 1..n - (p + 1) + 1 : after[i] = name[p + 1 + i - 1]
    <3>1. p + 1 \in Int /\ n \in Int
      BY <1>2
    <3> QED
      BY <2>1, <3>1, SubSeqProperties
  <2> HIDE DEF after
  <2>3. Len(after) = n - p
    BY <1>2, <2>2
  <2>4. ASSUME NEW i \in 1..n - p PROVE after[i] = name[p + i]
    <3>1. i \in 1..n - (p + 1) + 1 /\ p + 1 + i - 1 = p + i
      BY <1>2
    <3> QED
      BY <2>2, <3>1
  <2> QED
    BY <2>2, <2>3, <2>4
<1>6. dot \in Seq(S) /\ Len(dot) = 1 /\ dot[1] = "."
  <2>1. "." \in S
    BY <1>2, <1>3
  <2> QED
    BY <2>1
<1> HIDE DEF before, after, dot
<1>7. Joined(S, before, dot, before \o dot)
  BY <1>4, <1>6, Continued
<1>8. /\ before \o dot \in Seq(S) /\ Len(before \o dot) = p
      /\ \A i \in 1..p : (before \o dot)[i] = name[i]
  <2>1. before \o dot \in Seq(S) /\ Len(before \o dot) = p
    BY <1>2, <1>4, <1>6, <1>7 DEF Joined
  <2>2. \A i \in 1..p - 1 : (before \o dot)[i] = name[i]
    BY <1>4, <1>7 DEF Joined
  <2>3. (before \o dot)[p] = name[p]
    <3>1. (before \o dot)[p - 1 + 1] = dot[1]
      BY <1>4, <1>6, <1>7 DEF Joined
    <3>2. p - 1 + 1 = p
      BY <1>2
    <3> QED
      BY <1>2, <1>6, <3>1, <3>2
  <2>4. \A i \in 1..p : i \in 1..p - 1 \/ i = p
    BY <1>2
  <2> QED
    BY <2>1, <2>2, <2>3, <2>4
<1> DEFINE head == before \o dot
<1> HIDE DEF head
<1>9. Joined(S, head, after, head \o after)
  BY <1>5, <1>8, Continued DEF head
<1>10. head \o after \in Seq(S) /\ Len(head \o after) = n
  BY <1>2, <1>5, <1>8, <1>9 DEF Joined, head
<1>11. ASSUME NEW i \in 1..n PROVE (head \o after)[i] = name[i]
  <2>1. CASE i \in 1..p
    BY <1>8, <1>9, <2>1 DEF Joined, head
  <2>2. CASE i \notin 1..p
    <3>1. i - p \in 1..n - p /\ p + (i - p) = i
      BY <1>2, <2>2
    <3>2. (head \o after)[p + (i - p)] = after[i - p] /\ after[i - p] = name[p + (i - p)]
      BY <1>5, <1>8, <1>9, <3>1 DEF Joined, head
    <3> QED
      BY <3>1, <3>2
  <2> QED
    BY <2>1, <2>2
<1>12. head \o after = name
  BY <1>3, <1>10, <1>11, SeqEqual DEF n
<1> QED
  BY <1>1, <1>12 DEF head, dot

(* A name with no other dot is taken apart where it was put together.       *)
LEMMA ParseFinds ==
  ASSUME NEW service, IsString(service), service # <<>>,
         NEW method, IsString(method), method # <<>>,
         NEW name, name = service \o <<".">> \o method,
         Cardinality(Dots(name)) <= 1
  PROVE  ParseServiceAndMethod(name) = {[service |-> service, method |-> method]}
<1> DEFINE S == {service[i] : i \in DOMAIN service} \cup {"."} \cup {method[i] : i \in DOMAIN method}
           dot == <<".">>
           head == service \o dot
           a == Len(service)
           b == Len(method)
<1>1. service \in Seq(S) /\ method \in Seq(S) /\ dot \in Seq(S) /\ Len(dot) = 1 /\ dot[1] = "."
  BY StringIn
<1> HIDE DEF S, dot
<1>2. a \in Nat \ {0} /\ b \in Nat \ {0}
  BY <1>1, EmptySeq
<1>3. Joined(S, service, dot, head)
  BY <1>1, Continued
<1>4. Joined(S, head, method, name)
  <2>1. head \in Seq(S)
    BY <1>3 DEF Joined
  <2>2. name = head \o method
    BY DEF dot
  <2> QED
    BY <1>1, <2>1, <2>2, Continued
<1> HIDE DEF head, a, b
<1>5. /\ Len(head) = a + 1 /\ head[a + 1] = "."
      /\ \A i \in 1..a : head[i] = service[i]
  <2>1. \A i \in 1..1 : head[a + i] = dot[i]
    BY <1>1, <1>3 DEF Joined, a
  <2> QED
    BY <1>1, <1>3, <2>1 DEF Joined, a
<1>6. /\ Len(name) = a + 1 + b /\ name[a + 1] = "." /\ name \in Seq(S)
      /\ \A i \in 1..a : name[i] = service[i]
      /\ \A i \in 1..b : name[a + 1 + i] = method[i]
  <2>1. /\ Len(name) = a + 1 + b /\ name \in Seq(S)
        /\ \A i \in 1..a + 1 : name[i] = head[i]
        /\ \A i \in 1..b : name[a + 1 + i] = method[i]
    BY <1>4, <1>5 DEF Joined, b
  <2>2. a + 1 \in 1..a + 1 /\ \A i \in 1..a : i \in 1..a + 1
    BY <1>2
  <2> QED
    BY <1>5, <2>1, <2>2
<1>7. a + 1 \in Dots(name) /\ IsString(name)
  <2>1. a + 1 \in 1..a + 1 + b
    BY <1>2
  <2> QED
    BY <1>6, <2>1, StringOf DEF Dots
<1>8. FirstDot(name) = a + 1
  <2>1. FirstDot(name) \in Dots(name) /\ IsFiniteSet(Dots(name))
    BY <1>7, FirstDotIs, DotsType
  <2>2. IsFiniteSet({FirstDot(name), a + 1}) /\ {FirstDot(name), a + 1} \subseteq Dots(name)
    BY <1>7, <2>1, FS_Subset
  <2>3. Cardinality({FirstDot(name), a + 1}) <= 1
    <3>1. Cardinality({FirstDot(name), a + 1}) <= Cardinality(Dots(name))
      BY <2>1, <2>2, FS_Subset
    <3>2. Cardinality({FirstDot(name), a + 1}) \in Nat /\ Cardinality(Dots(name)) \in Nat
      BY <2>1, <2>2, FS_CardinalityType
    <3> QED
      BY <3>1, <3>2
  <2>4. ASSUME FirstDot(name) # a + 1 PROVE FALSE
    <3>1. IsFiniteSet({a + 1}) /\ Cardinality({a + 1}) = 1
      BY FS_Singleton
    <3> DEFINE two == {FirstDot(name), a + 1}
    <3>2. two = {a + 1} \cup {FirstDot(name)} /\ FirstDot(name) \notin {a + 1}
      BY <2>4
    <3>3. Cardinality(two) <= 1
      BY <2>3
    <3> HIDE DEF two
    <3>4. Cardinality(two) = Cardinality({a + 1}) + 1
      BY <3>1, <3>2, FS_AddElement
    <3> QED
      BY <3>1, <3>3, <3>4
  <2> QED
    BY <2>4
<1>9. SubSeq(name, 1, a) = service
  <2>1. \A i \in 1..Len(service) : name[0 + i] = service[i]
    <3>1. \A i \in 1..a : 0 + i = i
      BY <1>2
    <3> QED
      BY <1>6, <3>1 DEF a
  <2>2. SubSeq(name, 0 + 1, 0 + Len(service)) = service
    BY <1>1, <2>1, PartIs
  <2> QED
    BY <1>2, <2>2 DEF a
<1>10. SubSeq(name, a + 1 + 1, a + 1 + b) = method
  <2>1. a + 1 \in Nat
    BY <1>2
  <2> QED
    BY <1>1, <1>6, <2>1, PartIs DEF b
<1>11. FirstDot(name) # 1 /\ FirstDot(name) # Len(name) /\ FirstDot(name) - 1 = a
  BY <1>2, <1>6, <1>8
<1>12. ParseServiceAndMethod(name) =
         {[service |-> SubSeq(name, 1, FirstDot(name) - 1),
           method |-> SubSeq(name, FirstDot(name) + 1, Len(name))]}
  BY <1>7, <1>11, ParseIs
<1> QED
  BY <1>6, <1>8, <1>9, <1>10, <1>11, <1>12

-----------------------------------------------------------------------------
(* The services.                                                            *)

(* The i-th service is the last one registered under its name.              *)
IsLast(i) == \A j \in (i + 1)..Len(Registered) : Registered[j].full_name # Registered[i].full_name

LEMMA RegisteredType ==
  /\ Len(Registered) \in Nat
  /\ ToSet(Registered) = {Registered[i] : i \in 1..Len(Registered)}
  /\ DOMAIN m_services = {Registered[i].full_name : i \in 1..Len(Registered)}
<1>1. Len(Registered) \in Nat /\ DOMAIN Registered = 1..Len(Registered)
  BY RegisteredAssumption, LenProperties
<1>2. ToSet(Registered) = {Registered[i] : i \in 1..Len(Registered)}
  BY <1>1 DEF ToSet
<1>3. DOMAIN m_services = {service.full_name : service \in ToSet(Registered)}
  BY DEF m_services
<1> QED
  BY <1>1, <1>2, <1>3

(* A name stands for the last service registered under it.                  *)
LEMMA ServiceIsLast ==
  ASSUME NEW name \in DOMAIN m_services
  PROVE  \E i \in 1..Len(Registered) :
           IsLast(i) /\ Registered[i].full_name = name /\ m_services[name] = Registered[i]
<1> DEFINE Of == {i \in 1..Len(Registered) : Registered[i].full_name = name}
           Is(i) == /\ Registered[i].full_name = name
                    /\ \A j \in (i + 1)..Len(Registered) : Registered[j].full_name # name
<1>1. m_services[name] = Registered[CHOOSE i \in 1..Len(Registered) : Is(i)]
  BY DEF m_services
<1>2. PICK k \in Of : \A j \in Of : j <= k
  <2>1. Of \in SUBSET (1..Len(Registered)) /\ Of # {} /\ Len(Registered) \in Nat
    BY RegisteredType
  <2> HIDE DEF Of
  <2> QED
    BY <2>1, GreatestNumber
<1>3. k \in 1..Len(Registered) /\ Is(k)
  <2>1. ASSUME NEW j \in (k + 1)..Len(Registered), Registered[j].full_name = name PROVE FALSE
    <3>1. j \in Of
      BY <1>2, <2>1, RegisteredType
    <3>2. j <= k /\ k \in Nat /\ j \in Int /\ j >= k + 1
      BY <1>2, <3>1, RegisteredType
    <3> QED
      BY <3>2
  <2> QED
    BY <1>2, <2>1
<1> DEFINE i == CHOOSE i \in 1..Len(Registered) : Is(i)
<1>4. i \in 1..Len(Registered) /\ Is(i)
  BY <1>3
<1> HIDE DEF i
<1>5. IsLast(i)
  BY <1>4 DEF IsLast
<1> QED
  BY <1>1, <1>4, <1>5 DEF i

LEMMA LastServes ==
  ASSUME NEW i \in 1..Len(Registered), IsLast(i)
  PROVE  /\ Registered[i].full_name \in DOMAIN m_services
         /\ m_services[Registered[i].full_name] = Registered[i]
<1>1. Registered[i].full_name \in DOMAIN m_services
  BY RegisteredType
<1>2. PICK k \in 1..Len(Registered) :
        /\ IsLast(k) /\ Registered[k].full_name = Registered[i].full_name
        /\ m_services[Registered[i].full_name] = Registered[k]
  BY <1>1, ServiceIsLast
<1>3. k = i
  <2>1. k \in Nat /\ i \in Nat /\ Len(Registered) \in Nat /\ k <= Len(Registered) /\ i <= Len(Registered)
    BY RegisteredType
  <2>2. ~ (k < i)
    BY <1>2, <2>1 DEF IsLast
  <2>3. ~ (i < k)
    BY <1>2, <2>1 DEF IsLast
  <2> QED
    BY <2>1, <2>2, <2>3
<1> QED
  BY <1>1, <1>2, <1>3

-----------------------------------------------------------------------------
(* dispatch.                                                                *)

DispatchErrors == {"OK", "SYS_FAILED_PARSE_SERVICE_NAME", "SYS_SERVICE_NOT_FOUND",
                   "SYS_METHOD_NOT_FOUND", "SYS_FAILED_DESERIALIZE", "SYS_FAILED_SERIALIZE"}

(* The method m of the i-th service is what the request asks for.           *)
Serves(i, m, request) ==
  /\ IsLast(i) /\ m \in DOMAIN Registered[i].methods
  /\ Registered[i].full_name \o <<".">> \o m = request.m_method_name
  /\ request.m_pb_data \in DOMAIN Registered[i].methods[m]

Result(i, m, request) == Registered[i].methods[m][request.m_pb_data]

LEMMA ServesIsString ==
  ASSUME NEW request, NEW i \in 1..Len(Registered), NEW m, Serves(i, m, request)
  PROVE  /\ IsString(Registered[i].full_name) /\ Registered[i].full_name # <<>>
         /\ IsString(m) /\ m # <<>> /\ IsString(Result(i, m, request))
<1>1. Registered[i] \in ToSet(Registered)
  BY RegisteredType
<1> QED
  BY <1>1, RegisteredAssumption DEF Serves, Result

(* Every response to a request is a message with its id; one that is no     *)
(* error carries the result of the method the request asks for.             *)
LEMMA DispatchIs ==
  ASSUME NEW request, IsMessage(request)
  PROVE  /\ IsMessage(Dispatch(request))
         /\ Dispatch(request).m_msg_id = request.m_msg_id
         /\ Dispatch(request).m_err_code \in DispatchErrors
         /\ Dispatch(request).m_err_code = "OK" =>
              \E i \in 1..Len(Registered) : \E m \in DOMAIN Registered[i].methods :
                Serves(i, m, request) /\ Dispatch(request).m_pb_data = Result(i, m, request)
<1> DEFINE response  == SetMethodName(SetMsgId(NewProtocol, request.m_msg_id), request.m_method_name)
           Fail(err) == SetErrCodeAndInfo(response, err, <<err>>)
           parsed    == ParseServiceAndMethod(request.m_method_name)
           name      == CHOOSE n \in parsed : TRUE
           methods   == m_services[name.service].methods
           call      == methods[name.method]
           pb_data   == call[request.m_pb_data]
           Done(data) == SetPbData(SetErrCodeAndInfo(response, "OK", <<"success">>), data)
<1>1. Dispatch(request) =
        IF parsed = {}                                THEN Fail("SYS_FAILED_PARSE_SERVICE_NAME")
        ELSE IF name.service \notin DOMAIN m_services THEN Fail("SYS_SERVICE_NOT_FOUND")
        ELSE IF name.method \notin DOMAIN methods     THEN Fail("SYS_METHOD_NOT_FOUND")
        ELSE IF request.m_pb_data \notin DOMAIN call  THEN Fail("SYS_FAILED_DESERIALIZE")
        ELSE IF pb_data = <<>>                        THEN Fail("SYS_FAILED_SERIALIZE")
        ELSE Done(pb_data)
  BY DEF Dispatch
<1>2. \A s : IsString(<<s>>)
  <2> TAKE s
  <2>1. <<s>> \in Seq({s})
    OBVIOUS
  <2> QED
    BY <2>1, StringOf
<1>3. IsString(<<>>)
  BY EmptySeq, StringOf
<1> DEFINE Answer(err, info, data) ==
             [m_msg_id |-> request.m_msg_id, m_method_name |-> request.m_method_name,
              m_err_code |-> err, m_err_info |-> info, m_pb_data |-> data]
<1>4. response = Answer("OK", <<>>, <<>>)
  <2>1. SetMsgId(NewProtocol, request.m_msg_id) =
          [m_msg_id |-> request.m_msg_id, m_method_name |-> <<>>, m_err_code |-> "OK",
           m_err_info |-> <<>>, m_pb_data |-> <<>>]
    BY DEF NewProtocol, SetMsgId
  <2> QED
    BY <2>1 DEF SetMethodName
<1> HIDE DEF response
<1>5. \A err, info : SetErrCodeAndInfo(response, err, info) = Answer(err, info, <<>>)
  <2> TAKE err, info
  <2>1. PICK coded : coded = [response EXCEPT !.m_err_code = err]
    OBVIOUS
  <2>2. SetErrCodeAndInfo(response, err, info) = [coded EXCEPT !.m_err_info = info]
    BY <2>1 DEF SetErrCodeAndInfo
  <2>3. coded = Answer(err, <<>>, <<>>)
    BY <1>4, <2>1
  <2> QED
    BY <2>2, <2>3
<1>6. ASSUME NEW err
      PROVE  IsMessage(Fail(err)) /\ Fail(err).m_msg_id = request.m_msg_id /\ Fail(err).m_err_code = err
  <2>1. Fail(err) = Answer(err, <<err>>, <<>>)
    BY <1>5
  <2> HIDE DEF Fail
  <2> QED
    BY <1>2, <1>3, <2>1 DEF IsMessage
<1>7. ASSUME NEW data, IsString(data)
      PROVE  /\ IsMessage(Done(data)) /\ Done(data).m_msg_id = request.m_msg_id
             /\ Done(data).m_err_code = "OK" /\ Done(data).m_pb_data = data
  <2>1. Done(data) = Answer("OK", <<"success">>, data)
    BY <1>5 DEF SetPbData
  <2> HIDE DEF Done
  <2> QED
    BY <1>2, <1>7, <2>1 DEF IsMessage
<1> HIDE DEF Fail, Done
<1>8. CASE \E err \in DispatchErrors \ {"OK"} : Dispatch(request) = Fail(err)
  BY <1>6, <1>8
<1>9. CASE /\ parsed # {} /\ name.service \in DOMAIN m_services /\ name.method \in DOMAIN methods
           /\ request.m_pb_data \in DOMAIN call /\ Dispatch(request) = Done(pb_data)
  <2>1. PICK i \in 1..Len(Registered) :
          /\ IsLast(i) /\ Registered[i].full_name = name.service
          /\ m_services[name.service] = Registered[i]
    BY <1>9, ServiceIsLast
  <2>2. name.service \o <<".">> \o name.method = request.m_method_name
    <3>1. name \in parsed
      BY <1>9
    <3> QED
      BY <3>1, ParseSplits DEF IsMessage
  <2>3. Serves(i, name.method, request) /\ pb_data = Result(i, name.method, request)
    BY <1>9, <2>1, <2>2 DEF Serves, Result
  <2>4. IsString(pb_data)
    BY <2>3, ServesIsString
  <2> HIDE DEF pb_data, name, parsed, methods, call
  <2>5. name.method \in DOMAIN Registered[i].methods
    BY <2>3 DEF Serves
  <2> QED
    BY <1>7, <1>9, <2>3, <2>4, <2>5 DEF DispatchErrors
<1> HIDE DEF parsed, name, methods, call, pb_data
<1> QED
  BY <1>1, <1>8, <1>9 DEF DispatchErrors

(* A request for a method that is there is answered with its result, unless *)
(* its service is in a package or the result is empty.                      *)
LEMMA DispatchFinds ==
  ASSUME NEW request, IsMessage(request),
         NEW i \in 1..Len(Registered), NEW m, Serves(i, m, request),
         Cardinality(Dots(request.m_method_name)) <= 1, Result(i, m, request) # <<>>
  PROVE  /\ Dispatch(request).m_err_code = "OK"
         /\ Dispatch(request).m_pb_data = Result(i, m, request)
<1> DEFINE response  == SetMethodName(SetMsgId(NewProtocol, request.m_msg_id), request.m_method_name)
           Fail(err) == SetErrCodeAndInfo(response, err, <<err>>)
           parsed    == ParseServiceAndMethod(request.m_method_name)
           name      == CHOOSE n \in parsed : TRUE
           methods   == m_services[name.service].methods
           call      == methods[name.method]
           pb_data   == call[request.m_pb_data]
           Done(data) == SetPbData(SetErrCodeAndInfo(response, "OK", <<"success">>), data)
<1>1. Dispatch(request) =
        IF parsed = {}                                THEN Fail("SYS_FAILED_PARSE_SERVICE_NAME")
        ELSE IF name.service \notin DOMAIN m_services THEN Fail("SYS_SERVICE_NOT_FOUND")
        ELSE IF name.method \notin DOMAIN methods     THEN Fail("SYS_METHOD_NOT_FOUND")
        ELSE IF request.m_pb_data \notin DOMAIN call  THEN Fail("SYS_FAILED_DESERIALIZE")
        ELSE IF pb_data = <<>>                        THEN Fail("SYS_FAILED_SERIALIZE")
        ELSE Done(pb_data)
  BY DEF Dispatch
<1>2. \A data : Done(data).m_err_code = "OK" /\ Done(data).m_pb_data = data
  BY DEF NewProtocol, SetMsgId, SetMethodName, SetErrCodeAndInfo, SetPbData
<1> HIDE DEF Done
<1>3. parsed = {[service |-> Registered[i].full_name, method |-> m]}
  BY ServesIsString, ParseFinds DEF Serves
<1>4. name.service = Registered[i].full_name /\ name.method = m
  <2>1. name \in parsed
    BY <1>3
  <2> HIDE DEF name, parsed
  <2> QED
    BY <1>3, <2>1
<1> HIDE DEF parsed, name
<1>5. /\ name.service \in DOMAIN m_services /\ m_services[name.service] = Registered[i]
  BY <1>4, LastServes DEF Serves
<1>6. name.method \in DOMAIN methods /\ request.m_pb_data \in DOMAIN call /\ pb_data = Result(i, m, request)
  BY <1>4, <1>5 DEF Serves, Result
<1> HIDE DEF methods, call, pb_data
<1> QED
  BY <1>1, <1>2, <1>3, <1>5, <1>6
=============================================================================
