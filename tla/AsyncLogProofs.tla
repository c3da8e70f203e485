-------------------------- MODULE AsyncLogProofs ---------------------------
(* Proofs about the log, for any number of lines, days and lines to a file. *)
EXTENDS AsyncLog, SequenceTheorems, FiniteSetTheorems, WellFoundedInduction, TLAPS

-----------------------------------------------------------------------------
(* What FlattenSeq makes of a queue of batches, by induction over it.       *)

LEMMA LeastNumber ==
  ASSUME NEW S \in SUBSET Nat, S # {}
  PROVE  \E k \in S : \A j \in S : k <= j
<1> DEFINE R == OpToRel(<, Nat)
<1>1. IsWellFoundedOn(R, Nat)
  BY NatLessThanWellFounded
<1>2. \A x, y \in Nat : x < y => <<x, y>> \in R
  BY DEF OpToRel
<1> HIDE DEF R
<1>3. PICK x \in S : \A y \in S : ~ (<<y, x>> \in R)
  BY <1>1, WFMin
<1>4. ASSUME NEW y \in S PROVE x <= y
  <2>1. x \in Nat /\ y \in Nat /\ ~ (y < x)
    BY <1>2, <1>3
  <2> QED
    BY <2>1
<1> QED
  BY <1>3, <1>4

LEMMA Counting ==
  ASSUME NEW n \in Nat, NEW T, n >= 1 => 1 \in T, \A i \in 1..n - 1 : i \in T => i + 1 \in T
  PROVE  1..n \subseteq T
<1> DEFINE Bad == {i \in 1..n : i \notin T}
<1> SUFFICES ASSUME Bad # {} PROVE FALSE
  OBVIOUS
<1>1. PICK m \in Bad : \A j \in Bad : m <= j
  <2>1. Bad \in SUBSET Nat
    OBVIOUS
  <2> HIDE DEF Bad
  <2> QED
    BY <2>1, LeastNumber
<1>2. m \in 1..n /\ m \notin T /\ m # 1
  OBVIOUS
<1>3. m - 1 \in 1..n - 1 /\ m - 1 \in 1..n /\ m - 1 \notin Bad
  BY <1>1, <1>2
<1>4. m - 1 \in T
  BY <1>3
<1>5. m - 1 + 1 \in T
  BY <1>3, <1>4
<1> QED
  BY <1>2, <1>5

(* The recursion of FlattenSeq: joined[i] is the first i of q, joined.      *)
Joins(joined, q, n) ==
  joined = [i \in 1..n |-> IF i = 1 THEN q[i] ELSE joined[i - 1] \o q[i]]

(* It, step by step.                                                        *)
Steps(joined, q, n) ==
  /\ joined[1] = q[1]
  /\ \A i \in 1..n : i + 1 \in 1..n => joined[i + 1] = joined[i] \o q[i + 1]

LEMMA JoinsExists ==
  ASSUME NEW q, NEW n \in Nat
  PROVE  \E joined : Joins(joined, q, n)
<1> DEFINE Bad == {m \in Nat : ~ \E joined : Joins(joined, q, m)}
<1> SUFFICES ASSUME Bad # {} PROVE FALSE
  OBVIOUS
<1>1. PICK m \in Bad : \A j \in Bad : m <= j
  <2>1. Bad \in SUBSET Nat
    OBVIOUS
  <2> HIDE DEF Bad
  <2> QED
    BY <2>1, LeastNumber
<1>2. m \in Nat /\ ~ \E joined : Joins(joined, q, m)
  OBVIOUS
<1>3. CASE m = 0
  <2>1. Joins([i \in 1..0 |-> q[i]], q, 0)
    BY DEF Joins
  <2> QED
    BY <1>2, <1>3, <2>1
<1>4. CASE m # 0
  <2>1. m - 1 \in Nat /\ m - 1 \notin Bad
    BY <1>1, <1>2, <1>4
  <2>2. PICK f : Joins(f, q, m - 1)
    BY <2>1
  <2> DEFINE g == [i \in 1..m |-> IF i = m THEN (IF m = 1 THEN q[1] ELSE f[m - 1] \o q[m]) ELSE f[i]]
  <2>3. ASSUME NEW i \in 1..m PROVE g[i] = IF i = 1 THEN q[i] ELSE g[i - 1] \o q[i]
    <3>1. CASE i = m /\ m = 1
      BY <3>1
    <3>2. CASE i = m /\ m # 1
      <4>1. i - 1 \in 1..m /\ i - 1 # m
        BY <1>2, <3>2
      <4> QED
        BY <3>2, <4>1
    <3>3. CASE i # m
      <4>1. i \in 1..m - 1 /\ g[i] = f[i] /\ (i # 1 => i - 1 \in 1..m - 1 /\ i - 1 \in 1..m /\ g[i - 1] = f[i - 1])
        BY <1>2, <3>3
      <4>2. f[i] = IF i = 1 THEN q[i] ELSE f[i - 1] \o q[i]
        BY <2>2, <4>1 DEF Joins
      <4> QED
        BY <4>1, <4>2
    <3> QED
      BY <3>1, <3>2, <3>3
  <2>4. g = [i \in 1..m |-> IF i = 1 THEN q[i] ELSE g[i - 1] \o q[i]]
    <3> DEFINE h == [i \in 1..m |-> IF i = 1 THEN q[i] ELSE g[i - 1] \o q[i]]
    <3>1. \A i \in 1..m : h[i] = g[i]
      BY <2>3
    <3>2. g = [i \in 1..m |-> g[i]] /\ h = [i \in 1..m |-> h[i]]
      OBVIOUS
    <3> HIDE DEF g, h
    <3>3. g = h
      BY <3>1, <3>2
    <3> QED
      BY <3>3 DEF h
  <2> HIDE DEF g
  <2> QED
    BY <1>2, <2>4 DEF Joins
<1> QED
  BY <1>3, <1>4

LEMMA FlattenIs ==
  ASSUME NEW q, Len(q) \in Nat, Len(q) # 0
  PROVE  \E joined : Joins(joined, q, Len(q)) /\ FlattenSeq(q) = joined[Len(q)]
<1> DEFINE f == CHOOSE joined : joined = [i \in 1..Len(q) |-> IF i = 1 THEN q[i] ELSE joined[i - 1] \o q[i]]
<1>1. Joins(f, q, Len(q))
  BY JoinsExists DEF Joins
<1>2. FlattenSeq(q) = f[Len(q)]
  BY DEF FlattenSeq
<1> QED
  BY <1>1, <1>2

(* Concatenation is associative. As a predicate of the three sequences, so  *)
(* that a prover uses it for those alone.                                   *)
Regroups(a, b, c) == (a \o b) \o c = a \o (b \o c)

LEMMA Associative ==
  ASSUME NEW S, NEW a \in Seq(S), NEW b \in Seq(S), NEW c \in Seq(S)
  PROVE  Regroups(a, b, c)
  BY ConcatAssociative DEF Regroups

LEMMA JoinsSteps ==
  ASSUME NEW q, NEW n \in Nat, n >= 1, NEW f, Joins(f, q, n)
  PROVE  Steps(f, q, n)
<1>1. \A i \in 1..n : f[i] = IF i = 1 THEN q[i] ELSE f[i - 1] \o q[i]
  BY DEF Joins
<1>2. 1 \in 1..n
  OBVIOUS
<1>3. ASSUME NEW j \in 1..n, j # 1 PROVE f[j] = f[j - 1] \o q[j]
  BY <1>1, <1>3
<1>4. ASSUME NEW i \in 1..n, i + 1 \in 1..n PROVE f[i + 1] = f[i] \o q[i + 1]
  <2>1. PICK j \in 1..n : j = i + 1
    BY <1>4
  <2>2. j # 1 /\ j - 1 = i
    BY <2>1
  <2>3. f[j] = f[j - 1] \o q[j]
    BY <1>3, <2>2
  <2> QED
    BY <2>1, <2>2, <2>3
<1> QED
  BY <1>1, <1>2, <1>4 DEF Steps

LEMMA FlattenType ==
  ASSUME NEW S, NEW q \in Seq(Seq(S))
  PROVE  FlattenSeq(q) \in Seq(S)
<1>1. CASE q = <<>>
  BY <1>1, EmptySeq DEF FlattenSeq
<1>2. CASE q # <<>>
  <2>1. Len(q) \in Nat /\ Len(q) >= 1 /\ \A i \in 1..Len(q) : q[i] \in Seq(S)
    BY <1>2, EmptySeq, ElementOfSeq, LenProperties
  <2>2. PICK f : Joins(f, q, Len(q)) /\ FlattenSeq(q) = f[Len(q)]
    BY <2>1, FlattenIs
  <2> DEFINE T == {i \in 1..Len(q) : f[i] \in Seq(S)}
  <2>3. Steps(f, q, Len(q))
    BY <2>1, <2>2, JoinsSteps
  <2>4. 1 \in T
    BY <2>1, <2>3 DEF Steps
  <2>5. ASSUME NEW i \in 1..Len(q) - 1, i \in T PROVE i + 1 \in T
    <3>0. i \in 1..Len(q) /\ i + 1 \in 1..Len(q)
      BY <2>1
    <3>1. i + 1 \in 1..Len(q) /\ f[i + 1] = f[i] \o q[i + 1] /\ f[i] \in Seq(S)
      BY <2>3, <2>5, <3>0 DEF Steps
    <3>2. q[i + 1] \in Seq(S)
      BY <2>1, <3>1
    <3> QED
      BY <3>1, <3>2, ConcatProperties
  <2>6. 1..Len(q) \subseteq T
    <3> HIDE DEF T
    <3> QED
      BY <2>1, <2>4, <2>5, Counting
  <2> QED
    BY <2>1, <2>2, <2>6
<1> QED
  BY <1>1, <1>2

LEMMA FlattenAppend ==
  ASSUME NEW S, NEW q \in Seq(Seq(S)), NEW b \in Seq(S)
  PROVE  FlattenSeq(Append(q, b)) = FlattenSeq(q) \o b
<1> DEFINE r == Append(q, b)
           n == Len(q)
<1>1. /\ n \in Nat /\ Len(r) = n + 1 /\ r[n + 1] = b /\ r \in Seq(Seq(S))
      /\ \A i \in 1..n : r[i] = q[i]
      /\ q # <<>> => n >= 1
      /\ q = <<>> => n = 0
  BY AppendProperties, LenProperties, EmptySeq
<1>2. PICK h : Joins(h, r, n + 1) /\ FlattenSeq(r) = h[n + 1]
  <2> HIDE DEF r, n
  <2>1. Len(r) \in Nat /\ Len(r) # 0
    BY <1>1
  <2> QED
    BY <1>1, <2>1, FlattenIs
<1> HIDE DEF r, n
<1>3. /\ h[1] = r[1]
      /\ \A i \in 1..n : h[i + 1] = h[i] \o r[i + 1]
  <2>1. n + 1 \in Nat /\ n + 1 >= 1 /\ \A i \in 1..n : i \in 1..n + 1 /\ i + 1 \in 1..n + 1
    BY <1>1
  <2>2. Steps(h, r, n + 1)
    BY <1>2, <2>1, JoinsSteps
  <2> QED
    BY <2>1, <2>2 DEF Steps
<1>4. CASE q = <<>>
  BY <1>1, <1>2, <1>3, <1>4, ConcatEmptySeq DEF FlattenSeq, r, n
<1>5. CASE q # <<>>
  <2>1. PICK f : Joins(f, q, n) /\ FlattenSeq(q) = f[n]
    BY <1>1, <1>5, FlattenIs DEF n
  <2>2. f[1] = q[1] /\ \A i \in 1..n : i + 1 \in 1..n => f[i + 1] = f[i] \o q[i + 1]
    <3>1. n \in Nat /\ n >= 1
      BY <1>1, <1>5
    <3> HIDE DEF n
    <3>2. Steps(f, q, n)
      BY <2>1, <3>1, JoinsSteps
    <3> QED
      BY <3>2 DEF Steps
  <2> DEFINE T == {i \in 1..n : h[i] = f[i]}
  <2>3. 1 \in T
    BY <1>1, <1>3, <1>5, <2>2
  <2>4. ASSUME NEW i \in 1..n - 1, i \in T PROVE i + 1 \in T
    <3>1. i \in 1..n /\ i + 1 \in 1..n /\ h[i] = f[i]
      BY <1>1, <2>4
    <3>2. h[i + 1] = h[i] \o r[i + 1] /\ f[i + 1] = f[i] \o q[i + 1] /\ r[i + 1] = q[i + 1]
      BY <1>1, <1>3, <2>2, <3>1
    <3> QED
      BY <3>1, <3>2
  <2>5. 1..n \subseteq T
    <3> HIDE DEF T
    <3> QED
      BY <1>1, <2>3, <2>4, Counting
  <2>6. n \in 1..n /\ h[n] = f[n]
    BY <1>1, <1>5, <2>5
  <2> QED
    BY <1>1, <1>2, <1>3, <2>1, <2>6 DEF r
<1> QED
  BY <1>4, <1>5

LEMMA FlattenHead ==
  ASSUME NEW S, NEW q \in Seq(Seq(S)), q # <<>>
  PROVE  FlattenSeq(q) = Head(q) \o FlattenSeq(Tail(q))
<1> DEFINE t == Tail(q)
           n == Len(t)
<1>1. /\ t \in Seq(Seq(S)) /\ n \in Nat /\ Len(q) = n + 1 /\ q[1] = Head(q)
      /\ \A i \in 1..n : t[i] = q[i + 1] /\ t[i] \in Seq(S)
      /\ q[1] \in Seq(S)
      /\ t # <<>> => n >= 1
      /\ t = <<>> => n = 0
  <2>1. Len(q) \in Nat /\ Head(q) \in Seq(S)
    BY LenProperties, HeadTailProperties
  <2>2. t \in Seq(Seq(S)) /\ n = Len(q) - 1 /\ \A i \in 1..n : t[i] = q[i + 1]
    BY HeadTailProperties
  <2>3. n \in Nat /\ (t # <<>> => n >= 1) /\ (t = <<>> => n = 0)
    <3> HIDE DEF t
    <3> QED
      BY <2>2, LenProperties, EmptySeq
  <2>4. q[1] = Head(q)
    OBVIOUS
  <2>5. \A i \in 1..n : t[i] \in Seq(S)
    BY <2>2, ElementOfSeq
  <2> QED
    BY <2>1, <2>2, <2>3, <2>4, <2>5
<1>2. PICK h : Joins(h, q, n + 1) /\ FlattenSeq(q) = h[n + 1]
  <2> HIDE DEF t, n
  <2>1. Len(q) \in Nat /\ Len(q) # 0
    BY <1>1
  <2> QED
    BY <1>1, <2>1, FlattenIs
<1> HIDE DEF t, n
<1>3. /\ h[1] = q[1]
      /\ \A i \in 1..n : h[i + 1] = h[i] \o q[i + 1]
  <2>1. n + 1 \in Nat /\ n + 1 >= 1 /\ \A i \in 1..n : i \in 1..n + 1 /\ i + 1 \in 1..n + 1
    BY <1>1
  <2>2. Steps(h, q, n + 1)
    BY <1>2, <2>1, JoinsSteps
  <2> QED
    BY <2>1, <2>2 DEF Steps
<1>4. CASE t = <<>>
  <2>1. FlattenSeq(q) = q[1] /\ q[1] \in Seq(S) /\ FlattenSeq(t) = <<>>
    BY <1>1, <1>2, <1>3, <1>4 DEF FlattenSeq
  <2> QED
    BY <1>1, <2>1, ConcatEmptySeq DEF t
<1>5. CASE t # <<>>
  <2>1. PICK f : Joins(f, t, n) /\ FlattenSeq(t) = f[n]
    BY <1>1, <1>5, FlattenIs DEF n
  <2>2. f[1] = t[1] /\ \A i \in 1..n : i + 1 \in 1..n => f[i + 1] = f[i] \o t[i + 1]
    <3>1. n \in Nat /\ n >= 1
      BY <1>1, <1>5
    <3> HIDE DEF t, n
    <3>2. Steps(f, t, n)
      BY <2>1, <3>1, JoinsSteps
    <3> QED
      BY <3>2 DEF Steps
  <2> DEFINE T == {i \in 1..n : f[i] \in Seq(S) /\ h[i + 1] = q[1] \o f[i]}
  <2>3. 1 \in T
    <3>1. 1 \in 1..n
      BY <1>1, <1>5
    <3>2. f[1] = t[1] /\ t[1] \in Seq(S)
      BY <1>1, <2>2, <3>1
    <3>3. t[1] = q[1 + 1] /\ h[1 + 1] = h[1] \o q[1 + 1]
      BY <1>1, <1>3, <3>1
    <3> QED
      BY <1>3, <3>1, <3>2, <3>3
  <2>4. ASSUME NEW i \in 1..n - 1, i \in T PROVE i + 1 \in T
    <3>1. /\ i + 1 \in 1..n /\ t[i + 1] = q[i + 1 + 1] /\ f[i + 1] = f[i] \o t[i + 1]
          /\ h[i + 1 + 1] = h[i + 1] \o q[i + 1 + 1]
      <4>1. i \in 1..n /\ i + 1 \in 1..n
        BY <1>1
      <4> QED
        BY <1>1, <1>3, <2>2, <4>1
    <3>2. q[1] \in Seq(S) /\ f[i] \in Seq(S) /\ t[i + 1] \in Seq(S) /\ h[i + 1] = q[1] \o f[i]
      BY <1>1, <2>4, <3>1
    <3>3. f[i + 1] \in Seq(S)
      BY <3>1, <3>2, ConcatProperties
    <3>4. h[i + 1 + 1] = (q[1] \o f[i]) \o t[i + 1]
      BY <3>1, <3>2
    <3>5. (q[1] \o f[i]) \o t[i + 1] = q[1] \o (f[i] \o t[i + 1])
      <4>1. Regroups(q[1], f[i], t[i + 1])
        BY <3>2, Associative
      <4> QED
        BY <4>1 DEF Regroups
    <3> QED
      BY <3>1, <3>3, <3>4, <3>5
  <2>5. 1..n \subseteq T
    <3> HIDE DEF T
    <3> QED
      BY <1>1, <1>5, <2>3, <2>4, Counting
  <2>6. h[n + 1] = q[1] \o f[n]
    <3>1. n \in 1..n
      BY <1>1, <1>5
    <3> QED
      BY <2>5, <3>1
  <2> QED
    BY <1>1, <1>2, <2>1, <2>6 DEF t
<1> QED
  BY <1>4, <1>5

-----------------------------------------------------------------------------
(* The inductive invariant.                                                 *)

Writing == {"clock", "format", "open", "write"}

(* A writer holds a batch only between taking it and finishing it; one that *)
(* has left was told to, and left nothing in its queue.                     *)
WriterOK(k) ==
  /\ output[k] # <<>> => pc[k] \in Writing
  /\ pc[k] = "done" => queue[k] = <<>> /\ m_stop_flag[k]
  /\ m_stop_flag[k] => main.at \in {"stop", "join", "stopped"}

(* Where the main thread is, and what is behind it.                         *)
Points ==
  /\ main.at \in {"swap", "push", "stop", "join"} => m_log_type = "AsyncLog"
  /\ main.at = "idle" => ~stopping /\ main.log = "rpc"
  /\ main.at \in {"stop", "join", "stopped"} => stopping
  /\ main.at \in {"stop", "join"} /\ main.log = "app" => pc["rpc"] = "done"
  /\ main.at = "stopped" /\ m_log_type = "AsyncLog" => \A k \in Logs : pc[k] = "done"

(* This run of syncLogs has emptied the buffer of log k.                    *)
Swapped(k) ==
  \/ main.at \in {"stop", "join", "stopped"}
  \/ main.at = "push" /\ (main.log = k \/ k = "rpc")
  \/ main.at = "swap" /\ main.log = "app" /\ k = "rpc"

Taken(k) ==
  /\ before[k] <= logged[k]
  /\ stopping /\ Swapped(k) /\ m_log_type = "AsyncLog" => logged[k] - Len(m_buffer[k]) >= before[k]

ThreadInv == Points /\ \A k \in Logs : WriterOK(k) /\ Taken(k)

(* A day has been asked for where one is used.                              *)
Dated(k) ==
  /\ pc[k] = "format" => now[k] \in Date
  /\ pc[k] = "open" => date \in Date
  /\ pc[k] = "write" => m_date[k] \in Date

(* The files that have lines. The numbers of a day are used without a gap,  *)
(* so there are never more of them than lines.                              *)
Used(k) == {f \in File : size[k][f] > 0}

Numbered(k) ==
  /\ file[k] = [date |-> m_date[k], no |-> m_no[k]]
  /\ \A f \in File : f.date = m_date[k] /\ f.no < m_no[k] => f \in Used(k)

Counted(k) ==
  /\ IsFiniteSet(Used(k))
  /\ Cardinality(Used(k)) + Len(Unwritten(k)) <= logged[k]
  /\ logged[k] <= MaxLines[k]

(* As long as a writer has read no date but its own, it has written nothing *)
(* to a file after the one it has open.                                     *)
InDate(k) ==
  k \notin misread =>
    /\ m_date[k] <= now[k] /\ now[k] <= day
    /\ \A f \in Used(k) : f.date < m_date[k] \/ (f.date = m_date[k] /\ f.no <= m_no[k])

FileOK(k) == Dated(k) /\ Numbered(k) /\ Counted(k) /\ InDate(k)
FileInv == \A k \in Logs : FileOK(k)

LogInv == TypeOK /\ ThreadInv /\ FileInv

-----------------------------------------------------------------------------
(* Types.                                                                   *)

LEMMA Constants ==
  /\ Logs = {"rpc", "app"} /\ MaxNo \in Nat /\ Days \in Nat /\ Days >= 1
  /\ m_log_max_file_size \in Nat /\ m_log_max_file_size >= 1
  /\ \A k \in Logs : /\ MaxLines[k] \in Nat /\ MaxLines[k] <= MaxNo
                      /\ Other(k) \in Logs /\ Other(k) # k
  /\ NoDate \notin Date /\ Mixed \in Date /\ 1..Days \subseteq Date /\ Date \subseteq Int
<1>1. Logs = {"rpc", "app"} /\ \A k \in Logs : MaxLines[k] \in Nat
  BY MaxLinesAssumption DEF Logs
<1>2. MaxNo \in Nat /\ \A k \in Logs : MaxLines[k] <= MaxNo
  BY <1>1 DEF MaxNo
<1>3. \A k \in Logs : Other(k) \in Logs /\ Other(k) # k
  BY <1>1 DEF Other
<1> QED
  BY <1>1, <1>2, <1>3, DaysAssumption, MaxFileSizeAssumption DEF NoDate, Date, Mixed

(* The files of one day up to a number that are all used are no more than   *)
(* the lines logged.                                                        *)
LEMMA NumberBound ==
  ASSUME TypeOK, NEW k \in Logs, FileOK(k), Unwritten(k) \in Seq(Line), file[k] \in File,
         file[k] \in Used(k)
  PROVE  m_no[k] + 1 \in 0..MaxNo
<1> DEFINE no == m_no[k]
           F == {f \in File : f.date = m_date[k] /\ f.no <= no}
           number == [f \in F |-> f.no]
<1>1. no \in Nat /\ m_date[k] \in Date /\ \A j \in 0..no : j \in 0..MaxNo
  <2>1. file[k] = [date |-> m_date[k], no |-> m_no[k]]
    BY DEF FileOK, Numbered
  <2>2. file[k].date \in Date /\ file[k].no \in 0..MaxNo
    BY DEF File
  <2> QED
    BY <2>1, <2>2, Constants
<1>2. F \subseteq Used(k)
  <2> SUFFICES ASSUME NEW f \in F PROVE f \in Used(k)
    OBVIOUS
  <2>1. CASE f.no < no
    BY <2>1 DEF FileOK, Numbered
  <2>2. CASE f.no = no
    BY <2>2 DEF FileOK, Numbered, File
  <2> QED
    BY <1>1, <2>1, <2>2 DEF File
<1>3. IsFiniteSet(F) /\ Cardinality(F) <= Cardinality(Used(k)) /\ Cardinality(F) \in Nat
      /\ Cardinality(Used(k)) \in Nat
  BY <1>2, FS_Subset, FS_CardinalityType DEF FileOK, Counted
<1>4. number \in Surjection(F, 0..no)
  <2>1. number \in [F -> 0..no]
    BY <1>1 DEF File
  <2>2. ASSUME NEW j \in 0..no PROVE \E f \in F : number[f] = j
    <3>1. [date |-> m_date[k], no |-> j] \in F
      BY <1>1 DEF File
    <3> QED
      BY <3>1
  <2> QED
    BY <2>1, <2>2 DEF Surjection
<1>5. IsFiniteSet(0..no) /\ Cardinality(0..no) = no + 1
  <2> HIDE DEF no
  <2>1. IsFiniteSet(0..no) /\ Cardinality(0..no) = IF 0 > no THEN 0 ELSE no - 0 + 1
    BY <1>1, FS_Interval
  <2> QED
    BY <1>1, <2>1
<1>6. Cardinality(0..no) <= Cardinality(F)
  <2> HIDE DEF F, number, no
  <2> QED
    BY <1>3, <1>4, FS_Surjection
<1>7. Len(Unwritten(k)) \in Nat
  BY LenProperties
<1>8. Cardinality(Used(k)) + Len(Unwritten(k)) <= logged[k] /\ logged[k] <= MaxLines[k]
      /\ logged[k] \in Nat
  BY DEF FileOK, Counted, TypeOK
<1>9. MaxNo \in Nat /\ MaxLines[k] \in Nat /\ MaxLines[k] <= MaxNo
  BY Constants
<1>10. no + 1 <= Cardinality(Used(k)) /\ no \in Nat
  <2> HIDE DEF F, number, no
  <2> QED
    BY <1>1, <1>3, <1>5, <1>6
<1> HIDE DEF F, number
<1> QED
  BY <1>3, <1>7, <1>8, <1>9, <1>10

LEMMA InitType == Init => TypeOK
<1> SUFFICES ASSUME Init PROVE TypeOK
  OBVIOUS
<1>1. /\ day \in 1..Days
      /\ m_log_type \in {"AsyncLog", "SyncLog"}
      /\ main \in [at : {"idle", "swap", "push", "stop", "join", "stopped"}, log : Logs]
      /\ stopping \in BOOLEAN /\ misread \subseteq Logs
      /\ date \in Date \cup {NoDate}
  <2>1. 1 \in 1..Days
    BY Constants
  <2>2. [at |-> "idle", log |-> "rpc"] \in [at : {"idle", "swap", "push", "stop", "join", "stopped"}, log : Logs]
    BY DEF Logs
  <2> QED
    BY <2>1, <2>2 DEF Init
<1>2. /\ m_buffer \in [Logs -> Seq(Line)] /\ output \in [Logs -> Seq(Line)] /\ tmp \in Seq(Line)
      /\ queue \in [Logs -> Seq(Seq(Line))]
  BY EmptySeq DEF Init
<1>3. /\ pc \in [Logs -> {"none", "wait", "asleep", "clock", "format", "open", "write", "done"}]
      /\ \A k \in Logs : pc[k] # "write"
  BY DEF Init
<1>4. /\ logged \in [Logs -> Nat] /\ before \in [Logs -> Nat] /\ m_stop_flag \in [Logs -> BOOLEAN]
      /\ now \in [Logs -> Date \cup {NoDate}] /\ m_date \in [Logs -> Date \cup {NoDate}]
      /\ m_no \in [Logs -> 0..MaxNo]
      /\ file \in [Logs -> File \cup {NoFile}]
  BY Constants DEF Init
<1>5. size \in [Logs -> [File -> Nat]]
  BY DEF Init
<1> QED
  BY <1>1, <1>2, <1>3, <1>4, <1>5 DEF TypeOK

LEMMA PipeTypes ==
  ASSUME TypeOK, NEW k \in Logs
  PROVE  /\ output[k] \in Seq(Line) /\ m_buffer[k] \in Seq(Line) /\ tmp \in Seq(Line)
         /\ queue[k] \in Seq(Seq(Line)) /\ FlattenSeq(queue[k]) \in Seq(Line)
         /\ Handed(k) \in Seq(Line) /\ Unwritten(k) \in Seq(Line)
<1>1. /\ output[k] \in Seq(Line) /\ m_buffer[k] \in Seq(Line) /\ tmp \in Seq(Line)
      /\ queue[k] \in Seq(Seq(Line))
  BY DEF TypeOK
<1>2. FlattenSeq(queue[k]) \in Seq(Line)
  BY <1>1, FlattenType
<1>3. Handed(k) \in Seq(Line)
  BY <1>1, <1>2, ConcatProperties DEF Handed
<1>4. (IF At("push", k) THEN tmp ELSE <<>>) \in Seq(Line)
  BY <1>1, EmptySeq
<1> QED
  BY <1>1, <1>2, <1>3, <1>4, ConcatProperties DEF Unwritten

(* Where a step takes a writer or the main thread.                          *)
LEMMA StepGoes ==
  ASSUME TypeOK, NEW k \in Logs, NEW from,
         NEW to \in {"wait", "asleep", "clock", "format", "open", "write", "done"}, Step(k, from, to)
  PROVE  /\ pc[k] = from /\ pc'[k] = to /\ \A j \in Logs : j # k => pc'[j] = pc[j]
         /\ pc' \in [Logs -> {"none", "wait", "asleep", "clock", "format", "open", "write", "done"}]
  BY DEF Step, TypeOK

LEMMA NotifyGoes ==
  ASSUME TypeOK, NEW k \in Logs, Notify(k)
  PROVE  /\ \A j \in Logs : pc'[j] = pc[j] \/ (pc[j] = "asleep" /\ pc'[j] = "wait")
         /\ pc' \in [Logs -> {"none", "wait", "asleep", "clock", "format", "open", "write", "done"}]
  BY DEF Notify, TypeOK

LEMMA MainGoes ==
  ASSUME NEW point \in {"idle", "swap", "push", "stop", "join", "stopped"}, NEW k \in Logs, GoTo(point, k)
  PROVE  /\ main' \in [at : {"idle", "swap", "push", "stop", "join", "stopped"}, log : Logs]
         /\ main'.at = point /\ main'.log = k
  BY DEF GoTo

LEMMA AtPoint ==
  ASSUME TypeOK, NEW point, NEW k
  PROVE  At(point, k) <=> main.at = point /\ main.log = k
  BY DEF At, TypeOK

LEMMA AfterPushGoes ==
  ASSUME NEW k \in Logs, AfterPush(k)
  PROVE  /\ main' \in [at : {"idle", "swap", "push", "stop", "join", "stopped"}, log : Logs]
         /\ k = "rpc" => main'.at = "swap" /\ main'.log = "app"
         /\ k = "app" => main'.at = (IF stopping THEN "stop" ELSE "idle") /\ main'.log = "rpc"
  BY DEF AfterPush, GoTo, Logs

LEMMA ReadType ==
  ASSUME TypeOK, FileInv, NEW k \in Logs, pc[k] = "open"
  PROVE  Read(k) \subseteq Date
<1>1. date \in Date /\ (pc[Other(k)] = "format" => now[Other(k)] \in Date)
  BY Constants DEF FileInv, FileOK, Dated
<1> QED
  BY <1>1, Constants DEF Read

LEMMA OpenFileType ==
  ASSUME TypeOK, FileInv, NEW k \in Logs, OpenFile(k)
  PROVE  TypeOK'
<1>1. /\ Step(k, "open", "write")
      /\ UNCHANGED <<day, loggerVars, mainVars, queue, m_stop_flag, output, now, date, size>>
  BY DEF OpenFile
<1>2. /\ pc[k] = "open" /\ pc'[k] = "write" /\ \A j \in Logs : j # k => pc'[j] = pc[j]
      /\ pc' \in [Logs -> {"none", "wait", "asleep", "clock", "format", "open", "write", "done"}]
  BY <1>1, StepGoes
<1>3. PICK compared, kept \in Read(k) :
         /\ IF compared # m_date[k] THEN Use(k, kept, 0)
            ELSE IF size[k][file[k]] >= m_log_max_file_size THEN Use(k, m_date[k], m_no[k] + 1)
            ELSE UNCHANGED <<m_date, m_no, file>>
         /\ misread' = IF {compared, kept} # {now[k]} THEN misread \cup {k} ELSE misread
  BY DEF OpenFile
<1>4. compared \in Date /\ kept \in Date
  BY <1>2, ReadType
<1>5. ASSUME NEW d \in Date, NEW no \in 0..MaxNo, Use(k, d, no)
      PROVE  /\ m_date' \in [Logs -> Date \cup {NoDate}] /\ m_no' \in [Logs -> 0..MaxNo]
             /\ file' \in [Logs -> File \cup {NoFile}] /\ file'[k] \in File
             /\ \A j \in Logs : j # k => file'[j] = file[j]
  <2>1. [date |-> d, no |-> no] \in File
    BY DEF File
  <2> QED
    BY <1>5, <2>1 DEF Use, TypeOK
<1>6. /\ m_date' \in [Logs -> Date \cup {NoDate}] /\ m_no' \in [Logs -> 0..MaxNo]
      /\ file' \in [Logs -> File \cup {NoFile}] /\ file'[k] \in File
      /\ \A j \in Logs : j # k => file'[j] = file[j]
  <2>1. CASE compared # m_date[k]
    BY <1>3, <1>4, <1>5, <2>1, Constants
  <2>2. CASE compared = m_date[k]
    <3>1. m_date[k] \in Date /\ m_no[k] \in 0..MaxNo /\ file[k] \in File
      BY <1>4, <2>2 DEF FileInv, FileOK, Numbered, File, TypeOK
    <3>2. CASE size[k][file[k]] >= m_log_max_file_size
      <4>1. file[k] \in Used(k)
        <5>1. size[k][file[k]] \in Nat
          BY <3>1 DEF TypeOK
        <5>2. size[k][file[k]] > 0
          BY <3>2, <5>1, MaxFileSizeAssumption
        <5> QED
          BY <3>1, <5>2 DEF Used
      <4>2. m_no[k] + 1 \in 0..MaxNo
        BY <3>1, <4>1, NumberBound, PipeTypes DEF FileInv
      <4> QED
        BY <1>3, <1>5, <2>2, <3>1, <3>2, <4>2
    <3>3. CASE ~ (size[k][file[k]] >= m_log_max_file_size)
      BY <1>3, <2>2, <3>1, <3>3 DEF TypeOK
    <3> QED
      BY <3>2, <3>3
  <2> QED
    BY <2>1, <2>2
<1>7. misread' \subseteq Logs
  BY <1>3 DEF TypeOK
<1> QED
  BY <1>1, <1>2, <1>6, <1>7 DEF TypeOK, loggerVars, mainVars

LEMMA NextType ==
  ASSUME TypeOK, FileInv, [Next]_vars
  PROVE  TypeOK'
<1> USE DEF loggerVars, mainVars, fileVars, writerVars
<1>1. CASE UNCHANGED vars
  BY <1>1 DEF vars, TypeOK
<1>2. CASE Midnight
  BY <1>2, DaysAssumption DEF Midnight, TypeOK
<1>3. CASE FlushAndStop
  <2>1. main' \in [at : {"idle", "swap", "push", "stop", "join", "stopped"}, log : Logs]
    BY <1>3 DEF FlushAndStop, GoTo, Logs
  <2> QED
    BY <1>3, <2>1 DEF FlushAndStop, TypeOK
<1>4. CASE SyncLogs
  <2>1. main' \in [at : {"idle", "swap", "push", "stop", "join", "stopped"}, log : Logs]
    BY <1>4 DEF SyncLogs, GoTo, Logs
  <2> QED
    BY <1>4, <2>1 DEF SyncLogs, TypeOK
<1>5. ASSUME NEW k \in Logs, PushLog(k) PROVE TypeOK'
  <2>1. logged' \in [Logs -> Nat] /\ logged'[k] = logged[k] + 1 /\ logged'[k] \in Line
    <3>1. logged[k] \in Nat /\ logged[k] < MaxLines[k] /\ logged' = [logged EXCEPT ![k] = @ + 1]
      BY <1>5 DEF PushLog, TypeOK
    <3>2. MaxLines[k] \in Nat /\ MaxNo \in Nat /\ MaxLines[k] <= MaxNo
      BY Constants
    <3>3. logged[k] + 1 \in 1..MaxNo
      BY <3>1, <3>2
    <3>4. logged' \in [Logs -> Nat] /\ logged'[k] = logged[k] + 1
      BY <3>1 DEF TypeOK
    <3> QED
      BY <3>3, <3>4 DEF Line
  <2>2. m_buffer' \in [Logs -> Seq(Line)]
    <3>1. Append(m_buffer[k], logged'[k]) \in Seq(Line)
      BY <2>1, AppendProperties, PipeTypes
    <3> QED
      BY <1>5, <3>1 DEF PushLog, TypeOK
  <2> QED
    BY <1>5, <2>1, <2>2 DEF PushLog, TypeOK
<1>6. ASSUME NEW k \in Logs, Swap(k) PROVE TypeOK'
  <2>1. main' \in [at : {"idle", "swap", "push", "stop", "join", "stopped"}, log : Logs]
    BY <1>6, MainGoes DEF Swap
  <2>2. m_buffer' \in [Logs -> Seq(Line)] /\ tmp' \in Seq(Line)
    BY <1>6, EmptySeq DEF Swap, TypeOK
  <2> QED
    BY <1>6, <2>1, <2>2 DEF Swap, TypeOK
<1>7. ASSUME NEW k \in Logs, PushLogs(k) PROVE TypeOK'
  <2>1. main' \in [at : {"idle", "swap", "push", "stop", "join", "stopped"}, log : Logs]
    BY <1>7, AfterPushGoes DEF PushLogs
  <2>2. queue' \in [Logs -> Seq(Seq(Line))]
    <3>1. Append(queue[k], tmp) \in Seq(Seq(Line))
      BY AppendProperties, PipeTypes
    <3> QED
      BY <1>7, <3>1 DEF PushLogs, TypeOK
  <2>3. /\ pc' \in [Logs -> {"none", "wait", "asleep", "clock", "format", "open", "write", "done"}]
        /\ \A j \in Logs : pc'[j] = "write" => pc[j] = "write"
    BY <1>7, NotifyGoes DEF PushLogs, TypeOK
  <2>4. tmp' \in Seq(Line)
    BY <1>7, EmptySeq DEF PushLogs
  <2> QED
    BY <1>7, <2>1, <2>2, <2>3, <2>4 DEF PushLogs, TypeOK
<1>8. ASSUME NEW k \in Logs, Stop(k) PROVE TypeOK'
  <2>1. main' \in [at : {"idle", "swap", "push", "stop", "join", "stopped"}, log : Logs]
    BY <1>8, MainGoes DEF Stop
  <2>2. /\ pc' \in [Logs -> {"none", "wait", "asleep", "clock", "format", "open", "write", "done"}]
        /\ \A j \in Logs : pc'[j] = "write" => pc[j] = "write"
    BY <1>8, NotifyGoes DEF Stop
  <2>3. m_stop_flag' \in [Logs -> BOOLEAN]
    BY <1>8 DEF Stop, TypeOK
  <2> QED
    BY <1>8, <2>1, <2>2, <2>3 DEF Stop, TypeOK
<1>9. ASSUME NEW k \in Logs, Join(k) PROVE TypeOK'
  <2>1. main' \in [at : {"idle", "swap", "push", "stop", "join", "stopped"}, log : Logs]
    BY <1>9 DEF Join, GoTo, Logs
  <2> QED
    BY <1>9, <2>1 DEF Join, TypeOK
<1>10. ASSUME NEW k \in Logs, NEW from, NEW to \in {"wait", "asleep", "clock", "format", "open", "done"},
              Step(k, from, to)
       PROVE  /\ pc' \in [Logs -> {"none", "wait", "asleep", "clock", "format", "open", "write", "done"}]
              /\ \A j \in Logs : pc'[j] = "write" => pc[j] = "write"
  BY <1>10, StepGoes
<1>11. ASSUME NEW k \in Logs, Sleep(k) \/ Leave(k) \/ BatchDone(k) PROVE TypeOK'
  <2>1. /\ pc' \in [Logs -> {"none", "wait", "asleep", "clock", "format", "open", "write", "done"}]
        /\ \A j \in Logs : pc'[j] = "write" => pc[j] = "write"
    BY <1>10, <1>11 DEF Sleep, Leave, BatchDone
  <2> QED
    BY <1>11, <2>1 DEF Sleep, Leave, BatchDone, TypeOK
<1>12. ASSUME NEW k \in Logs, PopBatch(k) PROVE TypeOK'
  <2>1. /\ pc' \in [Logs -> {"none", "wait", "asleep", "clock", "format", "open", "write", "done"}]
        /\ \A j \in Logs : pc'[j] = "write" => pc[j] = "write"
    BY <1>10, <1>12 DEF PopBatch
  <2>2. Head(queue[k]) \in Seq(Line) /\ Tail(queue[k]) \in Seq(Seq(Line))
    BY <1>12, PipeTypes, HeadTailProperties DEF PopBatch
  <2>3. output' \in [Logs -> Seq(Line)] /\ queue' \in [Logs -> Seq(Seq(Line))]
    BY <1>12, <2>2 DEF PopBatch, TypeOK
  <2> QED
    BY <1>12, <2>1, <2>3 DEF PopBatch, TypeOK
<1>13. ASSUME NEW k \in Logs, GetTime(k) PROVE TypeOK'
  <2>1. /\ pc' \in [Logs -> {"none", "wait", "asleep", "clock", "format", "open", "write", "done"}]
        /\ \A j \in Logs : pc'[j] = "write" => pc[j] = "write"
    BY <1>10, <1>13 DEF GetTime
  <2>2. now' \in [Logs -> Date \cup {NoDate}]
    BY <1>13, Constants DEF GetTime, TypeOK
  <2> QED
    BY <1>13, <2>1, <2>2 DEF GetTime, TypeOK
<1>14. ASSUME NEW k \in Logs, Format(k) PROVE TypeOK'
  <2>1. /\ pc' \in [Logs -> {"none", "wait", "asleep", "clock", "format", "open", "write", "done"}]
        /\ \A j \in Logs : pc'[j] = "write" => pc[j] = "write"
    BY <1>10, <1>14 DEF Format
  <2> QED
    BY <1>14, <2>1 DEF Format, TypeOK
<1>15. ASSUME NEW k \in Logs, WriteLine(k) PROVE TypeOK'
  <2>1. Tail(output[k]) \in Seq(Line)
    BY <1>15, PipeTypes, HeadTailProperties DEF WriteLine
  <2>2. output' \in [Logs -> Seq(Line)]
    BY <1>15, <2>1 DEF WriteLine, TypeOK
  <2>3. size' \in [Logs -> [File -> Nat]]
    <3>1. file[k] \in File /\ size \in [Logs -> [File -> Nat]]
          /\ size' = [size EXCEPT ![k][file[k]] = @ + 1]
      BY <1>15 DEF WriteLine, TypeOK
    <3> QED
      BY <3>1
  <2> QED
    BY <1>15, <2>2, <2>3 DEF WriteLine, TypeOK
<1> QED
  BY <1>1, <1>2, <1>3, <1>4, <1>5, <1>6, <1>7, <1>8, <1>9, <1>11, <1>12, <1>13, <1>14, <1>15, OpenFileType
  DEF Next, MainStep, WriterStep

-----------------------------------------------------------------------------
(* What a step makes of a log's lines on their way to the file.             *)

Pending(k) == IF At("push", k) THEN tmp ELSE <<>>

LEMMA PendingType ==
  ASSUME TypeOK, NEW k \in Logs
  PROVE  Pending(k) \in Seq(Line) /\ Unwritten(k) = Handed(k) \o Pending(k) \o m_buffer[k]
  BY PipeTypes, EmptySeq DEF Pending, Unwritten

LEMMA PipeStays ==
  ASSUME TypeOK, NEW k \in Logs, output'[k] = output[k], queue'[k] = queue[k],
         m_buffer'[k] = m_buffer[k], tmp' = tmp \/ ~At("push", k),
         main'.at = "push" /\ main'.log = k <=> main.at = "push" /\ main.log = k, TypeOK'
  PROVE  Unwritten(k)' = Unwritten(k)
<1>1. At("push", k)' <=> At("push", k)
  BY DEF At, TypeOK
<1>2. Handed(k)' = Handed(k)
  BY DEF Handed
<1> QED
  BY <1>1, <1>2 DEF Unwritten

LEMMA PushLogPipe ==
  ASSUME TypeOK, TypeOK', NEW k \in Logs, PushLog(k)
  PROVE  /\ \A j \in Logs : j # k => Unwritten(j)' = Unwritten(j)
         /\ IF k = "rpc" /\ m_log_type = "SyncLog" THEN Unwritten(k)' = Unwritten(k)
            ELSE logged[k] + 1 \in Line /\ Unwritten(k)' = Append(Unwritten(k), logged[k] + 1)
<1>1. /\ UNCHANGED <<main, tmp, output, queue>>
      /\ \A j \in Logs : j # k => m_buffer'[j] = m_buffer[j]
      /\ IF k = "rpc" /\ m_log_type = "SyncLog" THEN m_buffer' = m_buffer
         ELSE m_buffer'[k] = Append(m_buffer[k], logged[k] + 1)
  BY DEF PushLog, mainVars, writerVars, TypeOK
<1>2. ASSUME NEW j \in Logs, m_buffer'[j] = m_buffer[j] PROVE Unwritten(j)' = Unwritten(j)
  BY <1>1, <1>2, PipeStays
<1>3. ASSUME ~ (k = "rpc" /\ m_log_type = "SyncLog")
      PROVE  logged[k] + 1 \in Line /\ Unwritten(k)' = Append(Unwritten(k), logged[k] + 1)
  <2>1. logged[k] + 1 \in Line
    <3>1. logged[k] \in Nat /\ logged[k] < MaxLines[k]
      BY DEF PushLog, TypeOK
    <3>2. MaxLines[k] \in Nat /\ MaxNo \in Nat /\ MaxLines[k] <= MaxNo
      BY Constants
    <3> QED
      BY <3>1, <3>2 DEF Line
  <2>2. UNCHANGED <<Handed(k), Pending(k)>>
    BY <1>1 DEF Handed, Pending, At
  <2> DEFINE h == Handed(k) \o Pending(k)
             line == logged[k] + 1
  <2>3. h \in Seq(Line) /\ m_buffer[k] \in Seq(Line) /\ <<line>> \in Seq(Line)
    <3>1. Handed(k) \in Seq(Line) /\ Pending(k) \in Seq(Line) /\ m_buffer[k] \in Seq(Line)
      BY PipeTypes, PendingType
    <3>2. <<logged[k] + 1>> \in Seq(Line)
      BY <2>1
    <3> QED
      BY <3>1, <3>2, ConcatProperties
  <2>4. /\ Unwritten(k) = h \o m_buffer[k]
        /\ Unwritten(k)' = h \o Append(m_buffer[k], line)
    BY <1>1, <1>3, <2>2, PendingType DEF Pending, Unwritten
  <2> HIDE DEF h, line
  <2>5. Append(m_buffer[k], line) = m_buffer[k] \o <<line>>
    BY <2>1, <2>3, AppendIsConcat DEF line
  <2>6. h \o (m_buffer[k] \o <<line>>) = (h \o m_buffer[k]) \o <<line>>
    <3>1. Regroups(h, m_buffer[k], <<line>>)
      BY <2>3, Associative
    <3> QED
      BY <3>1 DEF Regroups
  <2>7. Append(Unwritten(k), line) = Unwritten(k) \o <<line>>
    BY <2>1, PipeTypes, AppendIsConcat DEF line
  <2> QED
    BY <2>1, <2>4, <2>5, <2>6, <2>7 DEF line
<1> QED
  BY <1>1, <1>2, <1>3

LEMMA TailConcat ==
  ASSUME NEW S, NEW s \in Seq(S), NEW t \in Seq(S), s # <<>>
  PROVE  s \o t # <<>> /\ Tail(s) \o t = Tail(s \o t)
<1>1. /\ Tail(s) \in Seq(S) /\ Len(Tail(s)) = Len(s) - 1
      /\ \A i \in 1..Len(Tail(s)) : Tail(s)[i] = s[i + 1]
      /\ Len(s) \in Nat /\ Len(s) >= 1 /\ Len(t) \in Nat
  BY HeadTailProperties, LenProperties, EmptySeq
<1>2. /\ s \o t \in Seq(S) /\ Len(s \o t) = Len(s) + Len(t) /\ s \o t # <<>>
      /\ \A i \in 1..Len(s) + Len(t) : (s \o t)[i] = IF i <= Len(s) THEN s[i] ELSE t[i - Len(s)]
  BY <1>1, ConcatProperties, ConcatEqualIffEmpty, EmptySeq
<1>3. /\ Tail(s) \o t \in Seq(S) /\ Len(Tail(s) \o t) = Len(s) - 1 + Len(t)
      /\ \A i \in 1..Len(s) - 1 + Len(t) :
           (Tail(s) \o t)[i] = IF i <= Len(s) - 1 THEN Tail(s)[i] ELSE t[i - (Len(s) - 1)]
  BY <1>1, ConcatProperties
<1> DEFINE u == s \o t
<1>4. /\ Tail(u) \in Seq(S) /\ Len(Tail(u)) = Len(s) + Len(t) - 1
      /\ \A i \in 1..Len(s) + Len(t) - 1 : Tail(u)[i] = u[i + 1]
  <2>1. u \in Seq(S) /\ u # <<>> /\ Len(u) = Len(s) + Len(t)
    BY <1>2
  <2> HIDE DEF u
  <2> QED
    BY <2>1, HeadTailProperties
<1>5. ASSUME NEW i \in 1..Len(s) + Len(t) - 1 PROVE (Tail(s) \o t)[i] = Tail(u)[i]
  <2>1. i + 1 \in 1..Len(s) + Len(t) /\ i \in 1..Len(s) - 1 + Len(t)
    BY <1>1
  <2>2. Tail(u)[i] = IF i + 1 <= Len(s) THEN s[i + 1] ELSE t[i + 1 - Len(s)]
    BY <1>2, <1>4, <2>1
  <2>3. CASE i + 1 <= Len(s)
    <3>1. i \in 1..Len(Tail(s)) /\ i <= Len(s) - 1
      BY <1>1, <2>3
    <3> QED
      BY <1>1, <1>3, <2>1, <2>2, <2>3, <3>1
  <2>4. CASE ~ (i + 1 <= Len(s))
    <3>1. ~ (i <= Len(s) - 1) /\ i + 1 - Len(s) = i - (Len(s) - 1)
      BY <1>1, <2>4
    <3> QED
      BY <1>3, <2>1, <2>2, <2>4, <3>1
  <2> QED
    BY <2>3, <2>4
<1>6. Len(s) + Len(t) - 1 = Len(s) - 1 + Len(t)
  BY <1>1
<1> HIDE DEF u
<1>7. Tail(s) \o t = Tail(u)
  BY <1>3, <1>4, <1>5, <1>6, SeqEqual
<1> QED
  BY <1>2, <1>7 DEF u

LEMMA WriteLinePipe ==
  ASSUME TypeOK, TypeOK', NEW k \in Logs, WriteLine(k)
  PROVE  /\ \A j \in Logs : j # k => Unwritten(j)' = Unwritten(j)
         /\ Unwritten(k) # <<>> /\ Unwritten(k)' = Tail(Unwritten(k))
<1>1. /\ UNCHANGED <<main, tmp, queue, m_buffer>>
      /\ output[k] # <<>> /\ output'[k] = Tail(output[k])
      /\ \A j \in Logs : j # k => output'[j] = output[j]
  BY DEF WriteLine, mainVars, loggerVars, TypeOK
<1>2. \A j \in Logs : j # k => Unwritten(j)' = Unwritten(j)
  BY <1>1, PipeStays
<1> DEFINE q == FlattenSeq(queue[k])
<1>3. q \in Seq(Line) /\ output[k] \in Seq(Line) /\ Handed(k) = output[k] \o q /\ Pending(k) \in Seq(Line)
      /\ m_buffer[k] \in Seq(Line) /\ Handed(k) \in Seq(Line)
  BY PipeTypes, PendingType DEF Handed
<1>4. Handed(k)' = Tail(output[k]) \o q
  BY <1>1 DEF Handed
<1> HIDE DEF q
<1>5. Handed(k) # <<>> /\ Handed(k)' = Tail(Handed(k))
  BY <1>1, <1>3, <1>4, TailConcat
<1> DEFINE h == Handed(k)
           b == m_buffer[k]
           p == Pending(k)
<1>6. Unwritten(k) = (h \o p) \o b /\ Unwritten(k)' = (Tail(h) \o p) \o b
  BY <1>1, <1>5 DEF Unwritten, Pending, At
<1> HIDE DEF h, b, p
<1>7. h \in Seq(Line) /\ p \in Seq(Line) /\ b \in Seq(Line) /\ h # <<>>
  BY <1>3, <1>5 DEF h, p, b
<1>8. h \o p \in Seq(Line) /\ h \o p # <<>> /\ Tail(h) \o p = Tail(h \o p)
  BY <1>7, ConcatProperties, TailConcat
<1>9. (h \o p) \o b # <<>> /\ Tail(h \o p) \o b = Tail((h \o p) \o b)
  BY <1>7, <1>8, TailConcat
<1> QED
  BY <1>2, <1>6, <1>8, <1>9

LEMMA SwapPipe ==
  ASSUME TypeOK, TypeOK', NEW k \in Logs, Swap(k), NEW j \in Logs
  PROVE  Unwritten(j)' = Unwritten(j)
<1>1. /\ UNCHANGED <<output, queue>> /\ tmp' = m_buffer[k] /\ m_buffer'[k] = <<>>
      /\ \A l \in Logs : l # k => m_buffer'[l] = m_buffer[l]
      /\ main.at = "swap" /\ main.log = k /\ main'.at = "push" /\ main'.log = k
  <2>1. main.at = "swap" /\ main.log = k
    BY AtPoint DEF Swap
  <2>2. main'.at = "push" /\ main'.log = k
    BY MainGoes DEF Swap
  <2>3. m_buffer'[k] = <<>> /\ \A l \in Logs : l # k => m_buffer'[l] = m_buffer[l]
    BY DEF Swap, TypeOK
  <2> QED
    BY <2>1, <2>2, <2>3 DEF Swap, writerVars
<1>2. CASE j # k
  <2>1. ~At("push", j)
    BY <1>1, AtPoint
  <2> QED
    BY <1>1, <1>2, <2>1, PipeStays
<1>3. CASE j = k
  <2>1. ~At("push", k) /\ At("push", k)'
    BY <1>1 DEF At, TypeOK
  <2>2. Handed(k) \in Seq(Line) /\ Handed(k)' = Handed(k) /\ m_buffer[k] \in Seq(Line)
    BY <1>1, PipeTypes DEF Handed
  <2>3. Unwritten(k) = Handed(k) \o <<>> \o m_buffer[k]
        /\ Unwritten(k)' = Handed(k) \o m_buffer[k] \o <<>>
    BY <1>1, <2>1, <2>2 DEF Unwritten
  <2>4. Handed(k) \o m_buffer[k] \in Seq(Line) /\ Handed(k) \o <<>> = Handed(k)
    BY <2>2, ConcatProperties, ConcatEmptySeq
  <2>5. (Handed(k) \o m_buffer[k]) \o <<>> = Handed(k) \o m_buffer[k]
    BY <2>4, ConcatEmptySeq
  <2> QED
    BY <1>3, <2>3, <2>4, <2>5
<1> QED
  BY <1>2, <1>3

LEMMA PushLogsPipe ==
  ASSUME TypeOK, TypeOK', NEW k \in Logs, PushLogs(k), NEW j \in Logs
  PROVE  Unwritten(j)' = Unwritten(j)
<1>1. /\ UNCHANGED <<output, m_buffer>>
      /\ IF tmp = <<>> THEN queue' = queue
         ELSE /\ queue'[k] = Append(queue[k], tmp)
              /\ \A l \in Logs : l # k => queue'[l] = queue[l]
      /\ main.at = "push" /\ main.log = k /\ main'.at # "push"
  <2>1. main.at = "push" /\ main.log = k
    BY AtPoint DEF PushLogs
  <2>2. main'.at # "push"
    BY AfterPushGoes DEF PushLogs, Logs
  <2> QED
    BY <2>1, <2>2 DEF PushLogs, loggerVars, writerVars, TypeOK
<1>2. CASE j # k
  <2>1. ~At("push", j)
    BY <1>1, <1>2, AtPoint
  <2> QED
    BY <1>1, <1>2, <2>1, PipeStays
<1>3. CASE j = k
  <2>1. At("push", k) /\ ~At("push", k)'
    BY <1>1 DEF At, TypeOK
  <2> DEFINE q == FlattenSeq(queue[k])
             o == output[k]
  <2>2. q \in Seq(Line) /\ o \in Seq(Line) /\ tmp \in Seq(Line) /\ m_buffer[k] \in Seq(Line)
        /\ o \o q \in Seq(Line)
    BY PipeTypes, ConcatProperties
  <2>3. FlattenSeq(queue'[k]) = q \o tmp
    <3>1. CASE tmp = <<>>
      BY <1>1, <2>2, <3>1, ConcatEmptySeq
    <3>2. CASE tmp # <<>>
      BY <1>1, <3>2, FlattenAppend, PipeTypes
    <3> QED
      BY <3>1, <3>2
  <2>4. Unwritten(k) = ((o \o q) \o tmp) \o m_buffer[k]
        /\ Unwritten(k)' = ((o \o (q \o tmp)) \o <<>>) \o m_buffer[k]
    BY <1>1, <2>1, <2>3 DEF Unwritten, Handed
  <2> HIDE DEF q, o
  <2>5. (o \o q) \o tmp = o \o (q \o tmp)
    <3>1. Regroups(o, q, tmp)
      BY <2>2, Associative
    <3> QED
      BY <3>1 DEF Regroups
  <2>6. (o \o q) \o tmp \in Seq(Line)
    BY <2>2, ConcatProperties
  <2>7. ((o \o q) \o tmp) \o <<>> = (o \o q) \o tmp
    BY <2>6, ConcatEmptySeq
  <2> QED
    BY <1>3, <2>4, <2>5, <2>7
<1> QED
  BY <1>2, <1>3

LEMMA PopBatchPipe ==
  ASSUME TypeOK, TypeOK', NEW k \in Logs, PopBatch(k), WriterOK(k), NEW j \in Logs
  PROVE  Unwritten(j)' = Unwritten(j)
<1>1. /\ UNCHANGED <<m_buffer, tmp, main>> /\ pc[k] = "wait" /\ queue[k] # <<>>
      /\ output'[k] = Head(queue[k]) /\ queue'[k] = Tail(queue[k])
      /\ \A l \in Logs : l # k => output'[l] = output[l] /\ queue'[l] = queue[l]
  BY DEF PopBatch, Step, loggerVars, mainVars, TypeOK
<1>2. CASE j # k
  BY <1>1, <1>2, PipeStays
<1>3. CASE j = k
  <2>1. output[k] = <<>>
    BY <1>1 DEF WriterOK, Writing
  <2>2. FlattenSeq(queue[k]) = Head(queue[k]) \o FlattenSeq(Tail(queue[k]))
    BY <1>1, PipeTypes, FlattenHead
  <2>3. <<>> \o FlattenSeq(queue[k]) = FlattenSeq(queue[k])
    BY PipeTypes, ConcatEmptySeq
  <2>4. Handed(k)' = Handed(k)
    BY <1>1, <2>1, <2>2, <2>3 DEF Handed
  <2> QED
    BY <1>1, <1>3, <2>4 DEF Unwritten, At
<1> QED
  BY <1>2, <1>3

(* Every other step leaves the lines where they are.                        *)
Handles == \E k \in Logs : PushLog(k) \/ WriteLine(k)

LEMMA NextPipe ==
  ASSUME TypeOK, TypeOK', ThreadInv, [Next]_vars, ~Handles, NEW j \in Logs
  PROVE  Unwritten(j)' = Unwritten(j)
<1>1. CASE UNCHANGED <<output, queue, m_buffer, tmp, main>>
  BY <1>1, PipeStays
<1>2. CASE UNCHANGED <<output, queue, m_buffer, tmp>> /\ main'.at # "push" /\ main.at # "push"
  BY <1>2, PipeStays
<1>3. CASE UNCHANGED vars \/ Midnight
  BY <1>1, <1>3 DEF vars, Midnight, loggerVars, mainVars, writerVars
<1>4. CASE FlushAndStop \/ SyncLogs
  <2>1. main.at # "push" /\ main'.at # "push"
    BY <1>4, AtPoint DEF FlushAndStop, SyncLogs, GoTo
  <2> QED
    BY <1>2, <1>4, <2>1 DEF FlushAndStop, SyncLogs, loggerVars, writerVars
<1>5. ASSUME NEW k \in Logs, Stop(k) \/ Join(k) PROVE Unwritten(j)' = Unwritten(j)
  <2>1. main.at # "push" /\ main'.at # "push"
    BY <1>5, AtPoint DEF Stop, Join, GoTo
  <2> QED
    BY <1>2, <1>5, <2>1 DEF Stop, Join, loggerVars, writerVars
<1>6. ASSUME NEW k \in Logs,
             Sleep(k) \/ Leave(k) \/ GetTime(k) \/ Format(k) \/ OpenFile(k) \/ BatchDone(k)
      PROVE  Unwritten(j)' = Unwritten(j)
  BY <1>1, <1>6
  DEF Sleep, Leave, GetTime, Format, OpenFile, BatchDone, loggerVars, mainVars, writerVars
<1> QED
  BY <1>3, <1>4, <1>5, <1>6, SwapPipe, PushLogsPipe, PopBatchPipe
  DEF Next, MainStep, WriterStep, Handles, ThreadInv

-----------------------------------------------------------------------------
(* The threads' part of the invariant.                                      *)

LEMMA InitThreads == Init => ThreadInv
<1> SUFFICES ASSUME Init PROVE ThreadInv
  OBVIOUS
<1>1. Points
  BY DEF Init, Points
<1>2. \A k \in Logs : WriterOK(k) /\ Taken(k)
  BY DEF Init, WriterOK, Taken
<1> QED
  BY <1>1, <1>2 DEF ThreadInv

(* Steps of the writer of log k.                                            *)
LEMMA WriterThreads ==
  ASSUME TypeOK, ThreadInv, NEW k \in Logs, WriterStep(k)
  PROVE  ThreadInv'
<1>1. /\ UNCHANGED <<main, stopping, m_log_type, logged, m_buffer, before, m_stop_flag>>
      /\ \A j \in Logs : j # k => output'[j] = output[j] /\ queue'[j] = queue[j] /\ pc'[j] = pc[j]
      /\ pc[k] # "done"
  <2>1. /\ UNCHANGED <<main, stopping, m_log_type, logged, m_buffer, before, m_stop_flag>>
        /\ pc[k] # "done"
    BY DEF WriterStep, Sleep, PopBatch, Leave, GetTime, Format, OpenFile, WriteLine, BatchDone, Step,
           loggerVars, mainVars
  <2>2. \A j \in Logs : j # k => pc'[j] = pc[j]
    BY DEF WriterStep, Sleep, PopBatch, Leave, GetTime, Format, OpenFile, WriteLine, BatchDone, Step,
           TypeOK
  <2>3. \A j \in Logs : j # k => output'[j] = output[j] /\ queue'[j] = queue[j]
    BY DEF WriterStep, Sleep, PopBatch, Leave, GetTime, Format, OpenFile, WriteLine, BatchDone,
           writerVars, TypeOK
  <2> QED
    BY <2>1, <2>2, <2>3
<1>2. Points'
  BY <1>1 DEF ThreadInv, Points, Logs
<1>3. \A j \in Logs : Taken(j)'
  BY <1>1 DEF ThreadInv, Taken, Swapped
<1>4. WriterOK(k)'
  <2>1. WriterOK(k) /\ (m_stop_flag[k] => main.at \in {"stop", "join", "stopped"})
    BY DEF ThreadInv, WriterOK
  <2>2. CASE Sleep(k) \/ Leave(k) \/ GetTime(k) \/ Format(k) \/ OpenFile(k) \/ BatchDone(k)
    <3>1. output' = output /\ queue' = queue
      BY <2>2 DEF Sleep, Leave, GetTime, Format, OpenFile, BatchDone, writerVars
    <3>2. pc'[k] = "done" => queue[k] = <<>> /\ m_stop_flag[k]
      BY <2>2, StepGoes DEF Sleep, Leave, GetTime, Format, OpenFile, BatchDone
    <3>3. output[k] # <<>> => pc'[k] \in Writing
      BY <2>1, <2>2, StepGoes
      DEF Sleep, Leave, GetTime, Format, OpenFile, BatchDone, WriterOK, Writing
    <3> QED
      BY <1>1, <2>1, <3>1, <3>2, <3>3 DEF WriterOK
  <2>3. CASE PopBatch(k)
    <3>1. pc'[k] = "clock"
      BY <2>3, StepGoes DEF PopBatch
    <3> QED
      BY <1>1, <2>1, <3>1 DEF WriterOK, Writing
  <2>4. CASE WriteLine(k)
    <3>1. pc'[k] = "write"
      BY <2>4 DEF WriteLine
    <3> QED
      BY <1>1, <2>1, <3>1 DEF WriterOK, Writing
  <2> QED
    BY <2>2, <2>3, <2>4 DEF WriterStep
<1>5. \A j \in Logs : j # k => WriterOK(j)'
  BY <1>1 DEF ThreadInv, WriterOK
<1> QED
  BY <1>2, <1>3, <1>4, <1>5 DEF ThreadInv

(* Steps that leave the writers and their queues alone, but for waking one. *)
LEMMA WritersStay ==
  ASSUME ThreadInv, UNCHANGED <<output, queue, m_stop_flag>>,
         \A j \in Logs : pc'[j] = pc[j] \/ (pc[j] = "asleep" /\ pc'[j] = "wait"),
         main.at \in {"stop", "join", "stopped"} => main'.at \in {"stop", "join", "stopped"}
  PROVE  \A k \in Logs : WriterOK(k)'
  BY DEF ThreadInv, WriterOK, Writing

LEMMA LoggerThreads ==
  ASSUME TypeOK, ThreadInv, Midnight \/ FlushAndStop \/ SyncLogs \/ \E k \in Logs : PushLog(k) \/ Join(k)
  PROVE  ThreadInv'
<1>1. UNCHANGED <<output, queue, m_stop_flag, pc, m_log_type>>
  BY DEF Midnight, FlushAndStop, SyncLogs, PushLog, Join, loggerVars, writerVars
<1>2. CASE Midnight
  BY <1>1, <1>2 DEF Midnight, ThreadInv, Points, WriterOK, Taken, Swapped, loggerVars, mainVars
<1>3. CASE FlushAndStop
  <2>1. /\ main.at = "idle" /\ main'.log = "rpc" /\ stopping' /\ before' = logged
        /\ main'.at = (IF m_log_type = "AsyncLog" THEN "swap" ELSE "stopped")
        /\ UNCHANGED <<logged, m_buffer>>
    BY <1>3, AtPoint DEF FlushAndStop, GoTo
  <2>2. Points'
    BY <1>1, <2>1 DEF Points
  <2>3. \A k \in Logs : Taken(k)'
    BY <1>1, <2>1 DEF Taken, Swapped, TypeOK
  <2> QED
    BY <1>1, <2>1, <2>2, <2>3, WritersStay DEF ThreadInv
<1>4. CASE SyncLogs
  <2>1. /\ main.at = "idle" /\ main'.log = "rpc" /\ main'.at = "swap" /\ m_log_type = "AsyncLog"
        /\ UNCHANGED <<logged, m_buffer, stopping, before>>
    BY <1>4, AtPoint DEF SyncLogs, GoTo, loggerVars
  <2>2. Points'
    BY <1>1, <2>1 DEF Points
  <2>3. \A k \in Logs : Taken(k)'
    BY <1>1, <2>1 DEF Taken, Swapped, ThreadInv
  <2> QED
    BY <1>1, <2>1, <2>2, <2>3, WritersStay DEF ThreadInv
<1>5. ASSUME NEW k \in Logs, PushLog(k) PROVE ThreadInv'
  <2>1. /\ UNCHANGED <<main, stopping, before>>
        /\ \A j \in Logs : j # k => logged'[j] = logged[j] /\ m_buffer'[j] = m_buffer[j]
        /\ logged'[k] = logged[k] + 1 /\ logged[k] \in Nat /\ before[k] \in Nat
    BY <1>5 DEF PushLog, mainVars, TypeOK
  <2>2. m_buffer[k] \in Seq(Line) /\ logged'[k] \in Line
    <3>1. logged[k] < MaxLines[k]
      BY <1>5 DEF PushLog
    <3>2. MaxLines[k] \in Nat /\ MaxNo \in Nat /\ MaxLines[k] <= MaxNo
      BY Constants
    <3>3. logged[k] + 1 \in 1..MaxNo
      BY <2>1, <3>1, <3>2
    <3> QED
      BY <2>1, <3>3, PipeTypes DEF Line
  <2>3. Len(m_buffer[k]) \in Nat /\ (Len(m_buffer'[k]) = Len(m_buffer[k]) \/ Len(m_buffer'[k]) = Len(m_buffer[k]) + 1)
    <3>1. m_buffer'[k] = m_buffer[k] \/ m_buffer'[k] = Append(m_buffer[k], logged'[k])
      BY <1>5 DEF PushLog, TypeOK
    <3> QED
      BY <2>2, <3>1, LenProperties, AppendProperties
  <2>4. Points'
    BY <1>1, <2>1 DEF Points, ThreadInv
  <2>5. ASSUME NEW j \in Logs PROVE Taken(j)'
    <3>1. Taken(j)
      BY DEF ThreadInv
    <3>2. CASE j # k
      BY <1>1, <2>1, <3>1, <3>2 DEF Taken, Swapped
    <3>3. CASE j = k
      BY <1>1, <2>1, <2>3, <3>1, <3>3 DEF Taken, Swapped
    <3> QED
      BY <3>2, <3>3
  <2> QED
    BY <1>1, <2>1, <2>4, <2>5, WritersStay DEF ThreadInv
<1>6. ASSUME NEW k \in Logs, Join(k) PROVE ThreadInv'
  <2>1. /\ main.at = "join" /\ main.log = k /\ pc[k] = "done"
        /\ main'.at = (IF k = "rpc" THEN "stop" ELSE "stopped") /\ main'.log = "app"
        /\ UNCHANGED <<logged, m_buffer, stopping, before>>
    BY <1>6, AtPoint DEF Join, GoTo, loggerVars, Logs
  <2>2. Points'
    BY <1>1, <2>1 DEF Points, ThreadInv, Logs
  <2>3. \A j \in Logs : Taken(j)'
    BY <1>1, <2>1 DEF Taken, Swapped, ThreadInv
  <2> QED
    BY <1>1, <2>1, <2>2, <2>3, WritersStay DEF ThreadInv
<1> QED
  BY <1>2, <1>3, <1>4, <1>5, <1>6

LEMMA SwapThreads ==
  ASSUME TypeOK, ThreadInv, NEW k \in Logs, Swap(k)
  PROVE  ThreadInv'
<1>1. /\ UNCHANGED <<output, queue, m_stop_flag, pc, m_log_type, logged, stopping, before>>
      /\ main.at = "swap" /\ main.log = k /\ main'.at = "push" /\ main'.log = k
      /\ m_buffer'[k] = <<>> /\ \A j \in Logs : j # k => m_buffer'[j] = m_buffer[j]
  <2>1. main.at = "swap" /\ main.log = k
    BY AtPoint DEF Swap
  <2>2. main'.at = "push" /\ main'.log = k
    BY MainGoes DEF Swap
  <2>3. m_buffer'[k] = <<>> /\ \A j \in Logs : j # k => m_buffer'[j] = m_buffer[j]
    BY DEF Swap, TypeOK
  <2> QED
    BY <2>1, <2>2, <2>3 DEF Swap, writerVars
<1>2. Points'
  BY <1>1 DEF Points, ThreadInv
<1>3. ASSUME NEW j \in Logs PROVE Taken(j)'
  <2>1. Taken(j) /\ Len(<<>>) = 0 /\ logged[j] \in Nat
    BY EmptySeq DEF ThreadInv, TypeOK
  <2>2. CASE j = k
    BY <1>1, <2>1, <2>2 DEF Taken
  <2>3. CASE j # k
    BY <1>1, <2>1, <2>3 DEF Taken, Swapped, Logs
  <2> QED
    BY <2>2, <2>3
<1> QED
  BY <1>1, <1>2, <1>3, WritersStay DEF ThreadInv

LEMMA PushLogsThreads ==
  ASSUME TypeOK, ThreadInv, NEW k \in Logs, PushLogs(k)
  PROVE  ThreadInv'
<1>1. /\ UNCHANGED <<output, m_stop_flag, m_log_type, logged, m_buffer, stopping, before>>
      /\ main.at = "push" /\ main.log = k /\ (k = "rpc" => main'.at = "swap" /\ main'.log = "app")
      /\ (k = "app" => main'.at = (IF stopping THEN "stop" ELSE "idle") /\ main'.log = "rpc")
      /\ \A j \in Logs : j # k => queue'[j] = queue[j]
      /\ m_log_type = "AsyncLog"
  BY AtPoint, AfterPushGoes DEF PushLogs, loggerVars, writerVars, TypeOK, ThreadInv, Points
<1>2. \A j \in Logs : pc'[j] = pc[j] \/ (pc[j] = "asleep" /\ pc'[j] = "wait")
  BY NotifyGoes DEF PushLogs
<1>3. Points'
  BY <1>1, <1>2 DEF Points, ThreadInv, Logs
<1>4. \A j \in Logs : Taken(j)'
  BY <1>1 DEF Taken, Swapped, ThreadInv, Logs
<1>5. ASSUME NEW j \in Logs PROVE WriterOK(j)'
  <2>1. WriterOK(j) /\ ~m_stop_flag[j]
    BY <1>1 DEF ThreadInv, WriterOK
  <2> QED
    BY <1>1, <1>2, <2>1 DEF WriterOK, Writing
<1> QED
  BY <1>3, <1>4, <1>5 DEF ThreadInv

LEMMA StopThreads ==
  ASSUME TypeOK, ThreadInv, NEW k \in Logs, Stop(k)
  PROVE  ThreadInv'
<1>1. /\ UNCHANGED <<output, queue, m_log_type, logged, m_buffer, stopping, before>>
      /\ main.at = "stop" /\ main.log = k /\ main'.at = "join" /\ main'.log = k
      /\ m_stop_flag'[k] /\ \A j \in Logs : j # k => m_stop_flag'[j] = m_stop_flag[j]
  <2>1. main.at = "stop" /\ main.log = k
    BY AtPoint DEF Stop
  <2>2. main'.at = "join" /\ main'.log = k
    BY MainGoes DEF Stop
  <2>3. m_stop_flag'[k] /\ \A j \in Logs : j # k => m_stop_flag'[j] = m_stop_flag[j]
    BY DEF Stop, TypeOK
  <2> QED
    BY <2>1, <2>2, <2>3 DEF Stop, loggerVars, writerVars
<1>2. \A j \in Logs : pc'[j] = pc[j] \/ (pc[j] = "asleep" /\ pc'[j] = "wait")
  BY NotifyGoes DEF Stop
<1>3. Points'
  BY <1>1, <1>2 DEF Points, ThreadInv, Logs
<1>4. \A j \in Logs : Taken(j)'
  BY <1>1 DEF Taken, Swapped, ThreadInv
<1>5. ASSUME NEW j \in Logs PROVE WriterOK(j)'
  BY <1>1, <1>2 DEF WriterOK, Writing, ThreadInv
<1> QED
  BY <1>3, <1>4, <1>5 DEF ThreadInv

LEMMA NextThreads ==
  ASSUME TypeOK, ThreadInv, [Next]_vars
  PROVE  ThreadInv'
<1>1. CASE UNCHANGED vars
  BY <1>1
  DEF vars, loggerVars, mainVars, writerVars, ThreadInv, Points, WriterOK, Taken, Swapped
<1> QED
  BY <1>1, WriterThreads, LoggerThreads, SwapThreads, PushLogsThreads, StopThreads DEF Next, MainStep

-----------------------------------------------------------------------------
(* The files' part.                                                         *)

LEMMA InitFiles == Init => FileInv
<1> SUFFICES ASSUME Init, NEW k \in Logs PROVE FileOK(k)
  BY DEF FileInv
<1>1. /\ pc[k] \in {"wait", "none"} /\ file[k] = [date |-> NoDate, no |-> 0] /\ m_date[k] = NoDate
      /\ m_no[k] = 0 /\ now[k] = NoDate /\ day = 1 /\ logged[k] = 0 /\ misread = {}
      /\ size[k] = [f \in File |-> 0]
  BY DEF Init, NoFile
<1>2. Used(k) = {}
  BY <1>1 DEF Used
<1>3. IsFiniteSet(Used(k)) /\ Cardinality(Used(k)) = 0
  BY <1>2, FS_EmptySet
<1>4. Unwritten(k) = <<>>
  <2>1. output[k] = <<>> /\ queue[k] = <<>> /\ m_buffer[k] = <<>> /\ ~At("push", k)
    BY DEF Init, At
  <2>2. FlattenSeq(<<>>) = <<>> /\ <<>> \in Seq(Line)
    BY EmptySeq DEF FlattenSeq
  <2>3. <<>> \o <<>> = <<>>
    BY <2>2, ConcatEmptySeq
  <2> QED
    BY <2>1, <2>2, <2>3 DEF Unwritten, Handed
<1>5. Len(Unwritten(k)) = 0 /\ MaxLines[k] \in Nat
  BY <1>4, Constants, EmptySeq
<1>6. \A f \in File : ~ (f.date = m_date[k] /\ f.no < m_no[k])
  BY <1>1 DEF File
<1> QED
  BY <1>1, <1>2, <1>3, <1>5, <1>6, Constants DEF FileOK, Dated, Numbered, Counted, InDate, NoDate

(* A day that is used has been asked for, whichever writer formats it.      *)
LEMMA DatedStays ==
  ASSUME TypeOK, FileInv, [Next]_vars, ~ \E k \in Logs : OpenFile(k), NEW j \in Logs
  PROVE  Dated(j)'
<1>1. \A k \in Logs : Dated(k)
  BY DEF FileInv, FileOK
<1>2. ASSUME UNCHANGED <<now, date, m_date>>,
             pc'[j] \in {"format", "open", "write"} => pc'[j] = pc[j]
      PROVE  Dated(j)'
  BY <1>1, <1>2 DEF Dated
<1>3. ASSUME NEW k \in Logs, GetTime(k) PROVE Dated(j)'
  <2>1. /\ UNCHANGED <<date, m_date>> /\ day \in Date /\ pc'[k] = "format"
        /\ \A l \in Logs : l # k => pc'[l] = pc[l] /\ now'[l] = now[l]
        /\ now'[k] = day
    BY <1>3, StepGoes, Constants DEF GetTime, fileVars, TypeOK
  <2> QED
    BY <1>1, <2>1 DEF Dated
<1>4. ASSUME NEW k \in Logs, Format(k) PROVE Dated(j)'
  <2>1. /\ UNCHANGED <<now, m_date>> /\ date' = now[k] /\ pc[k] = "format" /\ pc'[k] = "open"
        /\ \A l \in Logs : l # k => pc'[l] = pc[l]
    BY <1>4, StepGoes DEF Format, fileVars
  <2> QED
    BY <1>1, <2>1 DEF Dated
<1>5. ASSUME NEW k \in Logs,
             Sleep(k) \/ Leave(k) \/ BatchDone(k) \/ PopBatch(k) \/ WriteLine(k) PROVE Dated(j)'
  <2>1. UNCHANGED <<now, date, m_date>>
    BY <1>5 DEF Sleep, Leave, BatchDone, PopBatch, WriteLine, writerVars, fileVars
  <2>2. pc'[j] \in {"format", "open", "write"} => pc'[j] = pc[j]
    BY <1>5, StepGoes DEF Sleep, Leave, BatchDone, PopBatch, WriteLine
  <2> QED
    BY <1>2, <2>1, <2>2
<1>6. ASSUME NEW k \in Logs, PushLogs(k) \/ Stop(k) PROVE Dated(j)'
  <2>1. UNCHANGED <<now, date, m_date>>
    BY <1>6 DEF PushLogs, Stop, writerVars, fileVars
  <2>2. pc'[j] \in {"format", "open", "write"} => pc'[j] = pc[j]
    BY <1>6, NotifyGoes DEF PushLogs, Stop
  <2> QED
    BY <1>2, <2>1, <2>2
<1>7. ASSUME NEW k \in Logs,
             UNCHANGED vars \/ Midnight \/ FlushAndStop \/ SyncLogs \/ PushLog(k) \/ Swap(k) \/ Join(k)
      PROVE  Dated(j)'
  <2>1. UNCHANGED <<pc, now, date, m_date>>
    BY <1>7 DEF vars, Midnight, FlushAndStop, SyncLogs, PushLog, Swap, Join, writerVars, fileVars
  <2> QED
    BY <1>2, <2>1
<1> QED
  BY <1>3, <1>4, <1>5, <1>6, <1>7 DEF Next, MainStep, WriterStep

(* Steps that open no file, write no line and take none.                    *)
LEMMA FilesStay ==
  ASSUME TypeOK, TypeOK', FileInv, ThreadInv, [Next]_vars, ~Handles, ~ \E k \in Logs : OpenFile(k),
         NEW j \in Logs
  PROVE  FileOK(j)'
<1>1. UNCHANGED <<fileVars, logged>> /\ day <= day' /\ (now'[j] = now[j] \/ now'[j] = day)
  <2>1. CASE UNCHANGED vars \/ Midnight
    BY <2>1 DEF Midnight, vars, loggerVars, writerVars, TypeOK
  <2>2. CASE \E k \in Logs : GetTime(k)
    BY <2>2 DEF GetTime, loggerVars, TypeOK
  <2>3. CASE FlushAndStop \/ MainStep \/ \E k \in Logs : Sleep(k) \/ Leave(k) \/ BatchDone(k) \/ PopBatch(k) \/ Format(k)
    <3>1. UNCHANGED <<day, logged, fileVars, now>>
      BY <2>3
      DEF FlushAndStop, MainStep, SyncLogs, Swap, PushLogs, Stop, Join, Sleep, Leave, BatchDone, PopBatch,
          Format, loggerVars, writerVars
    <3> QED
      BY <3>1 DEF TypeOK
  <2> QED
    BY <2>1, <2>2, <2>3 DEF Next, WriterStep, Handles
<1>2. Dated(j)' /\ Unwritten(j)' = Unwritten(j)
  BY DatedStays, NextPipe
<1>3. FileOK(j) /\ Used(j)' = Used(j)
  BY <1>1 DEF FileInv, Used, fileVars
<1>4. Numbered(j)' /\ Counted(j)'
  BY <1>1, <1>2, <1>3 DEF FileOK, Numbered, Counted, fileVars
<1>5. InDate(j)'
  <2>1. m_date[j] \in Int /\ now[j] \in Int /\ day \in Int /\ day' \in Int
    <3>1. Date \subseteq Int /\ NoDate \in Int /\ 1..Days \subseteq Int
      BY Constants DEF NoDate
    <3>2. /\ m_date[j] \in Date \cup {NoDate} /\ now[j] \in Date \cup {NoDate}
          /\ day \in 1..Days /\ day' \in 1..Days
      BY DEF TypeOK
    <3> QED
      BY <3>1, <3>2
  <2>2. m_date'[j] = m_date[j] /\ m_no'[j] = m_no[j] /\ misread' = misread
    BY <1>1 DEF fileVars
  <2> QED
    BY <1>1, <1>3, <2>1, <2>2 DEF FileOK, InDate
<1> QED
  BY <1>2, <1>4, <1>5 DEF FileOK

LEMMA PushLogFiles ==
  ASSUME TypeOK, TypeOK', FileInv, NEW k \in Logs, PushLog(k), NEW j \in Logs
  PROVE  FileOK(j)'
<1>1. /\ UNCHANGED <<fileVars, day, now, date, pc>>
      /\ logged[k] \in Nat /\ logged[k] < MaxLines[k] /\ logged'[k] = logged[k] + 1
      /\ \A l \in Logs : l # k => logged'[l] = logged[l]
  BY DEF PushLog, writerVars, TypeOK
<1>2. FileOK(j) /\ Used(j)' = Used(j)
  BY <1>1 DEF FileInv, Used, fileVars
<1>3. Dated(j)' /\ Numbered(j)' /\ InDate(j)'
  BY <1>1, <1>2 DEF FileOK, Dated, Numbered, InDate, fileVars
<1>4. Counted(j)'
  <2>1. CASE j # k
    BY <1>1, <1>2, <2>1, PushLogPipe DEF FileOK, Counted
  <2>2. CASE j = k
    <3>1. Unwritten(k) \in Seq(Line) /\ Len(Unwritten(k)) \in Nat
      BY PipeTypes, LenProperties
    <3>2. Len(Unwritten(k)') = Len(Unwritten(k)) \/ Len(Unwritten(k)') = Len(Unwritten(k)) + 1
      BY <3>1, PushLogPipe, AppendProperties
    <3>3. Cardinality(Used(k)) \in Nat /\ MaxLines[k] \in Nat
      BY <1>2, <2>2, FS_CardinalityType, Constants DEF FileOK, Counted
    <3> QED
      BY <1>1, <1>2, <2>2, <3>1, <3>2, <3>3 DEF FileOK, Counted
  <2> QED
    BY <2>1, <2>2
<1> QED
  BY <1>3, <1>4 DEF FileOK

LEMMA WriteLineFiles ==
  ASSUME TypeOK, TypeOK', FileInv, NEW k \in Logs, WriteLine(k), NEW j \in Logs
  PROVE  FileOK(j)'
<1>1. /\ UNCHANGED <<day, logged, m_date, m_no, file, misread, now, date, pc>>
      /\ pc[k] = "write" /\ size' = [size EXCEPT ![k][file[k]] = @ + 1]
  BY DEF WriteLine, loggerVars
<1>2. FileOK(j)
  BY DEF FileInv
<1>3. Dated(j)'
  BY <1>1, <1>2 DEF FileOK, Dated
<1>4. CASE j # k
  <2>1. size'[j] = size[j] /\ Unwritten(j)' = Unwritten(j)
    BY <1>1, <1>4, WriteLinePipe DEF TypeOK
  <2>2. Used(j)' = Used(j)
    BY <2>1 DEF Used
  <2> QED
    BY <1>1, <1>2, <1>3, <2>1, <2>2 DEF FileOK, Numbered, Counted, InDate
<1>5. CASE j = k
  <2>1. /\ file[k] \in File /\ size'[k][file[k]] = size[k][file[k]] + 1 /\ size[k][file[k]] \in Nat
        /\ \A f \in File : f # file[k] => size'[k][f] = size[k][f]
    BY <1>1 DEF TypeOK
  <2>2. Used(k)' = Used(k) \cup {file[k]}
    BY <2>1 DEF Used
  <2>3. /\ IsFiniteSet(Used(k)') /\ Cardinality(Used(k)') <= Cardinality(Used(k)) + 1
        /\ Cardinality(Used(k)') \in Nat /\ Cardinality(Used(k)) \in Nat
    <3> DEFINE u == Used(k)
    <3>1. IsFiniteSet(u)
      BY <1>2, <1>5 DEF FileOK, Counted
    <3> HIDE DEF u
    <3>2. /\ IsFiniteSet(u \cup {file[k]})
          /\ Cardinality(u \cup {file[k]}) = IF file[k] \in u THEN Cardinality(u) ELSE Cardinality(u) + 1
      BY <3>1, FS_AddElement
    <3>3. Cardinality(u) \in Nat /\ Cardinality(u \cup {file[k]}) \in Nat
      BY <3>1, <3>2, FS_CardinalityType
    <3> QED
      BY <2>2, <3>2, <3>3 DEF u
  <2>4. Len(Unwritten(k)') = Len(Unwritten(k)) - 1 /\ Len(Unwritten(k)) \in Nat
    BY WriteLinePipe, PipeTypes, HeadTailProperties, LenProperties
  <2>5. Counted(k)'
    <3>1. Cardinality(Used(k)) + Len(Unwritten(k)) <= logged[k] /\ logged[k] <= MaxLines[k]
          /\ logged[k] \in Nat
      BY <1>2, <1>5 DEF FileOK, Counted, TypeOK
    <3>2. Cardinality(Used(k)') + Len(Unwritten(k)') <= logged[k]
      BY <2>3, <2>4, <3>1
    <3> QED
      BY <1>1, <2>3, <3>1, <3>2 DEF Counted
  <2>6. Numbered(k)'
    BY <1>1, <1>2, <1>5, <2>2 DEF FileOK, Numbered
  <2>7. InDate(k)'
    <3>1. file[k].date = m_date[k] /\ file[k].no = m_no[k] /\ m_no[k] \in Nat
      BY <1>2, <1>5 DEF FileOK, Numbered, TypeOK
    <3> QED
      BY <1>1, <1>2, <1>5, <2>2, <3>1 DEF FileOK, InDate
  <2> QED
    BY <1>3, <1>5, <2>5, <2>6, <2>7 DEF FileOK
<1> QED
  BY <1>4, <1>5

(* What opening a file comes to.                                            *)
LEMMA OpenFileGoes ==
  ASSUME TypeOK, FileInv, NEW k \in Logs, OpenFile(k)
  PROVE  /\ UNCHANGED <<day, loggerVars, mainVars, queue, m_stop_flag, output, now, date, size>>
         /\ pc[k] = "open" /\ pc'[k] = "write"
         /\ misread \subseteq misread' /\ misread' \subseteq misread \cup {k}
         /\ \A j \in Logs : j # k => /\ m_date'[j] = m_date[j] /\ m_no'[j] = m_no[j]
                                     /\ file'[j] = file[j] /\ pc'[j] = pc[j]
         /\ file'[k] = [date |-> m_date'[k], no |-> m_no'[k]] /\ m_date'[k] \in Date
         /\ \/ m_no'[k] = 0 /\ (k \notin misread' => m_date'[k] = now[k] /\ m_date[k] # now[k])
            \/ /\ file[k] \in Used(k) /\ m_date'[k] = m_date[k] /\ m_no'[k] = m_no[k] + 1
            \/ /\ size[k][file[k]] < m_log_max_file_size /\ m_date'[k] = m_date[k] /\ m_no'[k] = m_no[k]
               /\ file'[k] = file[k]
<1>1. /\ Step(k, "open", "write")
      /\ UNCHANGED <<day, loggerVars, mainVars, queue, m_stop_flag, output, now, date, size>>
  BY DEF OpenFile
<1>2. pc[k] = "open" /\ pc'[k] = "write" /\ \A j \in Logs : j # k => pc'[j] = pc[j]
  BY <1>1, StepGoes
<1>3. PICK compared, kept \in Read(k) :
         /\ IF compared # m_date[k] THEN Use(k, kept, 0)
            ELSE IF size[k][file[k]] >= m_log_max_file_size THEN Use(k, m_date[k], m_no[k] + 1)
            ELSE UNCHANGED <<m_date, m_no, file>>
         /\ misread' = IF {compared, kept} # {now[k]} THEN misread \cup {k} ELSE misread
  BY DEF OpenFile
<1>4. compared \in Date /\ kept \in Date
  BY <1>2, ReadType
<1>5. k \notin misread' => compared = now[k] /\ kept = now[k]
  BY <1>3
<1>6. misread \subseteq misread' /\ misread' \subseteq misread \cup {k}
  BY <1>3
<1>7. ASSUME NEW d, NEW no, Use(k, d, no)
      PROVE  /\ m_date'[k] = d /\ m_no'[k] = no /\ file'[k] = [date |-> d, no |-> no]
             /\ \A j \in Logs : j # k => m_date'[j] = m_date[j] /\ m_no'[j] = m_no[j] /\ file'[j] = file[j]
  BY <1>7 DEF Use, TypeOK
<1>8. CASE compared # m_date[k]
  <2>1. Use(k, kept, 0)
    BY <1>3, <1>8
  <2>2. /\ m_date'[k] = kept /\ m_no'[k] = 0 /\ file'[k] = [date |-> kept, no |-> 0]
        /\ \A j \in Logs : j # k => m_date'[j] = m_date[j] /\ m_no'[j] = m_no[j] /\ file'[j] = file[j]
    BY <1>7, <2>1
  <2> QED
    BY <1>1, <1>2, <1>4, <1>5, <1>6, <1>8, <2>2
<1>9. CASE compared = m_date[k]
  <2>1. /\ m_date[k] \in Date /\ file[k] \in File /\ size[k][file[k]] \in Nat
        /\ file[k] = [date |-> m_date[k], no |-> m_no[k]]
    <3>1. m_date[k] \in Date /\ m_date[k] # NoDate
      BY <1>4, <1>9, Constants DEF Date, NoDate
    <3>2. file[k] = [date |-> m_date[k], no |-> m_no[k]] /\ m_no[k] \in 0..MaxNo
      BY DEF FileInv, FileOK, Numbered, TypeOK
    <3>3. file[k] \in File
      BY <3>1, <3>2 DEF File
    <3> QED
      BY <3>1, <3>2, <3>3 DEF TypeOK
  <2>2. CASE size[k][file[k]] >= m_log_max_file_size
    <3>1. size[k][file[k]] > 0
      BY <2>1, <2>2, MaxFileSizeAssumption
    <3>2. file[k] \in Used(k) /\ Use(k, m_date[k], m_no[k] + 1)
      BY <1>3, <1>9, <2>1, <2>2, <3>1 DEF Used
    <3>3. /\ m_date'[k] = m_date[k] /\ m_no'[k] = m_no[k] + 1
          /\ file'[k] = [date |-> m_date'[k], no |-> m_no'[k]] /\ m_date'[k] \in Date
          /\ \A j \in Logs : j # k => m_date'[j] = m_date[j] /\ m_no'[j] = m_no[j] /\ file'[j] = file[j]
      BY <1>7, <2>1, <3>2
    <3>4. /\ UNCHANGED <<day, loggerVars, mainVars, queue, m_stop_flag, output, now, date, size>>
          /\ pc[k] = "open" /\ pc'[k] = "write" /\ file[k] \in Used(k)
      BY <1>1, <1>2, <3>2
    <3> QED
      BY <1>2, <1>6, <3>3, <3>4
  <2>3. CASE ~ (size[k][file[k]] >= m_log_max_file_size)
    <3>1. size[k][file[k]] < m_log_max_file_size
      BY <2>1, <2>3, MaxFileSizeAssumption
    <3>2. UNCHANGED <<m_date, m_no, file>>
      BY <1>3, <1>9, <2>3
    <3> QED
      BY <1>1, <1>2, <1>6, <2>1, <3>1, <3>2
  <2> QED
    BY <2>2, <2>3
<1> QED
  BY <1>8, <1>9

LEMMA OpenFileFiles ==
  ASSUME TypeOK, TypeOK', FileInv, NEW k \in Logs, OpenFile(k), Unwritten(k)' = Unwritten(k),
         NEW j \in Logs, Unwritten(j)' = Unwritten(j)
  PROVE  FileOK(j)'
<1>1. UNCHANGED <<day, logged, now, date, size>>
  BY OpenFileGoes DEF loggerVars
<1>2. FileOK(j) /\ Used(j)' = Used(j)
  BY <1>1 DEF FileInv, Used
<1>3. Counted(j)'
  BY <1>1, <1>2 DEF FileOK, Counted
<1>4. CASE j # k
  <2>1. /\ m_date'[j] = m_date[j] /\ m_no'[j] = m_no[j] /\ file'[j] = file[j] /\ pc'[j] = pc[j]
        /\ j \notin misread' => j \notin misread
    BY <1>4, OpenFileGoes
  <2> QED
    BY <1>1, <1>2, <1>3, <2>1 DEF FileOK, Dated, Numbered, InDate
<1>5. CASE j = k
  <2>1. /\ pc'[k] = "write" /\ m_date'[k] \in Date /\ (k \notin misread' => k \notin misread)
        /\ file'[k] = [date |-> m_date'[k], no |-> m_no'[k]]
    BY OpenFileGoes
  <2>2. Dated(k)'
    BY <2>1 DEF Dated
  <2>3. /\ m_date[k] \in Int /\ now[k] \in Int /\ m_no[k] \in Nat
        /\ \A f \in File : f.date \in Int /\ f.no \in Nat
    <3>1. Date \subseteq Int /\ NoDate \in Int /\ 0..MaxNo \subseteq Nat
      BY Constants DEF NoDate
    <3>2. m_date[k] \in Date \cup {NoDate} /\ now[k] \in Date \cup {NoDate} /\ m_no[k] \in 0..MaxNo
      BY DEF TypeOK
    <3>3. ASSUME NEW f \in File PROVE f.date \in Date /\ f.no \in 0..MaxNo
      BY DEF File
    <3> HIDE DEF Date
    <3> QED
      BY <3>1, <3>2, <3>3
  <2>4. Numbered(k) /\ InDate(k) /\ \A f \in Used(k) : f \in File
    BY <1>2, <1>5 DEF FileOK, Used
  <2>5. CASE m_no'[k] = 0 /\ (k \notin misread' => m_date'[k] = now[k] /\ m_date[k] # now[k])
    <3>1. Numbered(k)'
      BY <2>1, <2>3, <2>5 DEF Numbered
    <3>2. InDate(k)'
      BY <1>1, <1>2, <1>5, <2>1, <2>3, <2>4, <2>5 DEF InDate
    <3> QED
      BY <1>3, <1>5, <2>2, <3>1, <3>2 DEF FileOK
  <2>6. CASE file[k] \in Used(k) /\ m_date'[k] = m_date[k] /\ m_no'[k] = m_no[k] + 1
    <3>1. Numbered(k)'
      <4> SUFFICES ASSUME NEW f \in File, f.date = m_date[k], f.no < m_no[k] + 1 PROVE f \in Used(k)
        BY <1>2, <1>5, <2>1, <2>6 DEF Numbered
      <4>1. f.no < m_no[k] \/ f.no = m_no[k]
        BY <2>3
      <4>2. f.no = m_no[k] => f = file[k]
        BY <2>4 DEF Numbered, File
      <4> QED
        BY <2>4, <2>6, <4>1, <4>2 DEF Numbered
    <3>2. InDate(k)'
      BY <1>1, <1>2, <1>5, <2>1, <2>3, <2>4, <2>6 DEF InDate
    <3> QED
      BY <1>3, <1>5, <2>2, <3>1, <3>2 DEF FileOK
  <2>7. CASE m_date'[k] = m_date[k] /\ m_no'[k] = m_no[k] /\ file'[k] = file[k]
    BY <1>1, <1>2, <1>3, <1>5, <2>1, <2>2, <2>7 DEF FileOK, Numbered, InDate
  <2> QED
    BY <2>5, <2>6, <2>7, OpenFileGoes
<1> QED
  BY <1>4, <1>5

LEMMA NextFiles ==
  ASSUME TypeOK, TypeOK', ThreadInv, FileInv, [Next]_vars
  PROVE  FileInv'
<1> SUFFICES ASSUME NEW j \in Logs PROVE FileOK(j)'
  BY DEF FileInv
<1>1. CASE Handles
  BY <1>1, PushLogFiles, WriteLineFiles DEF Handles
<1>2. CASE ~Handles
  <2>1. \A l \in Logs : Unwritten(l)' = Unwritten(l)
    BY <1>2, NextPipe
  <2>2. ASSUME NEW k \in Logs, OpenFile(k) PROVE FileOK(j)'
    BY <2>1, <2>2, OpenFileFiles
  <2> QED
    BY <1>2, <2>2, FilesStay
<1> QED
  BY <1>1, <1>2

LEMMA LogSpec == Spec => []LogInv
<1>1. Init => LogInv
  BY InitType, InitThreads, InitFiles DEF LogInv
<1>2. LogInv /\ [Next]_vars => LogInv'
  BY NextType, NextThreads, NextFiles DEF LogInv
<1> QED
  BY <1>1, <1>2, PTL DEF Spec

-----------------------------------------------------------------------------
(* The log's state always has its type: in particular no file is given a    *)
(* number above the count of lines, and none is written before it is open.  *)
THEOREM TypeCorrect == Spec => []TypeOK
  BY LogSpec, PTL DEF LogInv

(* When flushAndStop has returned, the writers have left with nothing in    *)
(* their hands, and what was logged before the call is in the files.        *)
THEOREM StoppedDrained == Spec => []StopDrains
<1>1. LogInv => StopDrains
  <2> SUFFICES ASSUME LogInv, main.at = "stopped", m_log_type = "AsyncLog", NEW k \in Logs
               PROVE  Handed(k) = <<>> /\ logged[k] - Len(m_buffer[k]) >= before[k]
    BY DEF StopDrains
  <2>1. pc[k] = "done" /\ stopping /\ Swapped(k) /\ WriterOK(k) /\ Taken(k)
    BY DEF LogInv, ThreadInv, Points, Swapped
  <2>2. output[k] = <<>> /\ queue[k] = <<>>
    BY <2>1 DEF WriterOK, Writing
  <2>3. FlattenSeq(<<>>) = <<>> /\ <<>> \o <<>> = <<>>
    <3>1. <<>> \in Seq(Line)
      BY EmptySeq
    <3> QED
      BY <3>1, ConcatEmptySeq DEF FlattenSeq
  <2> QED
    BY <2>1, <2>2, <2>3 DEF Handed, Taken
<1> QED
  BY <1>1, LogSpec, PTL

(* As long as a writer reads no date but its own, a batch goes to a file    *)
(* that has room and that does not come before the one open.                *)
THEOREM FilesRoll == Spec => Rolls
<1>1. ASSUME LogInv, TypeOK', [Next]_vars, NEW k \in Logs \ misread', pc[k] = "open", pc'[k] = "write"
      PROVE  /\ size[k][file'[k]] < m_log_max_file_size
             /\ file'[k] = file[k] \/ After(file'[k], file[k])
  <2>1. TypeOK /\ FileInv /\ k \in Logs /\ FileOK(k)
    BY <1>1 DEF LogInv, FileInv
  <2>2. OpenFile(k)
    <3>1. ASSUME NEW j \in Logs, WriterStep(j), j # k PROVE pc'[k] = pc[k]
      BY <2>1, <3>1, StepGoes
      DEF WriterStep, Sleep, PopBatch, Leave, GetTime, Format, OpenFile, WriteLine, BatchDone
    <3>2. ASSUME WriterStep(k) PROVE OpenFile(k)
      BY <1>1, <2>1, <3>2, StepGoes
      DEF WriterStep, Sleep, PopBatch, Leave, GetTime, Format, OpenFile, WriteLine, BatchDone
    <3>3. ASSUME NEW j \in Logs,
                 \/ UNCHANGED vars \/ Midnight \/ FlushAndStop \/ SyncLogs \/ PushLog(j)
                 \/ Swap(j) \/ PushLogs(j) \/ Stop(j) \/ Join(j)
          PROVE  pc'[k] # "write" \/ pc'[k] = pc[k]
      BY <2>1, <3>3, NotifyGoes
      DEF vars, Midnight, FlushAndStop, SyncLogs, PushLog, Swap, PushLogs, Stop, Join
    <3> QED
      BY <1>1, <3>1, <3>2, <3>3 DEF Next, MainStep
  <2>3. /\ m_date[k] \in Int /\ now[k] \in Int /\ m_no[k] \in Nat
        /\ file[k] = [date |-> m_date[k], no |-> m_no[k]]
    <3>1. Date \subseteq Int /\ NoDate \in Int /\ 0..MaxNo \subseteq Nat
      BY Constants DEF NoDate
    <3>2. m_date[k] \in Date \cup {NoDate} /\ now[k] \in Date \cup {NoDate} /\ m_no[k] \in 0..MaxNo
      BY <2>1 DEF TypeOK
    <3>3. file[k] = [date |-> m_date[k], no |-> m_no[k]]
      BY <2>1 DEF FileOK, Numbered
    <3> QED
      BY <3>1, <3>2, <3>3
  <2>4. file'[k] \in File /\ size[k][file'[k]] \in Nat
    BY <1>1, <2>1 DEF TypeOK
  <2>5. file'[k] \notin Used(k) => size[k][file'[k]] < m_log_max_file_size
    <3>1. file'[k] \notin Used(k) => size[k][file'[k]] = 0
      BY <2>4 DEF Used
    <3> QED
      BY <3>1, MaxFileSizeAssumption
  <2>6. k \notin misread /\ m_date[k] <= now[k]
        /\ \A f \in Used(k) : f.date < m_date[k] \/ (f.date = m_date[k] /\ f.no <= m_no[k])
    BY <1>1, <2>1, <2>2, OpenFileGoes DEF FileOK, InDate
  <2>7. file'[k] = [date |-> m_date'[k], no |-> m_no'[k]]
    BY <2>1, <2>2, OpenFileGoes
  <2>8. CASE m_no'[k] = 0 /\ m_date'[k] = now[k] /\ m_date[k] # now[k]
    <3>1. now[k] > m_date[k] /\ file'[k] \notin Used(k)
      BY <2>3, <2>6, <2>7, <2>8
    <3> QED
      BY <2>3, <2>5, <2>7, <2>8, <3>1 DEF After
  <2>9. CASE m_date'[k] = m_date[k] /\ m_no'[k] = m_no[k] + 1
    <3>1. file'[k] \notin Used(k)
      BY <2>3, <2>6, <2>7, <2>9
    <3> QED
      BY <2>3, <2>5, <2>7, <2>9, <3>1 DEF After
  <2>10. CASE size[k][file[k]] < m_log_max_file_size /\ file'[k] = file[k]
    BY <2>10
  <2> QED
    BY <1>1, <2>1, <2>2, <2>8, <2>9, <2>10, OpenFileGoes
<1>2. LogInv /\ TypeOK' /\ [Next]_vars =>
        [\A k \in Logs \ misread' : pc[k] = "open" /\ pc'[k] = "write" =>
           /\ size[k][file'[k]] < m_log_max_file_size
           /\ file'[k] = file[k] \/ After(file'[k], file[k])]_vars
  BY <1>1
<1>3. LogInv => TypeOK
  BY DEF LogInv
<1> QED
  BY <1>2, <1>3, LogSpec, PTL DEF Spec, Rolls

(* A log's lines pass through the Logger's buffer, the main thread's hands, *)
(* the queue of batches and the writer's as through one queue.              *)
THEOREM LogImplemented == Spec => LogInOrder
<1>1. Init => RpcLog!Init
  <2> SUFFICES ASSUME Init PROVE Unwritten("rpc") = <<>> /\ (pc["rpc"] = "done") = FALSE
    BY DEF RpcLog!Init
  <2>1. output["rpc"] = <<>> /\ queue["rpc"] = <<>> /\ m_buffer["rpc"] = <<>> /\ ~At("push", "rpc")
        /\ pc["rpc"] # "done"
    BY DEF Init, At, Logs
  <2>2. FlattenSeq(<<>>) = <<>> /\ <<>> \o <<>> = <<>>
    <3>1. <<>> \in Seq(Line)
      BY EmptySeq
    <3> QED
      BY <3>1, ConcatEmptySeq DEF FlattenSeq
  <2> QED
    BY <2>1, <2>2 DEF Unwritten, Handed
<1>2. ASSUME LogInv, LogInv', [Next]_vars
      PROVE  [RpcLog!Next]_<<Unwritten("rpc"), pc["rpc"] = "done">>
  <2>1. TypeOK /\ TypeOK' /\ ThreadInv /\ "rpc" \in Logs /\ WriterOK("rpc")
    BY <1>2 DEF LogInv, ThreadInv, Logs
  <2>2. CASE Handles
    <3>1. PICK k \in Logs : PushLog(k) \/ WriteLine(k)
      BY <2>2 DEF Handles
    <3>2. UNCHANGED pc
      BY <3>1 DEF PushLog, WriteLine
    <3>3. CASE PushLog(k) /\ (k # "rpc" \/ m_log_type = "SyncLog")
      BY <2>1, <3>2, <3>3, PushLogPipe
    <3>4. CASE PushLog(k) /\ k = "rpc" /\ m_log_type # "SyncLog"
      <4>1. logged["rpc"] + 1 \in Line /\ Unwritten("rpc")' = Append(Unwritten("rpc"), logged["rpc"] + 1)
        BY <2>1, <3>4, PushLogPipe
      <4> QED
        BY <3>2, <4>1 DEF RpcLog!Next, RpcLog!Post
    <3>5. CASE WriteLine(k) /\ k # "rpc"
      BY <2>1, <3>2, <3>5, WriteLinePipe
    <3>6. CASE WriteLine(k) /\ k = "rpc"
      <4>1. Unwritten("rpc") # <<>> /\ Unwritten("rpc")' = Tail(Unwritten("rpc")) /\ pc["rpc"] # "done"
        BY <2>1, <3>6, WriteLinePipe DEF WriteLine
      <4> QED
        BY <3>2, <4>1 DEF RpcLog!Next, RpcLog!Take
    <3> QED
      BY <3>1, <3>3, <3>4, <3>5, <3>6
  <2>3. CASE ~Handles
    <3>1. Unwritten("rpc")' = Unwritten("rpc")
      BY <1>2, <2>1, <2>3, NextPipe
    <3>2. ASSUME pc["rpc"] = "done" PROVE pc'["rpc"] = "done"
      <4>1. ASSUME NEW k \in Logs, WriterStep(k) PROVE pc'["rpc"] = "done"
        BY <2>1, <3>2, <4>1, StepGoes
        DEF WriterStep, Sleep, PopBatch, Leave, GetTime, Format, OpenFile, WriteLine, BatchDone
      <4>2. ASSUME NEW k \in Logs,
                   \/ SyncLogs \/ Swap(k) \/ PushLogs(k) \/ Stop(k) \/ Join(k)
            PROVE  pc'["rpc"] = "done"
        BY <2>1, <3>2, <4>2, NotifyGoes DEF SyncLogs, Swap, PushLogs, Stop, Join
      <4>3. ASSUME NEW k \in Logs, PushLog(k) PROVE pc'["rpc"] = "done"
        BY <3>2, <4>3 DEF PushLog
      <4>4. CASE UNCHANGED vars \/ Midnight \/ FlushAndStop
        BY <3>2, <4>4 DEF vars, Midnight, FlushAndStop
      <4> QED
        BY <1>2, <4>1, <4>2, <4>3, <4>4 DEF Next, MainStep
    <3>3. CASE pc["rpc"] # "done" /\ pc'["rpc"] = "done"
      <4>1. RpcLog!Close
        BY <3>1, <3>3 DEF RpcLog!Close
      <4> QED
        BY <4>1 DEF RpcLog!Next
    <3>4. CASE ~ (pc["rpc"] # "done" /\ pc'["rpc"] = "done")
      BY <3>1, <3>2, <3>4
    <3> QED
      BY <3>3, <3>4
  <2> QED
    BY <2>2, <2>3
<1> QED
  BY <1>1, <1>2, LogSpec, PTL DEF Spec, LogInOrder, RpcLog!Spec
=============================================================================
