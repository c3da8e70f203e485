---------------------------- MODULE TimerProofs ----------------------------
(* Proofs about the timer, for any number of threads and events, any        *)
(* intervals and any grace period.                                          *)
EXTENDS Timer, WellFoundedInduction, TLAPS

(* What onTimer holds at each of its points, and no arrival time further in *)
(* the past than Overdue.                                                   *)
Phases ==
  /\ lpc \in {"wait", "queued", "collect"} => torun = {}
  /\ lpc # "readd" => readd = {}
  /\ lpc = "call" => running \in Events
  /\ \A e \in Events : left[e] >= Overdue

(* deleteTimerEvent cancels before it searches.                             *)
CanceledFirst == \A p \in Procs : call[p].at = "erase" => m_is_canceled[call[p].ev]

(* NothingLost with the event in `running` counted only while onTimer is    *)
(* about to call it.                                                        *)
Kept ==
  \A e \in Events : status[e] # "new" /\ ~m_is_canceled[e] =>
    \/ e \in m_pending_events
    \/ e \in readd
    \/ e \notin Repeating /\ (e \in torun \/ (lpc = "call" /\ running = e) \/ status[e] = "ran")

(* Whatever the map or onTimer holds was given to addTimerEvent.            *)
Known ==
  \A e \in Events :
    e \in m_pending_events \cup readd \cup torun \/ (lpc = "call" /\ running = e) => status[e] # "new"

-----------------------------------------------------------------------------
(* The first key of the map.                                                *)

LEMMA LeastNumber ==
  ASSUME NEW S \in SUBSET Nat, S # {}
  PROVE \E k \in S : \A j \in S : k <= j
<1> DEFINE R == OpToRel(<, Nat)
<1>1. IsWellFoundedOn(R, Nat)
  BY NatLessThanWellFounded
<1>2. \A x, y \in Nat : x < y => <<x, y>> \in R
  BY DEF OpToRel
<1> HIDE DEF R
<1>3. PICK x \in S : \A y \in S : ~ (<<y, x>> \in R)
  BY <1>1, WFMin
<1>4. ASSUME NEW y \in S PROVE x <= y
  <2>1. x \in Nat /\ y \in Nat
    OBVIOUS
  <2>2. ~ (y < x)
    BY <1>2, <1>3, <2>1
  <2> QED
    BY <2>1, <2>2
<1> QED
  BY <1>4

LEMMA FirstIsLeast ==
  ASSUME TypeOK, Phases, NEW S \in SUBSET Events, S # {}
  PROVE  First(S) \in Int /\ \A e \in S : First(S) <= left[e]
<1> DEFINE keys == {left[e] : e \in S}
           T    == {k + 1 : k \in keys}
<1>1. \A k \in keys : k \in Int /\ k + 1 \in Nat
  BY DEF TypeOK, Phases, Overdue
<1>2. T \in SUBSET Nat /\ T # {}
  BY <1>1
<1>3. PICK n \in T : \A m \in T : n <= m
  BY <1>2, LeastNumber
<1>4. PICK key \in keys : n = key + 1
  OBVIOUS
<1>5. \A e \in S : key <= left[e]
  <2> SUFFICES ASSUME NEW e \in S PROVE key <= left[e]
    OBVIOUS
  <2>1. left[e] \in keys /\ left[e] + 1 \in T
    OBVIOUS
  <2>2. n <= left[e] + 1
    BY <1>3, <2>1
  <2> QED
    BY <1>1, <1>4, <2>1, <2>2
<1>6. First(S) \in keys /\ \A e \in S : First(S) <= left[e]
  BY <1>5 DEF First
<1> QED
  BY <1>1, <1>6

-----------------------------------------------------------------------------
(* Type correctness.                                                        *)

LEMMA CallTypes ==
  /\ NoCall \in CallType /\ ResetCall \in CallType
  /\ \A k \in Int : ArmCall(k) \in CallType
  /\ \A e \in Events : EraseCall(e) \in CallType
  /\ NoCall.at = "none" /\ ResetCall.at = "reset"
  /\ \A k : ArmCall(k).at = "arm" /\ ArmCall(k).key = k
  /\ \A e : EraseCall(e).at = "erase" /\ EraseCall(e).ev = e
  /\ \A c \in CallType : /\ c.at = "arm" => c.key \in Int
                         /\ c.at = "erase" => c.ev \in Events
  BY DEF CallType, NoCall, ResetCall, ArmCall, EraseCall

LEMMA TypeOKCall == TypeOK => call \in [Procs -> CallType]
  BY DEF TypeOK

LEMMA InitTypeOK == Init => TypeOK
<1> SUFFICES ASSUME Init PROVE TypeOK
  OBVIOUS
<1>1. call \in [Procs -> CallType]
  BY CallTypes DEF Init
<1>2. left \in [Events -> Int] /\ m_is_canceled \in [Events -> BOOLEAN]
  BY DEF Init, Overdue
<1> QED
  BY <1>1, <1>2 DEF Init, TypeOK

LEMMA InsertType ==
  ASSUME TypeOK, Phases, NEW p \in Procs, NEW e \in Events, Insert(p, e)
  PROVE  /\ left' \in [Events -> Int] /\ \A d \in Events : left'[d] >= Overdue
         /\ m_pending_events' \subseteq Events /\ e \in m_pending_events'
         /\ m_pending_events \subseteq m_pending_events'
         /\ call' \in [Procs -> CallType]
         /\ call' = call \/ call' = [call EXCEPT ![p] = ResetCall]
         /\ m_pending_events = {} => call' = [call EXCEPT ![p] = ResetCall]
<1>1. Interval[e] \in Nat
  BY IntervalAssumption
<1>2. left' \in [Events -> Int] /\ \A d \in Events : left'[d] >= Overdue
  BY <1>1 DEF Insert, ResetArriveTime, TypeOK, Phases, Overdue
<1>3. /\ call' = call \/ call' = [call EXCEPT ![p] = ResetCall]
      /\ m_pending_events = {} => call' = [call EXCEPT ![p] = ResetCall]
  BY DEF Insert
<1>4. call' \in [Procs -> CallType]
  BY <1>3, TypeOKCall, CallTypes
<1> QED
  BY <1>2, <1>3, <1>4 DEF Insert, TypeOK

LEMMA ProcsLoop == Loop \in Procs
  BY DEF Procs

(* resetTimer, deleteTimerEvent's search and the calls that start them.     *)
LEMMA InCallTypeOK ==
  ASSUME TypeOK, Phases, NEW p \in Procs, InCall(p)
  PROVE  TypeOK' /\ Phases'
<1>1. UNCHANGED <<onTimerVars, left, m_is_canceled, status>>
  BY DEF InCall, ResetLocked, ResetArm, EraseLocked, eventVars
<1>2. Phases'
  BY <1>1 DEF Phases, onTimerVars
<1>3. ASSUME m_pending_events' \subseteq Events, expiry' \in {Disarmed} \cup (Nat \ {0}),
             readable' \in BOOLEAN, call' \in [Procs -> CallType]
      PROVE  TypeOK'
  BY <1>1, <1>3 DEF TypeOK, onTimerVars
<1>4. CASE ResetLocked(p)
  <2>1. CASE m_pending_events = {}
    <3>1. call' \in [Procs -> CallType]
      BY <1>4, <2>1, TypeOKCall, CallTypes DEF ResetLocked
    <3> QED
      BY <1>2, <1>3, <1>4, <2>1, <3>1 DEF ResetLocked, eventVars, TypeOK
  <2>2. CASE m_pending_events # {}
    <3>1. First(m_pending_events) \in Int
      BY <2>2, FirstIsLeast DEF TypeOK
    <3>2. call' \in [Procs -> CallType]
      BY <1>4, <2>2, <3>1, TypeOKCall, CallTypes DEF ResetLocked
    <3> QED
      BY <1>2, <1>3, <1>4, <2>2, <3>2 DEF ResetLocked, fdVars, eventVars, TypeOK
  <2> QED
    BY <2>1, <2>2
<1>5. CASE ResetArm(p)
  <2>1. call[p].key \in Int
    BY <1>5, TypeOKCall, CallTypes DEF ResetArm
  <2>2. expiry' \in Nat \ {0}
    BY <1>5, <2>1, GraceAssumption DEF ResetArm
  <2>3. call' \in [Procs -> CallType]
    BY <1>5, TypeOKCall, CallTypes DEF ResetArm
  <2> QED
    BY <1>2, <1>3, <1>5, <2>2, <2>3 DEF ResetArm, eventVars, TypeOK
<1>6. CASE EraseLocked(p)
  <2>1. PICK reset : call' = [call EXCEPT ![p] = IF reset THEN ResetCall ELSE NoCall]
    BY <1>6 DEF EraseLocked
  <2>2. call' \in [Procs -> CallType]
    BY <2>1, TypeOKCall, CallTypes
  <2> QED
    BY <1>2, <1>3, <1>6, <2>2 DEF EraseLocked, fdVars, TypeOK
<1> QED
  BY <1>2, <1>4, <1>5, <1>6 DEF InCall

LEMMA UserTypeOK ==
  ASSUME TypeOK, Phases, NEW p \in Procs, UserCall(p)
  PROVE  TypeOK' /\ Phases'
<1>1. PICK e \in Events : AddTimerEvent(p, e) \/ DeleteTimerEvent(p, e)
  BY DEF UserCall
<1>2. CASE AddTimerEvent(p, e)
  <2>1. Insert(p, e) /\ UNCHANGED <<onTimerVars, fdVars, m_is_canceled>>
    BY <1>2 DEF AddTimerEvent
  <2>2. status' \in [Events -> {"new", "added", "ran"}]
    BY <1>2 DEF AddTimerEvent, TypeOK
  <2> QED
    BY <2>1, <2>2, InsertType DEF TypeOK, Phases, onTimerVars, fdVars
<1>3. CASE DeleteTimerEvent(p, e)
  <2>1. call' \in [Procs -> CallType]
    BY <1>3, TypeOKCall, CallTypes DEF DeleteTimerEvent
  <2> QED
    BY <1>3, <2>1 DEF DeleteTimerEvent, TypeOK, Phases, onTimerVars, fdVars
<1> QED
  BY <1>1, <1>2, <1>3

LEMMA OnTimerTypeOK ==
  ASSUME TypeOK, Phases, OnTimer
  PROVE  TypeOK' /\ Phases'
<1>1. CASE Report
  BY <1>1 DEF Report, LoopAt, TypeOK, Phases, fdVars, eventVars
<1>2. CASE OnTimerRead
  BY <1>2 DEF OnTimerRead, LoopAt, TypeOK, Phases, eventVars
<1>3. CASE Collect
  <2>1. call' \in [Procs -> CallType]
    BY <1>3, TypeOKCall, CallTypes, ProcsLoop DEF Collect
  <2>2. m_pending_events' \subseteq Events /\ torun' \subseteq Events /\ readd' \subseteq Events
    BY <1>3 DEF Collect, TypeOK
  <2> QED
    BY <1>3, <2>1, <2>2 DEF Collect, TypeOK, Phases, fdVars
<1>4. CASE ReAdd
  <2>1. ASSUME NEW e \in readd, Insert(Loop, e), readd' = readd \ {e}, UNCHANGED lpc
        PROVE  TypeOK' /\ Phases'
    <3>1. e \in Events
      BY DEF TypeOK
    <3> QED
      BY <1>4, <2>1, <3>1, InsertType, ProcsLoop
      DEF ReAdd, LoopAt, TypeOK, Phases, fdVars
  <2>2. CASE readd = {} /\ lpc' = "run" /\ UNCHANGED <<readd, m_pending_events, left, call>>
    BY <1>4, <2>2 DEF ReAdd, TypeOK, Phases, fdVars
  <2> QED
    BY <1>4, <2>1, <2>2 DEF ReAdd
<1>5. CASE PickTask
  BY <1>5 DEF PickTask, LoopAt, TypeOK, Phases, fdVars, eventVars
<1>6. CASE CallTask
  <2>1. running \in Events
    BY <1>6 DEF CallTask, Phases
  <2>2. status' \in [Events -> {"new", "added", "ran"}]
    BY <1>6, <2>1 DEF CallTask, TypeOK
  <2> QED
    BY <1>6, <2>2 DEF CallTask, TypeOK, Phases, fdVars
<1>7. CASE OnTimerDone
  BY <1>7 DEF OnTimerDone, LoopAt, TypeOK, Phases, fdVars, eventVars
<1> QED
  BY <1>1, <1>2, <1>3, <1>4, <1>5, <1>6, <1>7 DEF OnTimer

LEMMA TickTypeOK ==
  ASSUME TypeOK, Phases, Tick
  PROVE  TypeOK' /\ Phases'
<1>1. \A time \in Int : Lower(time) \in Int /\ (time >= Overdue => Lower(time) >= Overdue)
  BY DEF Lower, Overdue
<1>2. left' \in [Events -> Int] /\ \A e \in Events : left'[e] >= Overdue
  BY <1>1 DEF Tick, TypeOK, Phases
<1>3. call' \in [Procs -> CallType]
  <2> SUFFICES ASSUME NEW p \in Procs
               PROVE (IF call[p].at = "arm" THEN ArmCall(Lower(call[p].key)) ELSE call[p]) \in CallType
    BY DEF Tick
  <2> QED
    BY <1>1, TypeOKCall, CallTypes
<1>4. expiry' \in {Disarmed} \cup (Nat \ {0})
  BY DEF Tick, TypeOK, Disarmed
<1>5. readable' \in BOOLEAN
  BY DEF Tick, TypeOK
<1> QED
  BY <1>2, <1>3, <1>4, <1>5 DEF Tick, TypeOK, Phases, onTimerVars

LEMMA NextTypeOK == TypeOK /\ Phases /\ [Next]_vars => TypeOK' /\ Phases'
<1> SUFFICES ASSUME TypeOK, Phases, [Next]_vars PROVE TypeOK' /\ Phases'
  OBVIOUS
<1>1. CASE UNCHANGED vars
  BY <1>1 DEF vars, onTimerVars, fdVars, eventVars, TypeOK, Phases
<1>2. ASSUME NEW e \in Events, SetCanceled(e) PROVE TypeOK' /\ Phases'
  BY <1>2 DEF SetCanceled, TypeOK, Phases, onTimerVars, fdVars
<1>3. CASE Next
  BY <1>2, <1>3, InCallTypeOK, UserTypeOK, OnTimerTypeOK, TickTypeOK DEF Next
<1> QED
  BY <1>1, <1>3

LEMMA InitPhases == Init => Phases
  BY DEF Init, Phases, Overdue

(* The Timer's state always has its type, and the timerfd is never set to 0 *)
(* or less (Timer::resetTimer).                                             *)
THEOREM TypeCorrect == Spec => []TypeOK
<1>1. Spec => [](TypeOK /\ Phases)
  BY InitTypeOK, InitPhases, NextTypeOK, PTL DEF Spec
<1> QED
  BY <1>1, PTL

-----------------------------------------------------------------------------
(* The reactor never sleeps on a pending event.                             *)

LEMMA InitNeverAsleep == Init => NeverAsleep
  BY DEF Init, NeverAsleep

LEMMA InsertNeverAsleep ==
  ASSUME TypeOK, Phases, NeverAsleep, NEW p \in Procs, NEW e \in Events, Insert(p, e),
         call[p].at = "none", UNCHANGED fdVars, lpc # "collect"
  PROVE  NeverAsleep'
<1>1. call \in [Procs -> CallType]
  BY TypeOKCall
<1>2. \/ call' = call
      \/ call' = [call EXCEPT ![p] = ResetCall]
  BY InsertType
<1>3. m_pending_events = {} => call' = [call EXCEPT ![p] = ResetCall]
  BY InsertType
<1>4. CASE call' = [call EXCEPT ![p] = ResetCall]
  <2>1. call'[p].at = "reset"
    BY <1>1, <1>4, CallTypes
  <2> QED
    BY <2>1 DEF NeverAsleep
<1>5. CASE call' = call /\ m_pending_events # {}
  BY <1>5 DEF NeverAsleep, fdVars
<1> QED
  BY <1>2, <1>3, <1>4, <1>5

LEMMA NextNeverAsleep == TypeOK /\ Phases /\ NeverAsleep /\ [Next]_vars => NeverAsleep'
<1> SUFFICES ASSUME TypeOK, Phases, NeverAsleep, [Next]_vars PROVE NeverAsleep'
  OBVIOUS
<1>1. call \in [Procs -> CallType]
  BY TypeOKCall
<1>2. ASSUME NEW p \in Procs, call[p].at \notin {"reset", "arm"}, NEW c, call' = [call EXCEPT ![p] = c],
             UNCHANGED <<lpc, fdVars>>, m_pending_events' \subseteq m_pending_events
      PROVE  NeverAsleep'
  <2>1. \A q \in Procs : call[q].at \in {"reset", "arm"} => call'[q].at \in {"reset", "arm"}
    BY <1>1, <1>2
  <2> QED
    BY <1>2, <2>1 DEF NeverAsleep, fdVars
<1>3. ASSUME NEW p \in Procs, InCall(p) PROVE NeverAsleep'
  <2>1. CASE ResetLocked(p)
    <3>1. CASE m_pending_events = {}
      BY <2>1, <3>1 DEF ResetLocked, eventVars, NeverAsleep
    <3>2. CASE m_pending_events # {}
      <4>1. call'[p].at = "arm"
        BY <1>1, <2>1, <3>2, CallTypes DEF ResetLocked
      <4> QED
        BY <4>1 DEF NeverAsleep
    <3> QED
      BY <3>1, <3>2
  <2>2. CASE ResetArm(p)
    <3>1. call[p].key \in Int
      BY <1>1, <2>2, CallTypes DEF ResetArm
    <3>2. expiry' \in Nat \ {0}
      BY <2>2, <3>1, GraceAssumption DEF ResetArm
    <3> QED
      BY <3>2 DEF NeverAsleep, Disarmed
  <2>3. CASE EraseLocked(p)
    <3>1. PICK reset : call' = [call EXCEPT ![p] = IF reset THEN ResetCall ELSE NoCall]
      BY <2>3 DEF EraseLocked
    <3> QED
      BY <1>2, <2>3, <3>1 DEF EraseLocked, onTimerVars
  <2> QED
    BY <1>3, <2>1, <2>2, <2>3 DEF InCall
<1>4. ASSUME NEW p \in Procs, UserCall(p) PROVE NeverAsleep'
  <2>1. PICK e \in Events : AddTimerEvent(p, e) \/ DeleteTimerEvent(p, e)
    BY <1>4 DEF UserCall
  <2>2. CASE AddTimerEvent(p, e)
    <3>1. Insert(p, e) /\ call[p].at = "none" /\ UNCHANGED <<lpc, fdVars>>
      BY <2>2 DEF AddTimerEvent, Free, onTimerVars
    <3>2. CASE lpc = "collect"
      BY <3>1, <3>2 DEF NeverAsleep
    <3> QED
      BY <3>1, <3>2, InsertNeverAsleep
  <2>3. CASE DeleteTimerEvent(p, e)
    BY <1>2, <2>3 DEF DeleteTimerEvent, Free, onTimerVars
  <2> QED
    BY <2>1, <2>2, <2>3
<1>5. CASE OnTimer
  <2>1. CASE Report
    BY <2>1 DEF Report, LoopAt, NeverAsleep, fdVars, eventVars
  <2>2. CASE OnTimerRead
    BY <2>2 DEF OnTimerRead, NeverAsleep
  <2>3. CASE Collect
    <3>1. call'[Loop].at = "reset"
      BY <1>1, <2>3, CallTypes, ProcsLoop DEF Collect
    <3> QED
      BY <3>1, ProcsLoop DEF NeverAsleep
  <2>4. CASE ReAdd
    <3>1. UNCHANGED fdVars /\ lpc # "collect" /\ call[Loop].at = "none"
      BY <2>4 DEF ReAdd, LoopAt
    <3>2. ASSUME NEW e \in readd, Insert(Loop, e) PROVE NeverAsleep'
      BY <3>1, <3>2, InsertNeverAsleep, ProcsLoop DEF TypeOK
    <3>3. CASE UNCHANGED <<m_pending_events, call>>
      BY <3>1, <3>3 DEF NeverAsleep, fdVars
    <3> QED
      BY <2>4, <3>2, <3>3 DEF ReAdd
  <2>5. CASE PickTask \/ CallTask \/ OnTimerDone
    <3>1. UNCHANGED <<fdVars, m_pending_events, call>> /\ lpc # "collect"
      <4>1. CASE PickTask
        BY <4>1 DEF PickTask, LoopAt, eventVars
      <4>2. CASE CallTask
        BY <4>2 DEF CallTask
      <4>3. CASE OnTimerDone
        BY <4>3 DEF OnTimerDone, LoopAt, eventVars
      <4> QED
        BY <2>5, <4>1, <4>2, <4>3
    <3> QED
      BY <3>1 DEF NeverAsleep, fdVars
  <2> QED
    BY <1>5, <2>1, <2>2, <2>3, <2>4, <2>5 DEF OnTimer
<1>6. ASSUME NEW e \in Events, SetCanceled(e) PROVE NeverAsleep'
  BY <1>6 DEF SetCanceled, NeverAsleep, onTimerVars, fdVars
<1>7. CASE Tick
  <2>1. \A p \in Procs : call[p].at \in {"reset", "arm"} => call'[p].at \in {"reset", "arm"}
    BY <1>1, <1>7, CallTypes DEF Tick
  <2>2. expiry # Disarmed \/ readable => expiry' # Disarmed \/ readable'
    <3>1. readable' = (readable \/ expiry = 1)
      BY <1>7 DEF Tick
    <3>2. readable \/ expiry = 1 => readable'
      BY <3>1, Zenon
    <3>3. expiry \notin {Disarmed, 1} => expiry' # Disarmed
      BY <1>7 DEF Tick, Disarmed, TypeOK
    <3> QED
      BY <3>2, <3>3, Zenon
  <2> QED
    BY <1>7, <2>1, <2>2 DEF Tick, NeverAsleep, onTimerVars
<1>8. CASE UNCHANGED vars
  BY <1>8 DEF vars, onTimerVars, fdVars, eventVars, NeverAsleep
<1> QED
  BY <1>3, <1>4, <1>5, <1>6, <1>7, <1>8 DEF Next

(* The timerfd is armed, or some thread is about to arm it, for as long as  *)
(* an event is pending (resetTimer sets it after releasing the lock).       *)
THEOREM ReactorNeverAsleep == Spec => []NeverAsleep
<1>1. Spec => [](TypeOK /\ Phases /\ NeverAsleep)
  BY InitTypeOK, InitPhases, InitNeverAsleep, NextTypeOK, NextNeverAsleep, PTL DEF Spec
<1> QED
  BY <1>1, PTL

-----------------------------------------------------------------------------
(* No event is dropped.                                                     *)

LEMMA InitKept == Init => CanceledFirst /\ Kept
  BY CallTypes DEF Init, CanceledFirst, Kept

LEMMA InitKnown == Init => Known
  BY DEF Init, Known

LEMMA NextKnown == TypeOK /\ Phases /\ Known /\ [Next]_vars => Known'
<1> SUFFICES ASSUME TypeOK, Phases, Known, [Next]_vars PROVE Known'
  OBVIOUS
<1>1. status \in [Events -> {"new", "added", "ran"}]
  BY DEF TypeOK
<1>2. ASSUME m_pending_events' \cup readd' \cup torun' \subseteq m_pending_events \cup readd \cup torun,
             lpc' # "call" \/ UNCHANGED <<lpc, running>>, status' = status
      PROVE  Known'
  BY <1>2 DEF Known
<1>3. ASSUME NEW p \in Procs, InCall(p) PROVE Known'
  BY <1>2, <1>3 DEF InCall, ResetLocked, ResetArm, EraseLocked, onTimerVars, eventVars
<1>4. ASSUME NEW p \in Procs, UserCall(p) PROVE Known'
  <2>1. PICK e \in Events : AddTimerEvent(p, e) \/ DeleteTimerEvent(p, e)
    BY <1>4 DEF UserCall
  <2>2. CASE AddTimerEvent(p, e)
    <3>1. /\ m_pending_events' = m_pending_events \cup {e} /\ UNCHANGED onTimerVars
          /\ \A d \in Events : status'[d] = IF d = e THEN "added" ELSE status[d]
      BY <1>1, <2>2 DEF AddTimerEvent, Insert
    <3> QED
      BY <3>1 DEF Known, onTimerVars
  <2>3. CASE DeleteTimerEvent(p, e)
    BY <1>2, <2>3 DEF DeleteTimerEvent, onTimerVars
  <2> QED
    BY <2>1, <2>2, <2>3
<1>5. CASE OnTimer
  <2>1. CASE Report \/ OnTimerRead \/ OnTimerDone
    BY <1>2, <2>1 DEF Report, OnTimerRead, OnTimerDone, eventVars
  <2>2. CASE Collect
    BY <1>2, <2>2 DEF Collect
  <2>3. CASE ReAdd
    BY <1>2, <2>3 DEF ReAdd, LoopAt, Insert
  <2>4. CASE PickTask
    BY <2>4 DEF PickTask, LoopAt, Known, TypeOK, eventVars
  <2>5. CASE CallTask
    <3>1. \A d \in Events : status'[d] = "ran" \/ status'[d] = status[d]
      BY <1>1, <2>5 DEF CallTask
    <3> QED
      BY <2>5, <3>1 DEF CallTask, Known
  <2> QED
    BY <1>5, <2>1, <2>2, <2>3, <2>4, <2>5 DEF OnTimer
<1>6. ASSUME NEW e \in Events, SetCanceled(e) PROVE Known'
  BY <1>2, <1>6 DEF SetCanceled, onTimerVars
<1>7. CASE Tick
  BY <1>2, <1>7 DEF Tick, onTimerVars
<1>8. CASE UNCHANGED vars
  BY <1>2, <1>8 DEF vars, onTimerVars, eventVars
<1> QED
  BY <1>3, <1>4, <1>5, <1>6, <1>7, <1>8 DEF Next

LEMMA NextKept ==
  TypeOK /\ Phases /\ Known /\ CanceledFirst /\ Kept /\ [Next]_vars => CanceledFirst' /\ Kept'
<1> SUFFICES ASSUME TypeOK, Phases, Known, CanceledFirst, Kept, [Next]_vars
             PROVE  CanceledFirst' /\ Kept'
  OBVIOUS
<1>1. /\ call \in [Procs -> CallType] /\ m_is_canceled \in [Events -> BOOLEAN]
      /\ status \in [Events -> {"new", "added", "ran"}]
  BY DEF TypeOK
<1>2. ASSUME NEW p \in Procs, NEW c, c.at # "erase",
             call' = call \/ call' = [call EXCEPT ![p] = c],
             \A e \in Events : m_is_canceled[e] => m_is_canceled'[e]
      PROVE  CanceledFirst'
  <2>1. \A q \in Procs : call[q].at = "erase" => call[q].ev \in Events
    BY <1>1, CallTypes
  <2>2. ASSUME NEW q \in Procs, call'[q].at = "erase" PROVE call'[q] = call[q]
    BY <1>1, <1>2, <2>2
  <2> QED
    BY <1>2, <2>1, <2>2 DEF CanceledFirst
<1>3. ASSUME UNCHANGED <<onTimerVars, eventVars>> PROVE Kept'
  BY <1>3 DEF Kept, onTimerVars, eventVars
<1>4. ASSUME NEW p \in Procs, InCall(p) PROVE CanceledFirst' /\ Kept'
  <2>1. CASE ResetLocked(p)
    <3>1. CanceledFirst'
      BY <1>2, <2>1, CallTypes DEF ResetLocked, eventVars
    <3> QED
      BY <1>3, <2>1, <3>1 DEF ResetLocked
  <2>2. CASE ResetArm(p)
    <3>1. CanceledFirst'
      BY <1>2, <2>2, CallTypes DEF ResetArm, eventVars
    <3> QED
      BY <1>3, <2>2, <3>1 DEF ResetArm
  <2>3. CASE EraseLocked(p)
    <3>1. PICK reset : call' = [call EXCEPT ![p] = IF reset THEN ResetCall ELSE NoCall]
      BY <2>3 DEF EraseLocked
    <3>2. CanceledFirst'
      BY <1>2, <2>3, <3>1, CallTypes DEF EraseLocked
    <3>3. m_is_canceled[call[p].ev] /\ m_pending_events' = m_pending_events \ {call[p].ev}
      BY <2>3 DEF EraseLocked, CanceledFirst
    <3>4. Kept'
      BY <2>3, <3>3 DEF EraseLocked, Kept, onTimerVars
    <3> QED
      BY <3>2, <3>4
  <2> QED
    BY <1>4, <2>1, <2>2, <2>3 DEF InCall
<1>5. ASSUME NEW p \in Procs, UserCall(p) PROVE CanceledFirst' /\ Kept'
  <2>1. PICK e \in Events : AddTimerEvent(p, e) \/ DeleteTimerEvent(p, e)
    BY <1>5 DEF UserCall
  <2>2. CASE AddTimerEvent(p, e)
    <3>1. /\ call' = call \/ call' = [call EXCEPT ![p] = ResetCall]
          /\ m_pending_events' = m_pending_events \cup {e}
          /\ UNCHANGED <<onTimerVars, m_is_canceled>>
      BY <2>2, InsertType DEF AddTimerEvent, Insert
    <3>2. CanceledFirst'
      BY <1>2, <3>1, CallTypes
    <3>3. \A d \in Events \ {e} : status'[d] = status[d]
      BY <1>1, <2>2 DEF AddTimerEvent
    <3>4. Kept'
      BY <3>1, <3>3 DEF Kept, onTimerVars
    <3> QED
      BY <3>2, <3>4
  <2>3. CASE DeleteTimerEvent(p, e)
    <3>1. call' = [call EXCEPT ![p] = EraseCall(e)] /\ m_is_canceled' = [m_is_canceled EXCEPT ![e] = TRUE]
          /\ UNCHANGED <<onTimerVars, m_pending_events, status>>
      BY <2>3 DEF DeleteTimerEvent
    <3>2. /\ \A d \in Events : m_is_canceled'[d] <=> m_is_canceled[d] \/ d = e
          /\ \A q \in Procs : call'[q] = IF q = p THEN EraseCall(e) ELSE call[q]
      BY <1>1, <3>1
    <3>3. \A q \in Procs : call[q].at = "erase" => call[q].ev \in Events
      BY <1>1, CallTypes
    <3>4. CanceledFirst'
      BY <3>2, <3>3, CallTypes DEF CanceledFirst
    <3>5. Kept'
      BY <3>1, <3>2 DEF Kept, onTimerVars
    <3> QED
      BY <3>4, <3>5
  <2> QED
    BY <2>1, <2>2, <2>3
<1>6. CASE OnTimer
  <2>1. CASE Report \/ OnTimerRead \/ OnTimerDone
    BY <2>1 DEF Report, OnTimerRead, OnTimerDone, LoopAt, CanceledFirst, Kept, fdVars, eventVars
  <2>2. CASE Collect
    <3>1. CanceledFirst'
      BY <1>2, <2>2, CallTypes, ProcsLoop DEF Collect
    <3>2. torun = {} /\ readd = {} /\ lpc # "call"
      BY <2>2 DEF Collect, LoopAt, Phases
    <3>3. Kept'
      BY <2>2, <3>2 DEF Collect, Kept
    <3> QED
      BY <3>1, <3>3
  <2>3. CASE ReAdd
    <3>1. lpc # "call" /\ lpc' # "call" /\ UNCHANGED <<torun, running, m_is_canceled, status>>
      BY <2>3 DEF ReAdd, LoopAt
    <3>2. ASSUME NEW e \in readd, Insert(Loop, e), readd' = readd \ {e} PROVE CanceledFirst' /\ Kept'
      <4>1. e \in Events
        BY DEF TypeOK
      <4>2. CanceledFirst'
        BY <1>2, <3>1, <3>2, <4>1, InsertType, CallTypes, ProcsLoop
      <4>3. Kept'
        BY <3>1, <3>2 DEF Insert, Kept
      <4> QED
        BY <4>2, <4>3
    <3>3. CASE readd = {} /\ UNCHANGED <<readd, m_pending_events, call>>
      BY <3>1, <3>3 DEF CanceledFirst, Kept
    <3> QED
      BY <2>3, <3>2, <3>3 DEF ReAdd
  <2>4. CASE PickTask
    <3>1. PICK e \in torun : /\ torun' = torun \ {e}
                             /\ IF m_is_canceled[e] THEN UNCHANGED <<running, lpc>>
                                ELSE running' = e /\ lpc' = "call"
      BY <2>4 DEF PickTask
    <3>2. lpc # "call" /\ UNCHANGED <<readd, eventVars, call>>
      BY <2>4 DEF PickTask, LoopAt
    <3>3. Kept'
      BY <3>1, <3>2 DEF Kept, eventVars
    <3> QED
      BY <3>2, <3>3 DEF CanceledFirst, eventVars
  <2>5. CASE CallTask
    <3>1. running \in Events /\ UNCHANGED <<readd, torun, m_pending_events, m_is_canceled, call>>
      BY <2>5 DEF CallTask, Phases
    <3>2. \A d \in Events : /\ status'[d] = "ran" \/ status'[d] = status[d]
                            /\ d = running /\ ~m_is_canceled[running] => status'[d] = "ran"
                            /\ d # running => status'[d] = status[d]
      BY <1>1, <2>5, <3>1 DEF CallTask
    <3>3. Kept'
      <4> SUFFICES ASSUME NEW d \in Events, status'[d] # "new", ~m_is_canceled[d]
                   PROVE  \/ d \in m_pending_events
                          \/ d \in readd
                          \/ d \notin Repeating /\ (d \in torun \/ status'[d] = "ran")
        BY <3>1 DEF Kept
      <4>1. CASE d = running /\ status[d] = "new"
        BY <2>5, <4>1, <3>1 DEF CallTask, Known
      <4> QED
        BY <3>2, <4>1 DEF Kept
    <3> QED
      BY <3>1, <3>3 DEF CanceledFirst
  <2> QED
    BY <1>6, <2>1, <2>2, <2>3, <2>4, <2>5 DEF OnTimer
<1>7. ASSUME NEW e \in Events, SetCanceled(e) PROVE CanceledFirst' /\ Kept'
  <2>1. /\ \A d \in Events : m_is_canceled[d] => m_is_canceled'[d]
        /\ UNCHANGED <<onTimerVars, m_pending_events, status, call>>
    BY <1>1, <1>7 DEF SetCanceled
  <2>2. CanceledFirst'
    BY <1>2, <2>1, CallTypes, ProcsLoop
  <2>3. Kept'
    BY <2>1 DEF Kept, onTimerVars
  <2> QED
    BY <2>2, <2>3
<1>8. CASE Tick
  <2>1. \A p \in Procs : call'[p].at = "erase" => call'[p] = call[p]
    BY <1>1, <1>8, CallTypes DEF Tick
  <2>2. CanceledFirst'
    BY <1>8, <2>1 DEF Tick, CanceledFirst
  <2>3. Kept'
    BY <1>8 DEF Tick, Kept, onTimerVars
  <2> QED
    BY <2>2, <2>3
<1>9. CASE UNCHANGED vars
  BY <1>9 DEF vars, onTimerVars, fdVars, eventVars, CanceledFirst, Kept
<1> QED
  BY <1>4, <1>5, <1>6, <1>7, <1>8, <1>9 DEF Next

(* Kept, for the model's own NothingLost.                                   *)
LEMMA KeptSuffices == Kept => NothingLost
  BY DEF Kept, NothingLost

(* An added event is pending, in onTimer's hands, run or canceled: it is    *)
(* lost neither between the map and onTimer's vector nor when a repeating   *)
(* event is added again.                                                    *)
THEOREM EventsKept == Spec => []NothingLost
<1>1. Spec => [](TypeOK /\ Phases /\ Known /\ CanceledFirst /\ Kept)
  BY InitTypeOK, InitPhases, InitKnown, InitKept, NextTypeOK, NextKnown, NextKept, PTL DEF Spec
<1> QED
  BY <1>1, KeptSuffices, PTL
=============================================================================
