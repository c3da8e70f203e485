------------------------------- MODULE Timer -------------------------------
(* Timer and TimerEvent (src/net/timer.cc, timer_event.cc): the ordered map *)
(* of pending events, the one-shot timerfd armed for the first of them, and *)
(* the loop thread running onTimer while other threads add and delete.      *)
(*                                                                          *)
(* Time is relative: left[e] is m_arrive_time minus the present, and Tick   *)
(* lowers it to Overdue, where it stays. Overdue keys are all alike to      *)
(* onTimer; where the code compares two of them either outcome is allowed.  *)
EXTENDS Integers, FiniteSets

CONSTANTS Threads,      \* threads other than the loop's
          Loop,         \* the loop's thread
          Events,       \* TimerEvents, each handed to addTimerEvent at most once
          Repeating,    \* those with m_is_repeat
          Interval,     \* m_interval of each
          Grace,        \* the 100 ms of resetTimer
          AsyncDeletes  \* is deleteTimerEvent called while onTimer may be due?

ASSUME LoopAssumption == Loop \notin Threads
ASSUME RepeatingAssumption == Repeating \subseteq Events
ASSUME IntervalAssumption == Interval \in [Events -> Nat]
ASSUME GraceAssumption == Grace \in Nat \ {0}
ASSUME AsyncDeletesAssumption == AsyncDeletes \in BOOLEAN

VARIABLES
  m_pending_events,  \* the events in the multimap, keyed by m_arrive_time
  left,              \* m_arrive_time of each event, relative to now
  m_is_canceled,     \* set together with m_task = nullptr
  expiry,            \* time until the timerfd fires, Disarmed if it will not
  readable,          \* the timerfd has expirations nobody has read
  lpc,               \* where the loop thread is, around and in onTimer
  readd,             \* onTimer's repeating events not yet added again
  torun,             \* onTimer's events not yet run
  running,           \* the event whose task onTimer is about to call
  call,              \* what each thread is doing inside the Timer
  status             \* history: "new", "added", "ran"

onTimerVars == <<lpc, readd, torun, running>>
fdVars      == <<expiry, readable>>
eventVars   == <<m_pending_events, left, m_is_canceled, status>>
vars        == <<onTimerVars, fdVars, eventVars, call>>

Procs    == Threads \cup {Loop}
Overdue  == -1
Disarmed == -1
NoEvent  == "none"

(* A thread inside the Timer: about to enter the locked part of resetTimer, *)
(* about to set the timerfd for the key it read there, or about to enter    *)
(* the locked part of deleteTimerEvent.                                     *)
NoCall       == [at |-> "none"]
ResetCall    == [at |-> "reset"]
ArmCall(key) == [at |-> "arm", key |-> key]
EraseCall(e) == [at |-> "erase", ev |-> e]
CallType     == {NoCall, ResetCall} \cup [at : {"arm"}, key : Int] \cup [at : {"erase"}, ev : Events]

Init ==
  /\ m_pending_events = {}
  /\ left = [e \in Events |-> Overdue]
  /\ m_is_canceled = [e \in Events |-> FALSE]
  /\ expiry = Disarmed
  /\ readable = FALSE
  /\ lpc = "wait"
  /\ readd = {}
  /\ torun = {}
  /\ running = NoEvent
  /\ call = [p \in Procs |-> NoCall]
  /\ status = [e \in Events |-> "new"]

(* The first key of a nonempty set of pending events.                       *)
First(S) == CHOOSE key \in {left[e] : e \in S} : \A e \in S : key <= left[e]

-----------------------------------------------------------------------------
(* resetTimer. With the lock held it disarms the timerfd if the map is      *)
(* empty and reads the first key if not; the timerfd is armed after the     *)
(* lock is released. Setting a timerfd discards its unread expirations.     *)

ResetLocked(p) ==
  /\ call[p].at = "reset"
  /\ IF m_pending_events = {}
     THEN /\ expiry' = Disarmed
          /\ readable' = FALSE
          /\ call' = [call EXCEPT ![p] = NoCall]
     ELSE /\ call' = [call EXCEPT ![p] = ArmCall(First(m_pending_events))]
          /\ UNCHANGED fdVars
  /\ UNCHANGED <<onTimerVars, eventVars>>

(* Mutant: the timerfd is set to the time left even if there is none.       *)
ResetArmWithoutGrace(p) ==
  /\ call[p].at = "arm"
  /\ expiry' = call[p].key
  /\ readable' = FALSE
  /\ call' = [call EXCEPT ![p] = NoCall]
  /\ UNCHANGED <<onTimerVars, eventVars>>

ResetArm(p) ==
  /\ call[p].at = "arm"
  /\ expiry' = IF call[p].key > 0 THEN call[p].key ELSE Grace
  /\ readable' = FALSE
  /\ call' = [call EXCEPT ![p] = NoCall]
  /\ UNCHANGED <<onTimerVars, eventVars>>

(* An event is made, or made anew, due one interval from now.               *)
ResetArriveTime(e) == left' = [left EXCEPT ![e] = Interval[e]]

(* Mutant: an event that is due first does not rearm a running timerfd.     *)
InsertWithoutReset(p, e) ==
  /\ ResetArriveTime(e)
  /\ m_pending_events' = m_pending_events \cup {e}
  /\ call' = IF m_pending_events # {} /\ Interval[e] < First(m_pending_events)
             THEN [call EXCEPT ![p] = ResetCall] ELSE call

(* The locked part of addTimerEvent, for an event just made.                *)
Insert(p, e) ==
  /\ ResetArriveTime(e)
  /\ m_pending_events' = m_pending_events \cup {e}
  /\ call' = IF m_pending_events = {} \/ Interval[e] < First(m_pending_events)
             THEN [call EXCEPT ![p] = ResetCall] ELSE call

-----------------------------------------------------------------------------
(* The calls of the Timer's users. The loop thread makes them from its      *)
(* other callbacks, also from one queued ahead of onTimer in the same       *)
(* batch, and from timer tasks.                                             *)

Alive == lpc # "crashed"

Free(p) ==
  /\ Alive
  /\ call[p].at = "none"
  /\ p = Loop => lpc \in {"wait", "queued", "run"}

AddTimerEvent(p, e) ==
  /\ Free(p)
  /\ status[e] = "new"
  /\ status' = [status EXCEPT ![e] = "added"]
  /\ Insert(p, e)
  /\ UNCHANGED <<onTimerVars, fdVars, m_is_canceled>>

(* setCanceled alone, as RpcChannel does when the answer has come.          *)
SetCanceled(e) ==
  /\ Free(Loop)
  /\ status[e] # "new"
  /\ ~m_is_canceled[e]
  /\ m_is_canceled' = [m_is_canceled EXCEPT ![e] = TRUE]
  /\ UNCHANGED <<onTimerVars, fdVars, m_pending_events, left, status, call>>

(* Mutant: any thread at any time.                                          *)
DeleteAnywhere(p, e) ==
  /\ Free(p)
  /\ status[e] # "new"
  /\ ~m_is_canceled[e]
  /\ m_is_canceled' = [m_is_canceled EXCEPT ![e] = TRUE]
  /\ call' = [call EXCEPT ![p] = EraseCall(e)]
  /\ UNCHANGED <<onTimerVars, fdVars, m_pending_events, left, status>>

(* deleteTimerEvent: setCanceled, then the locked search for the event.     *)
DeleteTimerEvent(p, e) ==
  /\ Free(p)
  /\ AsyncDeletes \/ (p = Loop /\ lpc # "queued")
  /\ status[e] # "new"
  /\ ~m_is_canceled[e]
  /\ m_is_canceled' = [m_is_canceled EXCEPT ![e] = TRUE]
  /\ call' = [call EXCEPT ![p] = EraseCall(e)]
  /\ UNCHANGED <<onTimerVars, fdVars, m_pending_events, left, status>>

(* Must the timerfd be reset: is the first key left another one than the    *)
(* erased event's?                                                          *)
ResetChoices(e) ==
  LET rest == m_pending_events \ {e} IN
  IF rest = {} THEN {TRUE}
  ELSE IF First(rest) = Overdue /\ left[e] = Overdue THEN BOOLEAN
  ELSE {First(rest) # left[e]}

EraseLocked(p) ==
  /\ call[p].at = "erase"
  /\ LET e == call[p].ev IN
     /\ m_pending_events' = m_pending_events \ {e}
     /\ \E reset \in IF e \in m_pending_events THEN ResetChoices(e) ELSE {FALSE} :
          call' = [call EXCEPT ![p] = IF reset THEN ResetCall ELSE NoCall]
  /\ UNCHANGED <<onTimerVars, fdVars, left, m_is_canceled, status>>

-----------------------------------------------------------------------------
(* The loop thread: epoll reports the timerfd, onTimer runs.                *)

LoopAt(point) == lpc = point /\ call[Loop].at = "none"

Report ==
  /\ LoopAt("wait")
  /\ readable
  /\ lpc' = "queued"
  /\ UNCHANGED <<readd, torun, running, fdVars, eventVars, call>>

(* The read spins on EAGAIN for as long as there is nothing to read.        *)
OnTimerRead ==
  /\ LoopAt("queued")
  /\ readable
  /\ readable' = FALSE
  /\ lpc' = "collect"
  /\ UNCHANGED <<readd, torun, running, expiry, eventVars, call>>

(* Mutant: the vector takes what is overdue, the map also loses what is due *)
(* right now.                                                               *)
CollectOffByOne ==
  /\ LoopAt("collect")
  /\ LET late  == {e \in m_pending_events : left[e] <= 0}
         taken == {e \in m_pending_events : left[e] < 0 /\ ~m_is_canceled[e]}
     IN /\ m_pending_events' = m_pending_events \ late
        /\ torun' = taken
        /\ readd' = taken \cap Repeating
  /\ call' = [call EXCEPT ![Loop] = ResetCall]
  /\ lpc' = "readd"
  /\ UNCHANGED <<running, fdVars, left, m_is_canceled, status>>

Collect ==
  /\ LoopAt("collect")
  /\ LET late  == {e \in m_pending_events : left[e] <= 0}
         taken == {e \in late : ~m_is_canceled[e]}
     IN /\ m_pending_events' = m_pending_events \ late
        /\ torun' = taken
        /\ readd' = taken \cap Repeating
  /\ call' = [call EXCEPT ![Loop] = ResetCall]
  /\ lpc' = "readd"
  /\ UNCHANGED <<running, fdVars, left, m_is_canceled, status>>

ReAdd ==
  /\ LoopAt("readd")
  /\ \/ \E e \in readd : Insert(Loop, e) /\ readd' = readd \ {e} /\ UNCHANGED lpc
     \/ readd = {} /\ lpc' = "run" /\ UNCHANGED <<readd, m_pending_events, left, call>>
  /\ UNCHANGED <<torun, running, fdVars, m_is_canceled, status>>

(* if (event->getTask())                                                    *)
PickTask ==
  /\ LoopAt("run")
  /\ \E e \in torun :
       /\ torun' = torun \ {e}
       /\ IF m_is_canceled[e] THEN UNCHANGED <<running, lpc>>
          ELSE running' = e /\ lpc' = "call"
  /\ UNCHANGED <<readd, fdVars, eventVars, call>>

(* event->getTask()(): the task is fetched again; calling an empty function *)
(* throws and ends the process.                                             *)
CallTask ==
  /\ lpc = "call"
  /\ running' = NoEvent
  /\ IF m_is_canceled[running]
     THEN lpc' = "crashed" /\ UNCHANGED status
     ELSE lpc' = "run" /\ status' = [status EXCEPT ![running] = "ran"]
  /\ UNCHANGED <<readd, torun, fdVars, m_pending_events, left, m_is_canceled, call>>

OnTimerDone ==
  /\ LoopAt("run")
  /\ torun = {}
  /\ lpc' = "wait"
  /\ UNCHANGED <<readd, torun, running, fdVars, eventVars, call>>

-----------------------------------------------------------------------------
Lower(time) == IF time = Overdue THEN Overdue ELSE time - 1

Tick ==
  /\ left' = [e \in Events |-> Lower(left[e])]
  /\ call' = [p \in Procs |-> IF call[p].at = "arm" THEN ArmCall(Lower(call[p].key)) ELSE call[p]]
  /\ readable' = (readable \/ expiry = 1)
  /\ expiry' = IF expiry \in {Disarmed, 1} THEN Disarmed ELSE expiry - 1
  /\ UNCHANGED <<onTimerVars, m_pending_events, m_is_canceled, status>>

InCall(p) == Alive /\ (ResetLocked(p) \/ ResetArm(p) \/ EraseLocked(p))

UserCall(p) == \E e \in Events : AddTimerEvent(p, e) \/ DeleteTimerEvent(p, e)

OnTimer == Report \/ OnTimerRead \/ Collect \/ ReAdd \/ PickTask \/ CallTask \/ OnTimerDone

Next ==
  \/ \E p \in Procs : InCall(p) \/ UserCall(p)
  \/ \E e \in Events : SetCanceled(e)
  \/ OnTimer
  \/ Tick

Spec == Init /\ [][Next]_vars

(* Time passes, the loop thread runs, and no thread stops inside the Timer. *)
Fairness == /\ WF_vars(Tick)
            /\ WF_vars(OnTimer)
            /\ \A p \in Procs : WF_vars(InCall(p))

FairSpec == Spec /\ Fairness

-----------------------------------------------------------------------------
(* Properties.                                                              *)

(* The types of the Timer's state. The timerfd is never set to 0 (which     *)
(* would disarm it) or less.                                                *)
TypeOK ==
  /\ m_pending_events \subseteq Events
  /\ left \in [Events -> Int]
  /\ m_is_canceled \in [Events -> BOOLEAN]
  /\ expiry \in {Disarmed} \cup (Nat \ {0})
  /\ readable \in BOOLEAN
  /\ lpc \in {"wait", "queued", "collect", "readd", "run", "call", "crashed"}
  /\ readd \subseteq Events
  /\ torun \subseteq Events
  /\ running \in Events \cup {NoEvent}
  /\ call \in [Procs -> CallType]
  /\ status \in [Events -> {"new", "added", "ran"}]

(* While an event is pending the timerfd is armed, has fired, or some       *)
(* thread is on its way to arming it, however the unlocked halves of        *)
(* resetTimer interleave: the reactor never sleeps on a pending event.      *)
NeverAsleep ==
  m_pending_events # {} =>
    \/ expiry # Disarmed
    \/ readable
    \/ lpc = "collect"
    \/ \E p \in Procs : call[p].at \in {"reset", "arm"}

(* No event is dropped between the map, onTimer's vector and the re-adding  *)
(* of repeating events: one that was added and not canceled is pending, is  *)
(* in the hands of onTimer, or is a one-shot event that has run.            *)
NothingLost ==
  \A e \in Events : status[e] # "new" /\ ~m_is_canceled[e] =>
    \/ e \in m_pending_events
    \/ e \in readd
    \/ e \notin Repeating /\ (e \in torun \/ running = e \/ status[e] = "ran")

(* An event that stays pending is eventually run or canceled.               *)
PendingRuns == \A e \in Events : e \in m_pending_events ~> running = e \/ m_is_canceled[e]

(* onTimer waits for an expiration nobody has left it.                      *)
Spinning ==
  /\ lpc = "queued" /\ ~readable /\ expiry = Disarmed
  /\ m_pending_events = {}
  /\ \A p \in Procs : call[p].at = "none"

(* onTimer comes back to the loop, although other threads set the timerfd,  *)
(* and so discard its expiration, after epoll has reported it, and although *)
(* an event may be canceled between its collection and its run. The one     *)
(* exception is a read that spins on EAGAIN: one thread arms the timerfd    *)
(* late, for a key onTimer has taken by then, and another one's resetTimer  *)
(* finds the map empty and disarms it again. That lasts only as long as     *)
(* nothing at all is pending and no call is under way.                      *)
OnTimerReturns == lpc = "queued" ~> lpc = "wait" \/ Spinning

(* timer.cc: adding an event sets the timerfd's wakeup time to the nearest  *)
(* arrival. With no call under way it is armed for no later than the first  *)
(* pending event (or Grace, for one already due).                           *)
ArmedForFirst ==
  lpc = "wait" /\ (\A p \in Procs : call[p].at = "none") /\ m_pending_events # {} =>
    \/ readable
    \/ expiry # Disarmed /\ (expiry <= First(m_pending_events) \/ expiry <= Grace)
=============================================================================
