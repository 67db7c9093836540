----------------------------- MODULE TimerQueue -----------------------------
(***************************************************************************)
(* The timers of an EventLoop, on which TcpConnector's retry rests.  All   *)
(* timers share one timerfd, which is set to the earliest of them: by      *)
(* addTimerInLoop when the new timer is the earliest, and after every alarm*)
(* by reset.  Timers are added and cancelled by callbacks in the loop      *)
(* thread, also by the callbacks of timers, and by other threads through   *)
(* the loop's functors.                                                    *)
(*                                                                         *)
(* Times are relative to the wall clock, in ticks: a timer is due when its *)
(* time is 0 or less.  The timerfd counts on a clock of its own, so that a *)
(* change of the wall clock (Adjust) moves the timers and not the alarm.   *)
(* A Timer is named by its sequence number and has an address, which a     *)
(* later Timer may get again.                                              *)
(***************************************************************************)
EXTENDS Integers, Sequences

CONSTANTS MaxTimers, \* bound: timers created
          Delays,    \* the delays asked for, in ticks
          Intervals, \* the intervals asked for; 0 for a timer that runs once
          MaxLate,   \* bound: more ticks of delay are not told apart
          MaxAdjust  \* bound: changes of the wall clock, by a tick each

ASSUME TimerAssumption ==
  /\ Delays \subseteq Nat /\ Intervals \subseteq Nat
  /\ MaxTimers \in Nat /\ MaxLate \in Nat \ {0} /\ MaxAdjust \in Nat

VARIABLES
  timer,        \* the Timers created so far, in order of sequence_
  functors,     \* addTimerInLoop and cancelInLoop queued by other threads
  timers,       \* timers_
  activeTimers, \* activeTimers_
  canceling,    \* cancelingTimers_
  pc,           \* "loop", or "calling" from getExpired to reset
  expired,      \* handleRead's expired
  todo,         \* the ones of them not called yet
  lag,          \* ticks since handleRead's now
  alarm,        \* ticks until the timerfd expires, 0 when it is not set
  readable,     \* has it expired and not been read or set again
  reported,     \* epoll_wait has returned the timerfd's channel
  asked,        \* timers somebody cancelled
  cancelled,    \* timers cancelInLoop was called for after their add
  nadjust       \* changes of the wall clock so far

fdvars  == <<alarm, readable, reported>>
setvars == <<timers, activeTimers>>
vars == <<timer, functors, timers, activeTimers, canceling, pc, expired, todo,
          lag, alarm, readable, reported, asked, cancelled, nadjust>>

Created == DOMAIN timer
Live == {s \in Created : timer[s].live}
Freed(s) == [timer[s] EXCEPT !.when = 0, !.live = FALSE]
Add(s) == [op |-> "add", timer |-> s]
Cancel(s) == [op |-> "cancel", timer |-> s]
Adding == {functors[n].timer : n \in {k \in DOMAIN functors :
                                        functors[k].op = "add"}}

Init ==
  /\ timer = <<>> /\ functors = <<>>
  /\ timers = {} /\ activeTimers = {} /\ canceling = {}
  /\ pc = "loop" /\ expired = {} /\ todo = {} /\ lag = 0
  /\ alarm = 0 /\ readable = FALSE /\ reported = FALSE
  /\ asked = {} /\ cancelled = {} /\ nadjust = 0

-----------------------------------------------------------------------------
(* The timerfd. *)

\* howMuchTimeFromNow: at least 100 microseconds, here a tick.
LaterOf(t, u) == IF t < u THEN u ELSE t
HowMuchTimeFromNow(when) == LaterOf(when, 1)

\* resetTimerfd; setting it forgets an expiration that was not read.
ResetTimerfd(when) ==
  alarm' = HowMuchTimeFromNow(when) /\ readable' = FALSE

\* The wall clock goes d ticks forward.
Shift(d) ==
  /\ timer' = [s \in Created |->
                 IF timer[s].live
                   THEN [timer[s] EXCEPT !.when = LaterOf(@ - d, -MaxLate)]
                   ELSE timer[s]]
  /\ lag' = IF pc = "calling" THEN -LaterOf(-(lag + d), -MaxLate) ELSE lag
  /\ UNCHANGED <<functors, setvars, canceling, pc, expired, todo, reported,
                 asked, cancelled>>

\* Time passes.
Tick ==
  /\ Shift(1)
  /\ alarm' = IF alarm = 0 THEN 0 ELSE alarm - 1
  /\ readable' = (readable \/ alarm = 1)
  /\ UNCHANGED nadjust

\* The wall clock is set forward or back.
Adjust ==
  /\ nadjust < MaxAdjust /\ nadjust' = nadjust + 1
  /\ \E d \in {-1, 1} : Shift(d)
  /\ UNCHANGED <<alarm, readable>>

\* epoll_wait returns the timerfd; other channels may be handled before it.
Poll ==
  /\ pc = "loop" /\ readable /\ ~reported /\ reported' = TRUE
  /\ UNCHANGED <<timer, functors, setvars, canceling, pc, expired, todo, lag,
                 alarm, readable, asked, cancelled, nadjust>>

-----------------------------------------------------------------------------
(* Adding and cancelling. *)

\* new Timer: at an address no living Timer has.
NewTimer(d, i, a) ==
  /\ Len(timer) < MaxTimers
  /\ \A s \in Live : timer[s].addr # a
  /\ timer' = Append(timer, [when |-> d, interval |-> i, addr |-> a,
                             live |-> TRUE])

\* Mutant: the timerfd is taken to be set already.
OnlyTimer(when) == timers = {}

\* insert: is the timer earlier than all others?
EarliestChanged(when) == \A s \in timers : when < timer[s].when

\* addTimerInLoop.
AddTimerInLoop(s, when) ==
  /\ timers' = timers \cup {s} /\ activeTimers' = activeTimers \cup {s}
  /\ IF EarliestChanged(when) THEN ResetTimerfd(when)
                              ELSE UNCHANGED <<alarm, readable>>

\* Mutant: the sequence number is left out of the comparison.
FindByAddress(s) == {t \in activeTimers : timer[t].addr = timer[s].addr}

\* activeTimers_.find: a TimerId is an address and a sequence number.
Find(s) == {t \in activeTimers : t = s /\ timer[t].addr = timer[s].addr}

\* cancelInLoop: a waiting timer is deleted, one that is being called is
\* noted for reset.
CancelInLoop(s) ==
  /\ timers' = timers \ Find(s) /\ activeTimers' = activeTimers \ Find(s)
  /\ timer' = [t \in Created |-> IF t \in Find(s) THEN Freed(t) ELSE timer[t]]
  /\ canceling' = IF Find(s) = {} /\ pc = "calling" THEN canceling \cup {s}
                                                    ELSE canceling
  /\ cancelled' = cancelled \cup ({s} \ Adding)

\* addTimer from another thread.
QueueAdd ==
  /\ \E d \in Delays, i \in Intervals, a \in 1 .. MaxTimers : NewTimer(d, i, a)
  /\ functors' = Append(functors, Add(Len(timer) + 1))
  /\ UNCHANGED <<setvars, canceling, pc, expired, todo, lag, fdvars, asked,
                 cancelled, nadjust>>

\* cancel from another thread.
QueueCancel ==
  /\ \E s \in Created \ asked :
       asked' = asked \cup {s} /\ functors' = Append(functors, Cancel(s))
  /\ UNCHANGED <<timer, setvars, canceling, pc, expired, todo, lag, fdvars,
                 cancelled, nadjust>>

\* doPendingFunctors comes after the active channels.
RunFunctor ==
  /\ pc = "loop" /\ ~reported /\ functors # <<>>
  /\ functors' = Tail(functors)
  /\ LET s == Head(functors).timer IN
       \/ /\ Head(functors).op = "add" /\ AddTimerInLoop(s, timer[s].when)
          /\ UNCHANGED <<timer, canceling, cancelled>>
       \/ /\ Head(functors).op = "cancel" /\ CancelInLoop(s)
          /\ UNCHANGED <<alarm, readable>>
  /\ UNCHANGED <<pc, expired, todo, lag, reported, asked, nadjust>>

\* Is the loop thread in a callback that may call addTimer or cancel: of
\* another channel, or of a timer.
InCallback == pc = "calling" => todo # expired

AddInCallback ==
  /\ InCallback
  /\ \E d \in Delays, i \in Intervals, a \in 1 .. MaxTimers :
       NewTimer(d, i, a) /\ AddTimerInLoop(Len(timer) + 1, d)
  /\ UNCHANGED <<functors, canceling, pc, expired, todo, lag, reported, asked,
                 cancelled, nadjust>>

CancelInCallback ==
  /\ InCallback
  /\ \E s \in Created \ asked : asked' = asked \cup {s} /\ CancelInLoop(s)
  /\ UNCHANGED <<functors, pc, expired, todo, lag, fdvars, nadjust>>

-----------------------------------------------------------------------------
(* An alarm. *)

Due == {s \in timers : timer[s].when <= 0}

\* Mutant: getExpired forgets the other set.
GetExpiredHalf ==
  /\ expired' = Due /\ todo' = Due
  /\ timers' = timers \ Due /\ UNCHANGED activeTimers

\* getExpired.
GetExpired ==
  /\ expired' = Due /\ todo' = Due
  /\ timers' = timers \ Due /\ activeTimers' = activeTimers \ Due

\* handleRead up to the callbacks.
HandleRead ==
  /\ pc = "loop" /\ reported /\ pc' = "calling"
  /\ reported' = FALSE /\ readable' = FALSE
  /\ GetExpired
  /\ canceling' = {} /\ lag' = 0
  /\ UNCHANGED <<timer, functors, alarm, asked, cancelled, nadjust>>

\* timers_ and expired are sorted by time and address.
Before(s, t) ==
  \/ timer[s].when < timer[t].when
  \/ timer[s].when = timer[t].when /\ timer[s].addr <= timer[t].addr

\* it.second->run().
Call ==
  /\ pc = "calling"
  /\ \E s \in todo : (\A t \in todo : Before(s, t)) /\ todo' = todo \ {s}
  /\ UNCHANGED <<timer, functors, setvars, canceling, pc, expired, lag, fdvars,
                 asked, cancelled, nadjust>>

\* Mutant: cancelingTimers_ is not looked at.
AllRepeating == {s \in expired : timer[s].interval > 0}

\* The expired timers that reset starts again.
Repeating == {s \in expired : timer[s].interval > 0 /\ s \notin canceling}

\* Timer::restart and delete.
Restarted(s) ==
  IF s \in Repeating THEN [timer[s] EXCEPT !.when = timer[s].interval - lag]
  ELSE IF s \in expired THEN Freed(s) ELSE timer[s]

\* reset: the timers that repeat are inserted, the timerfd is set to the
\* earliest.
Reset ==
  /\ pc = "calling" /\ todo = {} /\ pc' = "loop"
  /\ timer' = [s \in Created |-> Restarted(s)]
  /\ timers' = timers \cup Repeating
  /\ activeTimers' = activeTimers \cup Repeating
  /\ IF timers' = {} THEN UNCHANGED <<alarm, readable>>
     ELSE \E s \in timers' :
            /\ \A t \in timers' : timer'[s].when <= timer'[t].when
            /\ ResetTimerfd(timer'[s].when)
  /\ expired' = {} /\ canceling' = {} /\ lag' = 0
  /\ UNCHANGED <<functors, todo, reported, asked, cancelled, nadjust>>

-----------------------------------------------------------------------------
Next ==
  \/ Tick \/ Adjust \/ Poll \/ QueueAdd \/ QueueCancel \/ RunFunctor
  \/ AddInCallback \/ CancelInCallback \/ HandleRead \/ Call \/ Reset

\* Time passes and the loop runs; nothing forces a timer or a cancel.  A
\* queued functor is run whatever else the loop has to do, because every
\* iteration looks at the queue (AllRun of EventLoop): strong fairness.
Fairness ==
  /\ WF_vars(Tick) /\ WF_vars(Poll) /\ SF_vars(RunFunctor)
  /\ WF_vars(HandleRead) /\ WF_vars(Call) /\ WF_vars(Reset)

Spec == Init /\ [][Next]_vars

FairSpec == Spec /\ Fairness

-----------------------------------------------------------------------------
(* Properties. *)

\* While a timer waits the timerfd is set, and not to a later time than the
\* timer's, although only an earliest timer sets it, cancelling one does not
\* touch it and setting it forgets an alarm that went off.  When the wall
\* clock was changed it may be late, but it is set.
AlarmCovers ==
  pc = "loop" /\ ~readable /\ ~reported =>
    \A s \in timers :
      /\ alarm > 0
      /\ nadjust = 0 => alarm <= HowMuchTimeFromNow(timer[s].when)

\* Every Timer has one owner: the functor that will add it, the two sets,
\* which agree (the assertions on their sizes), or the vector of the expired.
\* So nothing that was deleted is called or deleted again, and nothing leaks.
OneOwner ==
  /\ timers = activeTimers
  /\ Live = Adding \cup timers \cup expired
  /\ timers \cap (Adding \cup expired) = {} /\ Adding \cap expired = {}

\* A timer that was cancelled after it was added is not started again, be it
\* cancelled by another thread, by another timer or by itself, and whichever
\* address it had.
CancelSticks ==
  \A s \in cancelled :
    s \notin timers /\ (s \in expired => s \in canceling)

\* Every timer that nobody cancels goes off, and a repeating one again and again:
\* also when the wall clock is changed, and when a TimerId of a dead timer
\* with the same address is cancelled.
EventuallyExpires ==
  \A s \in 1 .. MaxTimers :
    /\ (s \in Live) ~> (s \in expired \/ s \in asked)
    /\ (s \in Live /\ timer[s].interval > 0) ~> []<>(s \in expired \/ s \in asked)
=============================================================================
