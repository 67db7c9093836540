-------------------------- MODULE TimerQueue_proofs --------------------------
(***************************************************************************)
(* The timer queue of a loop, for any number of timers, delays, intervals  *)
(* and changes of the wall clock: every Timer has one owner, a cancelled   *)
(* timer stays cancelled, and the timerfd is set for every timer that      *)
(* waits.                                                                  *)
(***************************************************************************)
EXTENDS TimerQueue, TLAPS

TimerRec == [when : Int, interval : Nat, addr : Nat, live : BOOLEAN]
FunctorRec == [op : {"add", "cancel"}, timer : Nat]

-----------------------------------------------------------------------------
(* The inductive invariant. *)

\* The domains of the variables.
Types ==
  /\ timer \in Seq(TimerRec) /\ functors \in Seq(FunctorRec)
  /\ pc \in {"loop", "calling"} /\ lag \in Int /\ alarm \in Nat
  /\ readable \in BOOLEAN /\ reported \in BOOLEAN /\ nadjust \in Nat

\* expired and todo are only used between getExpired and reset.
Phase == todo \subseteq expired /\ (pc = "loop" => expired = {})

\* A functor is about a Timer that exists, and no Timer is added twice.
Queued ==
  /\ \A n \in DOMAIN functors : functors[n].timer \in Created
  /\ \A m, n \in DOMAIN functors :
       functors[m].op = "add" /\ functors[n].op = "add"
         /\ functors[m].timer = functors[n].timer => m = n

\* A timer counts as cancelled only from the time it was added.
CancelledAfterAdd == cancelled \subseteq Created /\ cancelled \cap Adding = {}

IInv ==
  /\ Types /\ Phase /\ Queued /\ OneOwner
  /\ CancelledAfterAdd /\ CancelSticks /\ AlarmCovers

-----------------------------------------------------------------------------
(* What the actions do to the Timers. *)

\* A function on 1 .. n is a sequence of length n.
LEMMA FunctionIsSeq ==
  ASSUME NEW S, NEW n \in Nat, NEW f \in [1 .. n -> S]
  PROVE  f \in Seq(S) /\ Len(f) = n /\ DOMAIN f = 1 .. n
  OBVIOUS

\* A change of the clock moves the living Timers and keeps the rest.
LEMMA ShiftTimers ==
  ASSUME Types, NEW d \in Int, Shift(d)
  PROVE  /\ timer' \in Seq(TimerRec) /\ Created' = Created /\ Live' = Live
         /\ lag' \in Int
         /\ \A s \in Live : /\ timer'[s].when \in Int
                            /\ timer'[s].when >= timer[s].when - d
<1>1. /\ Created = 1 .. Len(timer) /\ Len(timer) \in Nat
      /\ \A s \in Created : timer[s] \in TimerRec
  BY DEF Types, Created
<1>2. MaxLate \in Int
  BY TimerAssumption
<1>3. ASSUME NEW s \in Created
      PROVE  /\ timer'[s] \in TimerRec /\ timer'[s].live = timer[s].live
             /\ timer[s].live => /\ timer'[s].when \in Int
                                 /\ timer'[s].when >= timer[s].when - d
  <2>1. CASE timer[s].live
    <3>1. timer'[s] = [timer[s] EXCEPT !.when = LaterOf(@ - d, -MaxLate)]
      BY <2>1 DEF Shift
    <3>2. timer[s] \in TimerRec
      BY <1>1
    <3>3. /\ LaterOf(timer[s].when - d, -MaxLate) \in Int
          /\ LaterOf(timer[s].when - d, -MaxLate) >= timer[s].when - d
      BY <3>2, <1>2 DEF LaterOf, TimerRec
    <3> QED
      BY <3>1, <3>2, <3>3 DEF TimerRec
  <2>2. CASE ~timer[s].live
    BY <2>2, <1>1 DEF Shift
  <2> QED
    BY <2>1, <2>2
<1>4. timer' = [s \in Created |-> timer'[s]]
  BY DEF Shift
<1>5. timer' \in [1 .. Len(timer) -> TimerRec]
  BY <1>1, <1>3, <1>4
<1>6. timer' \in Seq(TimerRec) /\ Created' = Created
  BY <1>1, <1>5, FunctionIsSeq DEF Created
<1>7. Live' = Live
  BY <1>3, <1>6 DEF Live
<1>8. lag' \in Int
  <2>1. /\ lag \in Int
        /\ lag' = IF pc = "calling" THEN -LaterOf(-(lag + d), -MaxLate) ELSE lag
    BY DEF Types, Shift
  <2> QED
    BY <2>1, <1>2 DEF LaterOf
<1> QED
  BY <1>3, <1>6, <1>7, <1>8 DEF Live

\* A new Timer gets the next sequence number, and is alive.
LEMMA NewTimers ==
  ASSUME Types, NEW d \in Delays, NEW i \in Intervals,
         NEW a \in 1 .. MaxTimers, NewTimer(d, i, a)
  PROVE  /\ timer' \in Seq(TimerRec)
         /\ Len(timer) + 1 \notin Created
         /\ Created' = Created \cup {Len(timer) + 1}
         /\ Live' = Live \cup {Len(timer) + 1}
         /\ \A s \in Created : timer'[s] = timer[s]
         /\ timer'[Len(timer) + 1].when = d /\ d \in Int
<1> DEFINE r == [when |-> d, interval |-> i, addr |-> a, live |-> TRUE]
<1>1. r \in TimerRec /\ r.live /\ r.when = d /\ d \in Int
  BY TimerAssumption DEF TimerRec
<1>2. timer \in Seq(TimerRec) /\ timer' = Append(timer, r)
  BY DEF Types, NewTimer
<1> HIDE DEF r
<1>3. /\ timer' \in Seq(TimerRec)
      /\ DOMAIN timer = 1 .. Len(timer) /\ Len(timer) \in Nat
      /\ DOMAIN timer' = 1 .. Len(timer) + 1
      /\ \A s \in 1 .. Len(timer) : timer'[s] = timer[s]
      /\ timer'[Len(timer) + 1] = r
  BY <1>1, <1>2
<1>4. /\ Created = 1 .. Len(timer) /\ Len(timer) + 1 \notin Created
      /\ Created' = Created \cup {Len(timer) + 1}
      /\ \A s \in Created : timer'[s] = timer[s]
  BY <1>3 DEF Created
<1>5. Live' = Live \cup {Len(timer) + 1}
  BY <1>1, <1>3, <1>4 DEF Live
<1> QED
  BY <1>1, <1>3, <1>4, <1>5

\* A Timer's record stays one when live is set.
LEMMA LiveTimer ==
  ASSUME NEW x \in TimerRec, NEW b \in BOOLEAN
  PROVE  [x EXCEPT !.live = b] \in TimerRec
  BY SMT DEF TimerRec

\* A Timer that was deleted is still a record, and not alive.
LEMMA FreedTimer ==
  ASSUME NEW t, timer[t] \in TimerRec
  PROVE  Freed(t) \in TimerRec /\ ~Freed(t).live
<1> DEFINE x == [timer[t] EXCEPT !.when = 0]
<1>1. x \in TimerRec
  BY DEF TimerRec
<1>2. Freed(t) = [x EXCEPT !.live = FALSE]
  BY DEF Freed, TimerRec
<1> HIDE DEF x
<1>3. [x EXCEPT !.live = FALSE] \in TimerRec
  BY <1>1, LiveTimer, Zenon
<1>4. ~[x EXCEPT !.live = FALSE].live
  BY <1>1, SMT DEF TimerRec
<1> QED
  BY <1>2, <1>3, <1>4

\* cancelInLoop deletes the Timer if it waits, and nothing else.
LEMMA CancelTimers ==
  ASSUME Types, OneOwner, NEW s \in Created, CancelInLoop(s)
  PROVE  /\ timer' \in Seq(TimerRec) /\ Created' = Created
         /\ Find(s) = timers \cap {s}
         /\ Live' = Live \ {t \in timers : t = s}
         /\ \A t \in Created : t \notin timers \/ t # s => timer'[t] = timer[t]
<1>1. /\ Created = 1 .. Len(timer) /\ Len(timer) \in Nat
      /\ \A t \in Created : timer[t] \in TimerRec
  BY DEF Types, Created
<1>2. Find(s) = timers \cap {s}
  BY DEF Find, OneOwner
<1>3. /\ timer' = [t \in Created |-> timer'[t]]
      /\ \A t \in Created :
           timer'[t] = IF t \in timers /\ t = s THEN Freed(t) ELSE timer[t]
  BY <1>2 DEF CancelInLoop
<1>4. ASSUME NEW t \in Created
      PROVE  Freed(t) \in TimerRec /\ ~Freed(t).live
  <2>1. timer[t] \in TimerRec
    BY <1>1
  <2> QED
    BY <2>1, FreedTimer
<1>5. \A t \in Created : timer'[t] \in TimerRec
  BY <1>1, <1>3, <1>4
<1>6. timer' \in [1 .. Len(timer) -> TimerRec]
  BY <1>1, <1>3, <1>5
<1>7. timer' \in Seq(TimerRec) /\ Created' = Created
  BY <1>1, <1>6, FunctionIsSeq DEF Created
<1>8. Live' = Live \ {t \in timers : t = s}
  BY <1>3, <1>4, <1>7 DEF Live
<1> QED
  BY <1>2, <1>3, <1>7, <1>8

\* reset deletes the expired Timers that do not repeat, and nothing else.
LEMMA ResetTimers ==
  ASSUME Types, OneOwner, Reset
  PROVE  /\ timer' \in Seq(TimerRec) /\ Created' = Created
         /\ Live' = (Live \ expired) \cup Repeating
         /\ \A t \in Live' : timer'[t].when \in Int
<1>1. /\ Created = 1 .. Len(timer) /\ Len(timer) \in Nat
      /\ \A t \in Created : timer[t] \in TimerRec
  BY DEF Types, Created
<1>2. /\ timer' = [t \in Created |-> timer'[t]]
      /\ \A t \in Created : timer'[t] = Restarted(t)
  BY DEF Reset
<1>3. expired \subseteq Live /\ Live \subseteq Created
      /\ Repeating \subseteq expired
  BY DEF OneOwner, Live, Repeating
<1>4. ASSUME NEW t \in Created
      PROVE  /\ timer'[t] \in TimerRec
             /\ timer'[t].live <=> /\ timer[t].live
                                   /\ t \in expired => t \in Repeating
  <2>1. timer[t] \in TimerRec /\ timer'[t] = Restarted(t) /\ lag \in Int
    BY <1>1, <1>2 DEF Types
  <2>2. CASE t \in Repeating
    BY <2>1, <2>2, <1>3 DEF Restarted, TimerRec, Live
  <2>3. CASE t \notin Repeating /\ t \in expired
    <3>1. timer'[t] = Freed(t)
      BY <2>1, <2>3 DEF Restarted
    <3>2. Freed(t) \in TimerRec /\ ~Freed(t).live
      BY <2>1, FreedTimer
    <3> QED
      BY <2>3, <3>1, <3>2
  <2>4. CASE t \notin expired
    <3>1. timer'[t] = timer[t]
      BY <2>1, <2>4, <1>3 DEF Restarted
    <3>2. timer[t].live \in BOOLEAN
      BY <2>1 DEF TimerRec
    <3> QED
      BY <2>1, <2>4, <3>1, <3>2
  <2> QED
    BY <2>2, <2>3, <2>4
<1>5. timer' \in [1 .. Len(timer) -> TimerRec]
  BY <1>1, <1>2, <1>4
<1>6. timer' \in Seq(TimerRec) /\ Created' = Created
  BY <1>1, <1>5, FunctionIsSeq DEF Created
<1>7. Live' = (Live \ expired) \cup Repeating
  BY <1>3, <1>4, <1>6 DEF Live
<1>8. \A t \in Created : timer'[t].when \in Int
  BY <1>4 DEF TimerRec
<1> QED
  BY <1>3, <1>6, <1>7, <1>8

-----------------------------------------------------------------------------
(* The queue of functors. *)

\* A timer is waiting to be added if an add of it is in the queue.
LEMMA AddingIs ==
  \A s : s \in Adding <=> \E n \in DOMAIN functors :
                            functors[n].op = "add" /\ functors[n].timer = s
  BY DEF Adding

\* The next functor is about a Timer that exists; running it leaves the rest
\* of the queue as it was, without the timer it adds.
LEMMA NextFunctor ==
  ASSUME Types, Queued, functors # <<>>, functors' = Tail(functors),
         Created' = Created
  PROVE  /\ functors' \in Seq(FunctorRec) /\ Queued'
         /\ Head(functors).timer \in Created
         /\ Head(functors).op = "add" =>
              /\ Head(functors).timer \in Adding
              /\ Adding' = Adding \ {Head(functors).timer}
         /\ Head(functors).op = "cancel" => Adding' = Adding
<1>1. /\ functors \in Seq(FunctorRec) /\ Len(functors) \in Nat \ {0}
      /\ DOMAIN functors = 1 .. Len(functors)
      /\ Head(functors) = functors[1] /\ 1 \in DOMAIN functors
  BY DEF Types
<1>2. /\ functors' \in Seq(FunctorRec)
      /\ DOMAIN functors' = 1 .. Len(functors) - 1
      /\ \A n \in 1 .. Len(functors) - 1 : functors'[n] = functors[n + 1]
  BY <1>1
<1>3. \A n \in DOMAIN functors' :
        n + 1 \in DOMAIN functors /\ functors'[n] = functors[n + 1]
        /\ n \in Nat /\ n + 1 # 1
  BY <1>1, <1>2
<1>4. \A n \in DOMAIN functors :
        n # 1 => n - 1 \in DOMAIN functors' /\ functors'[n - 1] = functors[n]
  BY <1>1, <1>2
<1>5. Queued'
  <2>1. \A n \in DOMAIN functors' : functors'[n].timer \in Created'
    BY <1>3 DEF Queued
  <2>2. ASSUME NEW m \in DOMAIN functors', NEW n \in DOMAIN functors',
               functors'[m].op = "add", functors'[n].op = "add",
               functors'[m].timer = functors'[n].timer
        PROVE  m = n
    <3>1. m + 1 = n + 1
      BY <2>2, <1>3 DEF Queued
    <3> QED
      BY <3>1, <1>3
  <2> QED
    BY <2>1, <2>2 DEF Queued
<1>6. Head(functors).timer \in Created
  BY <1>1 DEF Queued
<1>7. \A s : s \in Adding' <=> \E n \in DOMAIN functors' :
                               functors'[n].op = "add" /\ functors'[n].timer = s
  BY DEF Adding
<1>8. \A s : s \in Adding' <=>
              \E n \in DOMAIN functors : n # 1 /\ functors[n].op = "add"
                                        /\ functors[n].timer = s
  <2>1. ASSUME NEW s, s \in Adding'
        PROVE  \E n \in DOMAIN functors : n # 1 /\ functors[n].op = "add"
                                        /\ functors[n].timer = s
    BY <2>1, <1>3, <1>7
  <2>2. ASSUME NEW s, NEW n \in DOMAIN functors, n # 1,
               functors[n].op = "add", functors[n].timer = s
        PROVE  s \in Adding'
    <3>1. PICK k \in DOMAIN functors' : functors'[k] = functors[n]
      BY <2>2, <1>4
    <3> QED
      BY <2>2, <3>1, <1>7
  <2> QED
    BY <2>1, <2>2, Zenon
<1>9. ASSUME Head(functors).op = "add"
      PROVE  /\ Head(functors).timer \in Adding
             /\ Adding' = Adding \ {Head(functors).timer}
  <2>1. \A n \in DOMAIN functors :
          functors[n].op = "add" /\ functors[n].timer = functors[1].timer
            => n = 1
    BY <1>1, <1>9 DEF Queued
  <2> QED
    BY <1>1, <1>8, <1>9, <2>1, AddingIs
<1>10. ASSUME Head(functors).op = "cancel" PROVE Adding' = Adding
  <2>1. \A n \in DOMAIN functors : functors[n].op = "add" => n # 1
    BY <1>1, <1>10
  <2>2. \A s : s \in Adding <=> s \in Adding'
    BY <1>8, <2>1, AddingIs, Zenon
  <2> QED
    BY <2>2, Zenon
<1> QED
  BY <1>2, <1>5, <1>6, <1>9, <1>10

\* A functor that is queued comes last; an add is of a Timer that no other
\* functor adds.
LEMMA QueueFunctor ==
  ASSUME Types, Queued, NEW f \in FunctorRec, functors' = Append(functors, f),
         f.timer \in Created', Created \subseteq Created',
         f.op = "add" => f.timer \notin Adding
  PROVE  /\ functors' \in Seq(FunctorRec) /\ Queued'
         /\ f.op = "add" => Adding' = Adding \cup {f.timer}
         /\ f.op # "add" => Adding' = Adding
<1>1. /\ functors' \in Seq(FunctorRec) /\ Len(functors) \in Nat
      /\ DOMAIN functors = 1 .. Len(functors)
      /\ DOMAIN functors' = 1 .. Len(functors) + 1
      /\ \A n \in 1 .. Len(functors) : functors'[n] = functors[n]
      /\ functors'[Len(functors) + 1] = f
  BY DEF Types
<1>2. /\ \A n \in DOMAIN functors :
           n \in DOMAIN functors' /\ functors'[n] = functors[n]
      /\ \A n \in DOMAIN functors' :
           n \in DOMAIN functors \/ n = Len(functors) + 1
      /\ Len(functors) + 1 \in DOMAIN functors'
  BY <1>1
<1>3. \A s : s \in Adding' <=> \E n \in DOMAIN functors' :
                               functors'[n].op = "add" /\ functors'[n].timer = s
  BY DEF Adding
<1>4. Queued'
  <2>1. \A n \in DOMAIN functors' : functors'[n].timer \in Created'
    BY <1>1, <1>2 DEF Queued
  <2>2. \A m, n \in DOMAIN functors' :
         functors'[m].op = "add" /\ functors'[n].op = "add"
           /\ functors'[m].timer = functors'[n].timer => m = n
    BY <1>1, <1>2, AddingIs DEF Queued
  <2> QED
    BY <2>1, <2>2 DEF Queued
<1>5. f.op = "add" => Adding' = Adding \cup {f.timer}
  BY <1>1, <1>2, <1>3, AddingIs
<1>6. ASSUME f.op # "add" PROVE Adding' = Adding
  <2>1. \A n \in DOMAIN functors' : functors'[n].op = "add" =>
          n \in DOMAIN functors
    BY <1>1, <1>2, <1>6
  <2>2. \A s : s \in Adding <=> s \in Adding'
    BY <1>2, <1>3, <2>1, AddingIs
  <2> QED
    BY <2>2, Zenon
<1> QED
  BY <1>1, <1>4, <1>5, <1>6

-----------------------------------------------------------------------------
(* The initial states, and the steps, action by action. *)

\* A queue without timers satisfies the invariant.
LEMMA InitIInv == Init => IInv
<1> SUFFICES ASSUME Init PROVE IInv
  OBVIOUS
<1>1. Created = {} /\ Live = {} /\ Adding = {}
  BY DEF Init, Created, Live, Adding
<1>2. Types
  <2>1. readable \in BOOLEAN /\ reported \in BOOLEAN
    BY Zenon DEF Init
  <2> QED
    BY <2>1 DEF Init, Types
<1>3. Phase /\ Queued
  BY <1>1 DEF Init, Phase, Queued
<1>4. OneOwner /\ CancelledAfterAdd /\ CancelSticks /\ AlarmCovers
  BY <1>1 DEF Init, OneOwner, CancelledAfterAdd, CancelSticks, AlarmCovers
<1> QED
  BY <1>2, <1>3, <1>4 DEF IInv

\* What follows from the types and the owners: all sets are of Timers that
\* exist, and a Timer that waits or is called is alive.
LEMMA Owned ==
  ASSUME IInv
  PROVE  /\ timers \subseteq Live /\ expired \subseteq Live
         /\ Adding \subseteq Live /\ Live \subseteq Created
         /\ \A s \in Created : timer[s].when \in Int
<1>1. \A s \in Created : timer[s].when \in Int
  <2>1. \A s \in Created : timer[s] \in TimerRec
    BY DEF IInv, Types, Created
  <2> QED
    BY <2>1 DEF TimerRec
<1> QED
  BY <1>1 DEF IInv, OneOwner, Live

\* What the clock does keeps the invariant: an alarm that has not gone off is
\* a tick nearer, and so are the timers.
LEMMA TickStep == IInv /\ Tick => IInv'
<1> SUFFICES ASSUME IInv, Tick PROVE IInv'
  OBVIOUS
<1>1. Shift(1) /\ Types
  BY DEF Tick, IInv
<1>2. /\ timer' \in Seq(TimerRec) /\ Created' = Created /\ Live' = Live
      /\ lag' \in Int
      /\ \A s \in Live : /\ timer'[s].when \in Int
                         /\ timer'[s].when >= timer[s].when - 1
  BY <1>1, ShiftTimers
<1>3. /\ functors' = functors /\ timers' = timers
      /\ activeTimers' = activeTimers /\ canceling' = canceling /\ pc' = pc
      /\ expired' = expired /\ todo' = todo /\ reported' = reported
      /\ asked' = asked /\ cancelled' = cancelled /\ nadjust' = nadjust
  BY <1>1 DEF Tick, Shift, setvars
<1>4. Adding' = Adding
  BY <1>3 DEF Adding
<1>5. alarm \in Nat /\ alarm' = (IF alarm = 0 THEN 0 ELSE alarm - 1)
      /\ readable' = (readable \/ alarm = 1) /\ readable \in BOOLEAN
  BY DEF Tick, IInv, Types
<1>6. Types'
  BY <1>1, <1>2, <1>3, <1>5 DEF Types
<1>7. Phase' /\ Queued'
  BY <1>2, <1>3 DEF IInv, Phase, Queued
<1>8. OneOwner' /\ CancelledAfterAdd' /\ CancelSticks'
  BY <1>2, <1>3, <1>4 DEF IInv, OneOwner, CancelledAfterAdd, CancelSticks
<1>9. AlarmCovers'
  <2> SUFFICES ASSUME pc = "loop", ~readable', ~reported, NEW s \in timers
      PROVE  /\ alarm' > 0
             /\ nadjust = 0 => alarm' <= HowMuchTimeFromNow(timer'[s].when)
    BY <1>3, Zenon DEF AlarmCovers, HowMuchTimeFromNow, LaterOf
  <2>1. /\ alarm > 0
        /\ nadjust = 0 => alarm <= HowMuchTimeFromNow(timer[s].when)
    BY <1>5 DEF IInv, AlarmCovers
  <2>2. alarm # 1
    BY Zenon DEF Tick
  <2>4. alarm' = alarm - 1
    BY <1>5, <2>1
  <2>3. /\ timer[s].when \in Int /\ timer'[s].when \in Int
        /\ timer'[s].when >= timer[s].when - 1
    BY Owned, <1>2
  <2> QED
    BY <1>5, <2>1, <2>2, <2>3, <2>4 DEF HowMuchTimeFromNow, LaterOf
<1> QED
  BY <1>6, <1>7, <1>8, <1>9 DEF IInv

\* A change of the wall clock keeps the invariant: the alarm stays set.
LEMMA AdjustStep == IInv /\ Adjust => IInv'
<1> SUFFICES ASSUME IInv, Adjust PROVE IInv'
  OBVIOUS
<1>1. PICK d \in {-1, 1} : Shift(d)
  BY DEF Adjust
<1>2. Types
  BY DEF IInv
<1>3. /\ timer' \in Seq(TimerRec) /\ Created' = Created /\ Live' = Live
      /\ lag' \in Int
  BY <1>1, <1>2, ShiftTimers
<1>4. /\ functors' = functors /\ timers' = timers
      /\ activeTimers' = activeTimers /\ canceling' = canceling /\ pc' = pc
      /\ expired' = expired /\ todo' = todo /\ reported' = reported
      /\ cancelled' = cancelled
  BY <1>1 DEF Shift, setvars
<1>5. /\ nadjust' = nadjust + 1 /\ nadjust \in Nat
      /\ alarm' = alarm /\ readable' = readable
  BY <1>2 DEF Adjust, Types
<1>6. Adding' = Adding
  BY <1>4 DEF Adding
<1>7. Types'
  BY <1>2, <1>3, <1>4, <1>5 DEF Types
<1>8. Phase' /\ Queued'
  BY <1>3, <1>4 DEF IInv, Phase, Queued
<1>9. OneOwner' /\ CancelledAfterAdd' /\ CancelSticks'
  BY <1>3, <1>4, <1>6 DEF IInv, OneOwner, CancelledAfterAdd, CancelSticks
<1>10. AlarmCovers'
  BY <1>4, <1>5 DEF IInv, AlarmCovers
<1> QED
  BY <1>7, <1>8, <1>9, <1>10 DEF IInv

\* What holds the timers, when their records are left alone.
LEMMA SameTimers ==
  ASSUME IInv, timer' = timer
  PROVE  Created' = Created /\ Live' = Live
  BY DEF Created, Live

\* addTimerInLoop sets the timerfd if the timer is the earliest; if not, the
\* alarm for an earlier one covers it too.
LEMMA AddSetsAlarm ==
  ASSUME IInv, NEW s, NEW w \in Int, AddTimerInLoop(s, w),
         timer'[s].when = w,
         \A t \in timers : timer'[t] = timer[t] /\ timer[t].when \in Int,
         pc' = pc, reported' = reported, nadjust' = nadjust
  PROVE  AlarmCovers' /\ alarm' \in Nat /\ readable' \in BOOLEAN
<1>1. timers' = timers \cup {s} /\ alarm \in Nat /\ readable \in BOOLEAN
  BY DEF AddTimerInLoop, IInv, Types
<1>2. CASE EarliestChanged(w)
  <2>1. alarm' = HowMuchTimeFromNow(w)
    BY <1>2 DEF AddTimerInLoop, ResetTimerfd
  <2>2. readable' \in BOOLEAN
    BY <1>2, Zenon DEF AddTimerInLoop, ResetTimerfd
  <2>3. alarm' \in Nat /\ alarm' > 0
    BY <2>1 DEF HowMuchTimeFromNow, LaterOf
  <2>4. ASSUME NEW t \in timers'
        PROVE  alarm' <= HowMuchTimeFromNow(timer'[t].when)
    <3>1. CASE t = s
      BY <2>1, <3>1 DEF HowMuchTimeFromNow, LaterOf
    <3>2. CASE t \in timers
      <4>1. w < timer'[t].when /\ timer'[t].when \in Int
        BY <1>2, <3>2 DEF EarliestChanged
      <4> QED
        BY <2>1, <4>1 DEF HowMuchTimeFromNow, LaterOf
    <3> QED
      BY <1>1, <2>4, <3>1, <3>2
  <2> QED
    BY <2>2, <2>3, <2>4, Zenon DEF AlarmCovers, HowMuchTimeFromNow, LaterOf
<1>3. CASE ~EarliestChanged(w)
  <2>1. alarm' = alarm /\ readable' = readable
    BY <1>3 DEF AddTimerInLoop
  <2>2. PICK e \in timers : ~(w < timer[e].when)
    BY <1>3 DEF EarliestChanged
  <2>3. ASSUME pc = "loop", ~readable, ~reported, NEW t \in timers'
        PROVE  /\ alarm > 0
               /\ nadjust = 0 => alarm <= HowMuchTimeFromNow(timer'[t].when)
    <3>1. CASE t \in timers
      BY <2>3, <3>1 DEF IInv, AlarmCovers
    <3>2. CASE t = s
      <4>1. /\ alarm > 0
            /\ nadjust = 0 => alarm <= HowMuchTimeFromNow(timer[e].when)
        BY <2>3 DEF IInv, AlarmCovers
      <4>2. timer[e].when \in Int /\ timer[e].when <= w
        BY <2>2
      <4> QED
        BY <1>1, <3>2, <4>1, <4>2 DEF HowMuchTimeFromNow, LaterOf
    <3> QED
      BY <1>1, <2>3, <3>1, <3>2
  <2>4. AlarmCovers'
    BY <2>1, <2>3, Zenon DEF AlarmCovers, HowMuchTimeFromNow, LaterOf
  <2> QED
    BY <1>1, <2>1, <2>4
<1> QED
  BY <1>2, <1>3

\* cancelInLoop keeps the owners and makes the cancellation stick: a timer
\* that waits is deleted, one that is being called is noted for reset.
LEMMA CancelKeeps ==
  ASSUME IInv, NEW s \in Created, CancelInLoop(s), Adding' = Adding,
         pc' = pc, expired' = expired, todo' = todo, lag' = lag,
         reported' = reported, alarm' = alarm, readable' = readable,
         nadjust' = nadjust, functors' \in Seq(FunctorRec)
  PROVE  /\ Types' /\ Phase' /\ Created' = Created /\ OneOwner'
         /\ CancelledAfterAdd' /\ CancelSticks' /\ AlarmCovers'
<1>1. Types /\ OneOwner
  BY DEF IInv
<1>2. /\ timer' \in Seq(TimerRec) /\ Created' = Created
      /\ Find(s) = timers \cap {s}
      /\ Live' = Live \ {t \in timers : t = s}
      /\ \A t \in Created : t \notin timers \/ t # s => timer'[t] = timer[t]
  BY <1>1, CancelTimers
<1>3. /\ timers' = timers \ {s} /\ activeTimers' = activeTimers \ {s}
      /\ canceling' = IF s \notin timers /\ pc = "calling"
                        THEN canceling \cup {s} ELSE canceling
      /\ cancelled' = cancelled \cup ({s} \ Adding)
  BY <1>1, <1>2 DEF CancelInLoop, OneOwner
<1>4. Types'
  BY <1>1, <1>2 DEF Types
<1>5. Phase'
  BY DEF IInv, Phase
<1>6. OneOwner'
  BY <1>1, <1>2, <1>3 DEF OneOwner
<1>7. CancelledAfterAdd'
  BY <1>2, <1>3 DEF IInv, CancelledAfterAdd
<1>8. CancelSticks'
  <2> SUFFICES ASSUME NEW t \in cancelled'
               PROVE  t \notin timers' /\ (t \in expired => t \in canceling')
    BY DEF CancelSticks
  <2>1. CASE t = s
    <3>1. s \in expired => pc = "calling" /\ s \notin timers
      BY DEF IInv, Phase, OneOwner, Types
    <3> QED
      BY <2>1, <3>1, <1>3
  <2>2. CASE t # s
    BY <2>2, <1>3 DEF IInv, CancelSticks
  <2> QED
    BY <2>1, <2>2
<1>9. AlarmCovers'
  <2>1. \A t \in timers' : t \in timers /\ timer'[t] = timer[t]
    BY <1>2, <1>3, Owned
  <2>2. AlarmCovers
    BY DEF IInv
  <2> QED
    BY <2>1, <2>2, Zenon DEF AlarmCovers, HowMuchTimeFromNow, LaterOf
<1> QED
  BY <1>2, <1>4, <1>5, <1>6, <1>7, <1>8, <1>9

\* epoll_wait only reports; an alarm that is reported is no longer waited for.
LEMMA PollStep == IInv /\ Poll => IInv'
<1> SUFFICES ASSUME IInv, Poll PROVE IInv'
  OBVIOUS
<1>1. /\ timer' = timer /\ functors' = functors /\ timers' = timers
      /\ activeTimers' = activeTimers /\ canceling' = canceling /\ pc' = pc
      /\ expired' = expired /\ todo' = todo /\ lag' = lag /\ alarm' = alarm
      /\ readable' = readable /\ cancelled' = cancelled
      /\ nadjust' = nadjust
  BY DEF Poll, setvars
<1>2. reported' /\ reported' \in BOOLEAN
  BY Zenon DEF Poll
<1>3. Created' = Created /\ Live' = Live /\ Adding' = Adding
  BY <1>1, SameTimers DEF Adding
<1>4. Types'
  BY <1>1, <1>2 DEF IInv, Types
<1>5. Phase' /\ Queued'
  BY <1>1, <1>3 DEF IInv, Phase, Queued
<1>6. OneOwner' /\ CancelledAfterAdd' /\ CancelSticks'
  BY <1>1, <1>3 DEF IInv, OneOwner, CancelledAfterAdd, CancelSticks
<1>7. AlarmCovers'
  BY <1>2, Zenon DEF AlarmCovers
<1> QED
  BY <1>4, <1>5, <1>6, <1>7 DEF IInv

\* The callback of a timer changes nothing of the queue by itself.
LEMMA CallStep == IInv /\ Call => IInv'
<1> SUFFICES ASSUME IInv, Call PROVE IInv'
  OBVIOUS
<1>1. /\ timer' = timer /\ functors' = functors /\ timers' = timers
      /\ activeTimers' = activeTimers /\ canceling' = canceling /\ pc' = pc
      /\ expired' = expired /\ lag' = lag /\ alarm' = alarm
      /\ readable' = readable /\ cancelled' = cancelled
      /\ nadjust' = nadjust /\ reported' = reported
  BY DEF Call, setvars, fdvars
<1>2. todo' \subseteq todo
  BY DEF Call
<1>3. Created' = Created /\ Live' = Live /\ Adding' = Adding
  BY <1>1, SameTimers DEF Adding
<1>4. Types'
  BY <1>1 DEF IInv, Types
<1>5. Phase' /\ Queued'
  BY <1>1, <1>2, <1>3 DEF IInv, Phase, Queued
<1>6. OneOwner' /\ CancelledAfterAdd' /\ CancelSticks'
  BY <1>1, <1>3 DEF IInv, OneOwner, CancelledAfterAdd, CancelSticks
<1>7. AlarmCovers'
  BY <1>1, Zenon DEF IInv, AlarmCovers, HowMuchTimeFromNow, LaterOf
<1> QED
  BY <1>4, <1>5, <1>6, <1>7 DEF IInv

\* getExpired moves the timers that are due from both sets to expired; they
\* are not cancelled, so cancelingTimers_ may start empty.
LEMMA HandleReadStep == IInv /\ HandleRead => IInv'
<1> SUFFICES ASSUME IInv, HandleRead PROVE IInv'
  OBVIOUS
<1>1. /\ timer' = timer /\ functors' = functors /\ canceling' = {}
      /\ pc = "loop" /\ pc' = "calling" /\ lag' = 0 /\ alarm' = alarm
      /\ cancelled' = cancelled /\ nadjust' = nadjust
      /\ expired' = Due /\ todo' = Due
      /\ timers' = timers \ Due /\ activeTimers' = activeTimers \ Due
  BY DEF HandleRead, GetExpired
<1>2. readable' \in BOOLEAN /\ reported' \in BOOLEAN
  BY Zenon DEF HandleRead
<1>3. Created' = Created /\ Live' = Live /\ Adding' = Adding
  BY <1>1, SameTimers DEF Adding
<1>4. Due \subseteq timers /\ expired = {}
  BY <1>1 DEF Due, IInv, Phase
<1>5. Types'
  BY <1>1, <1>2 DEF IInv, Types
<1>6. Phase' /\ Queued'
  BY <1>1, <1>3 DEF IInv, Phase, Queued
<1>7. OneOwner' /\ CancelledAfterAdd' /\ CancelSticks'
  BY <1>1, <1>3, <1>4 DEF IInv, OneOwner, CancelledAfterAdd, CancelSticks
<1>8. AlarmCovers'
  BY <1>1 DEF AlarmCovers
<1> QED
  BY <1>5, <1>6, <1>7, <1>8 DEF IInv

\* reset puts the timers that repeat back, except those cancelled meanwhile,
\* deletes the others and sets the timerfd to the earliest.
LEMMA ResetStep == IInv /\ Reset => IInv'
<1> SUFFICES ASSUME IInv, Reset PROVE IInv'
  OBVIOUS
<1>1. Types /\ OneOwner
  BY DEF IInv
<1>2. /\ timer' \in Seq(TimerRec) /\ Created' = Created
      /\ Live' = (Live \ expired) \cup Repeating
      /\ \A t \in Live' : timer'[t].when \in Int
  BY <1>1, ResetTimers
<1>3. /\ functors' = functors /\ timers' = timers \cup Repeating
      /\ activeTimers' = activeTimers \cup Repeating
      /\ expired' = {} /\ canceling' = {} /\ lag' = 0 /\ pc' = "loop"
      /\ todo = {} /\ todo' = todo /\ reported' = reported
      /\ cancelled' = cancelled /\ nadjust' = nadjust
  BY DEF Reset
<1>4. Adding' = Adding /\ Repeating \subseteq expired
      /\ Repeating \cap canceling = {}
  BY <1>3 DEF Adding, Repeating
<1>5. OneOwner'
  BY <1>1, <1>2, <1>3, <1>4 DEF OneOwner
<1>6. Phase' /\ Queued'
  BY <1>2, <1>3 DEF IInv, Phase, Queued
<1>7. CancelledAfterAdd' /\ CancelSticks'
  BY <1>2, <1>3, <1>4 DEF IInv, CancelledAfterAdd, CancelSticks
<1>8. timers' \subseteq Live'
  BY <1>5 DEF OneOwner
<1>9. AlarmCovers' /\ alarm' \in Nat /\ readable' \in BOOLEAN
  <2>1. CASE timers' = {}
    <3>1. alarm' = alarm /\ readable' = readable
      BY <2>1 DEF Reset
    <3> QED
      BY <1>1, <2>1, <3>1 DEF AlarmCovers, Types
  <2>2. CASE timers' # {}
    <3>1. PICK s \in timers' :
            /\ \A t \in timers' : timer'[s].when <= timer'[t].when
            /\ ResetTimerfd(timer'[s].when)
      BY <2>2 DEF Reset
    <3>2. alarm' = HowMuchTimeFromNow(timer'[s].when)
      BY <3>1 DEF ResetTimerfd
    <3>3. readable' \in BOOLEAN
      BY <3>1, Zenon DEF ResetTimerfd
    <3>4. timer'[s].when \in Int
      BY <1>2, <1>8
    <3>5. alarm' \in Nat /\ alarm' > 0
      BY <3>2, <3>4 DEF HowMuchTimeFromNow, LaterOf
    <3>6. ASSUME NEW t \in timers'
          PROVE  alarm' <= HowMuchTimeFromNow(timer'[t].when)
      <4>1. timer'[t].when \in Int /\ timer'[s].when <= timer'[t].when
        BY <1>2, <1>8, <3>1
      <4> QED
        BY <3>2, <3>4, <4>1 DEF HowMuchTimeFromNow, LaterOf
    <3> QED
      BY <3>3, <3>5, <3>6, Zenon DEF AlarmCovers, HowMuchTimeFromNow, LaterOf
  <2> QED
    BY <2>1, <2>2
<1>10. Types'
  BY <1>1, <1>2, <1>3, <1>9 DEF Types
<1> QED
  BY <1>5, <1>6, <1>7, <1>9, <1>10 DEF IInv

\* A new Timer that another thread has added by a functor is owned by it.
LEMMA QueueAddStep == IInv /\ QueueAdd => IInv'
<1> SUFFICES ASSUME IInv, QueueAdd PROVE IInv'
  OBVIOUS
<1> DEFINE n == Len(timer) + 1
<1>1. PICK d \in Delays, i \in Intervals, a \in 1 .. MaxTimers :
        NewTimer(d, i, a)
  BY DEF QueueAdd
<1>2. Types /\ Queued
  BY DEF IInv
<1>3. /\ timer' \in Seq(TimerRec) /\ n \notin Created
      /\ Created' = Created \cup {n} /\ Live' = Live \cup {n}
      /\ \A s \in Created : timer'[s] = timer[s]
  BY <1>1, <1>2, NewTimers
<1>4. n \in Nat
  BY <1>2 DEF Types
<1>5. functors' = Append(functors, Add(n))
  BY DEF QueueAdd
<1> HIDE DEF n
<1>6. /\ timers' = timers /\ activeTimers' = activeTimers
      /\ canceling' = canceling /\ pc' = pc /\ expired' = expired
      /\ todo' = todo /\ lag' = lag /\ alarm' = alarm
      /\ readable' = readable /\ reported' = reported
      /\ cancelled' = cancelled /\ nadjust' = nadjust
  BY DEF QueueAdd, setvars, fdvars
<1>7. Add(n) \in FunctorRec /\ Add(n).op = "add" /\ Add(n).timer = n
  BY <1>4 DEF Add, FunctorRec
<1>8. n \notin Adding
  BY <1>3, Owned
<1>9. /\ functors' \in Seq(FunctorRec) /\ Queued'
      /\ Adding' = Adding \cup {n}
  <2>1. n \in Created' /\ Created \subseteq Created'
    BY <1>3
  <2> QED
    BY <1>2, <1>5, <1>7, <1>8, <2>1, QueueFunctor
<1>10. Types'
  BY <1>2, <1>3, <1>6, <1>9 DEF Types
<1>11. Phase'
  BY <1>6 DEF IInv, Phase
<1>12. OneOwner'
  BY <1>3, <1>6, <1>9, Owned DEF IInv, OneOwner
<1>13. CancelledAfterAdd' /\ CancelSticks'
  BY <1>3, <1>6, <1>9 DEF IInv, CancelledAfterAdd, CancelSticks
<1>14. AlarmCovers'
  <2>1. \A t \in timers' : t \in timers /\ timer'[t] = timer[t]
    BY <1>3, <1>6, Owned
  <2>2. AlarmCovers
    BY DEF IInv
  <2> QED
    BY <1>6, <2>1, <2>2, Zenon DEF AlarmCovers, HowMuchTimeFromNow, LaterOf
<1> QED
  BY <1>9, <1>10, <1>11, <1>12, <1>13, <1>14 DEF IInv

\* A queued cancel is about a Timer that exists, and touches none.
LEMMA QueueCancelStep == IInv /\ QueueCancel => IInv'
<1> SUFFICES ASSUME IInv, QueueCancel PROVE IInv'
  OBVIOUS
<1>1. PICK s \in Created : functors' = Append(functors, Cancel(s))
  BY DEF QueueCancel
<1>2. Types /\ Queued
  BY DEF IInv
<1>3. s \in Nat
  BY <1>2 DEF Types, Created
<1>4. /\ timer' = timer /\ timers' = timers /\ activeTimers' = activeTimers
      /\ canceling' = canceling /\ pc' = pc /\ expired' = expired
      /\ todo' = todo /\ lag' = lag /\ alarm' = alarm
      /\ readable' = readable /\ reported' = reported
      /\ cancelled' = cancelled /\ nadjust' = nadjust
  BY DEF QueueCancel, setvars, fdvars
<1>5. Created' = Created /\ Live' = Live
  BY <1>4, SameTimers
<1>6. Cancel(s) \in FunctorRec /\ Cancel(s).op # "add" /\ Cancel(s).timer = s
  BY <1>3 DEF Cancel, FunctorRec
<1>7. functors' \in Seq(FunctorRec) /\ Queued' /\ Adding' = Adding
  BY <1>1, <1>2, <1>5, <1>6, QueueFunctor
<1>8. Types' /\ Phase'
  BY <1>2, <1>4, <1>7 DEF IInv, Types, Phase
<1>9. OneOwner' /\ CancelledAfterAdd' /\ CancelSticks'
  BY <1>4, <1>5, <1>7 DEF IInv, OneOwner, CancelledAfterAdd, CancelSticks
<1>10. AlarmCovers'
  BY <1>4, Zenon DEF IInv, AlarmCovers, HowMuchTimeFromNow, LaterOf
<1> QED
  BY <1>7, <1>8, <1>9, <1>10 DEF IInv

\* A functor hands the Timer over to the two sets, or cancels one that was
\* added, because its add comes before it in the queue or was made in a
\* callback.
LEMMA RunFunctorStep == IInv /\ RunFunctor => IInv'
<1> SUFFICES ASSUME IInv, RunFunctor PROVE IInv'
  OBVIOUS
<1> DEFINE s == Head(functors).timer
<1>1. Types /\ Queued /\ functors # <<>> /\ functors' = Tail(functors)
  BY DEF IInv, RunFunctor
<1>2. /\ pc' = pc /\ expired' = expired /\ todo' = todo /\ lag' = lag
      /\ reported' = reported /\ nadjust' = nadjust
  BY DEF RunFunctor
<1>3. ASSUME Head(functors).op = "add", AddTimerInLoop(s, timer[s].when),
             timer' = timer, canceling' = canceling, cancelled' = cancelled
      PROVE  IInv'
  <2>1. Created' = Created /\ Live' = Live
    BY <1>3, SameTimers
  <2>2. /\ functors' \in Seq(FunctorRec) /\ Queued'
        /\ s \in Created /\ s \in Adding /\ Adding' = Adding \ {s}
    BY <1>1, <1>3, <2>1, NextFunctor
  <2> HIDE DEF s
  <2>3. timers' = timers \cup {s} /\ activeTimers' = activeTimers \cup {s}
    BY <1>3 DEF AddTimerInLoop
  <2>4. AlarmCovers' /\ alarm' \in Nat /\ readable' \in BOOLEAN
    <3>1. \A t \in timers : timer'[t] = timer[t] /\ timer[t].when \in Int
      BY <1>3, Owned
    <3>2. timer[s].when \in Int /\ timer'[s].when = timer[s].when
      BY <1>3, <2>2, Owned
    <3> QED
      BY <1>2, <1>3, <3>1, <3>2, AddSetsAlarm
  <2>5. Types' /\ Phase'
    BY <1>1, <1>2, <1>3, <2>2, <2>4 DEF IInv, Types, Phase
  <2>6. OneOwner'
    BY <1>2, <2>1, <2>2, <2>3 DEF IInv, OneOwner
  <2>7. CancelledAfterAdd' /\ CancelSticks'
    BY <1>2, <1>3, <2>1, <2>2, <2>3
    DEF IInv, CancelledAfterAdd, CancelSticks
  <2> QED
    BY <2>2, <2>4, <2>5, <2>6, <2>7 DEF IInv
<1>4. ASSUME Head(functors).op = "cancel", CancelInLoop(s),
             alarm' = alarm, readable' = readable
      PROVE  IInv'
  <2>1. s \in Created
    BY <1>1 DEF Types, Queued
  <2>2. Created' = Created
    BY <1>1, <1>4, <2>1, CancelTimers DEF IInv
  <2>3. functors' \in Seq(FunctorRec) /\ Queued' /\ Adding' = Adding
    BY <1>1, <1>4, <2>2, NextFunctor
  <2> HIDE DEF s
  <2>4. /\ Types' /\ Phase' /\ OneOwner' /\ CancelledAfterAdd'
        /\ CancelSticks' /\ AlarmCovers'
    BY <1>2, <1>4, <2>1, <2>3, CancelKeeps
  <2> QED
    BY <2>3, <2>4 DEF IInv
<1> QED
  BY <1>3, <1>4 DEF RunFunctor

\* A timer that a callback adds is entered in both sets at once.
LEMMA AddInCallbackStep == IInv /\ AddInCallback => IInv'
<1> SUFFICES ASSUME IInv, AddInCallback PROVE IInv'
  OBVIOUS
<1> DEFINE n == Len(timer) + 1
<1>1. PICK d \in Delays, i \in Intervals, a \in 1 .. MaxTimers :
        NewTimer(d, i, a) /\ AddTimerInLoop(n, d)
  BY DEF AddInCallback
<1>2. Types
  BY DEF IInv
<1>3. /\ timer' \in Seq(TimerRec) /\ n \notin Created
      /\ Created' = Created \cup {n} /\ Live' = Live \cup {n}
      /\ \A s \in Created : timer'[s] = timer[s]
      /\ timer'[n].when = d /\ d \in Int
  BY <1>1, <1>2, NewTimers
<1> HIDE DEF n
<1>4. /\ functors' = functors /\ canceling' = canceling /\ pc' = pc
      /\ expired' = expired /\ todo' = todo /\ lag' = lag
      /\ reported' = reported /\ cancelled' = cancelled
      /\ nadjust' = nadjust
  BY DEF AddInCallback
<1>5. timers' = timers \cup {n} /\ activeTimers' = activeTimers \cup {n}
  BY <1>1 DEF AddTimerInLoop
<1>6. Adding' = Adding
  BY <1>4 DEF Adding
<1>7. AlarmCovers' /\ alarm' \in Nat /\ readable' \in BOOLEAN
  <2>1. \A t \in timers : timer'[t] = timer[t] /\ timer[t].when \in Int
    BY <1>3, Owned
  <2> QED
    BY <1>1, <1>3, <1>4, <2>1, AddSetsAlarm
<1>8. Types' /\ Phase'
  BY <1>2, <1>3, <1>4, <1>7 DEF IInv, Types, Phase
<1>9. Queued'
  BY <1>3, <1>4 DEF IInv, Queued
<1>10. OneOwner'
  BY <1>3, <1>4, <1>5, <1>6, Owned DEF IInv, OneOwner
<1>11. CancelledAfterAdd' /\ CancelSticks'
  BY <1>3, <1>4, <1>5, <1>6 DEF IInv, CancelledAfterAdd, CancelSticks
<1> QED
  BY <1>7, <1>8, <1>9, <1>10, <1>11 DEF IInv

\* A callback may cancel any timer: one that waits, one that is still to be
\* called, or its own.
LEMMA CancelInCallbackStep == IInv /\ CancelInCallback => IInv'
<1> SUFFICES ASSUME IInv, CancelInCallback PROVE IInv'
  OBVIOUS
<1>1. PICK s \in Created : CancelInLoop(s)
  BY DEF CancelInCallback
<1>2. /\ functors' = functors /\ pc' = pc /\ expired' = expired
      /\ todo' = todo /\ lag' = lag /\ alarm' = alarm
      /\ readable' = readable /\ reported' = reported
      /\ nadjust' = nadjust
  BY DEF CancelInCallback, fdvars
<1>3. functors' \in Seq(FunctorRec) /\ Adding' = Adding
  BY <1>2 DEF IInv, Types, Adding
<1>4. /\ Types' /\ Phase' /\ Created' = Created /\ OneOwner'
      /\ CancelledAfterAdd' /\ CancelSticks' /\ AlarmCovers'
  BY <1>1, <1>2, <1>3, CancelKeeps
<1>5. Queued'
  BY <1>2, <1>4 DEF IInv, Queued
<1> QED
  BY <1>4, <1>5 DEF IInv

\* Nothing happens.
LEMMA StutterStep == IInv /\ UNCHANGED vars => IInv'
<1> SUFFICES ASSUME IInv, UNCHANGED vars PROVE IInv'
  OBVIOUS
<1>1. /\ timer' = timer /\ functors' = functors /\ timers' = timers
      /\ activeTimers' = activeTimers /\ canceling' = canceling /\ pc' = pc
      /\ expired' = expired /\ todo' = todo /\ lag' = lag /\ alarm' = alarm
      /\ readable' = readable /\ reported' = reported
      /\ cancelled' = cancelled /\ nadjust' = nadjust
  BY DEF vars
<1>2. Created' = Created /\ Live' = Live /\ Adding' = Adding
  BY <1>1, SameTimers DEF Adding
<1>3. Types' /\ Phase' /\ Queued'
  BY <1>1, <1>2 DEF IInv, Types, Phase, Queued
<1>4. OneOwner' /\ CancelledAfterAdd' /\ CancelSticks'
  BY <1>1, <1>2 DEF IInv, OneOwner, CancelledAfterAdd, CancelSticks
<1>5. AlarmCovers'
  BY <1>1, Zenon DEF IInv, AlarmCovers, HowMuchTimeFromNow, LaterOf
<1> QED
  BY <1>3, <1>4, <1>5 DEF IInv

-----------------------------------------------------------------------------
(* The theorems. *)

\* The invariant holds in all states of the timer queue.
THEOREM Invariance == Spec => []IInv
<1>1. IInv /\ [Next]_vars => IInv'
  BY TickStep, AdjustStep, PollStep, QueueAddStep, QueueCancelStep,
     RunFunctorStep, AddInCallbackStep, CancelInCallbackStep, HandleReadStep,
     CallStep, ResetStep, StutterStep
  DEF Next
<1> QED
  BY InitIInv, <1>1, PTL DEF Spec

\* Every Timer has one owner, whoever adds and cancels: none is deleted twice,
\* none is called after it was deleted, and none leaks.
THEOREM AlwaysOneOwner == Spec => []OneOwner
<1>1. IInv => OneOwner
  BY DEF IInv
<1> QED
  BY Invariance, <1>1, PTL

\* A timer that was cancelled after it was added is never started again.
THEOREM CancelAlwaysSticks == Spec => []CancelSticks
<1>1. IInv => CancelSticks
  BY DEF IInv
<1> QED
  BY Invariance, <1>1, PTL

\* While a timer waits the timerfd is set, and early enough unless the wall
\* clock was changed: the loop cannot sleep past a timer.
THEOREM AlarmAlwaysCovers == Spec => []AlarmCovers
<1>1. IInv => AlarmCovers
  BY DEF IInv
<1> QED
  BY Invariance, <1>1, PTL
=============================================================================
