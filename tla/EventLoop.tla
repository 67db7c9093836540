----------------------------- MODULE EventLoop -----------------------------
(***************************************************************************)
(* EventLoop and the EventLoopThread that runs it.  Every component above  *)
(* relies on its functor queue: runInLoop from another thread, completeTask*)
(* from the untar threads, submitDecompressTask from the fetcher's thread. *)
(* The loop thread sleeps in epoll_wait; a functor that is queued must wake*)
(* it through an eventfd, unless the loop is sure to look at the queue     *)
(* before it sleeps again.  quit() sets a flag and wakes the loop too.     *)
(*                                                                         *)
(* Functors are numbered as they enter the queue.  epoll_wait also returns *)
(* on a timeout, but no property may rest on that.  Which channels have an *)
(* event is left to the outside and to the callbacks here; module Reactor  *)
(* adds the channels, and with them what callbacks and functors do.        *)
(***************************************************************************)
EXTENDS Naturals, Sequences

CONSTANTS Threads,     \* threads that call queueInLoop from outside
          Channels,    \* channels other than the loop's own wakeupChannel_
          MaxFunctors  \* bound: functors queued

ASSUME LoopAssumption == MaxFunctors \in Nat /\ "wakeup" \notin Channels

VARIABLES
  pc,       \* where the loop thread is
  looping,  \* looping_
  quit,     \* quit_
  pending,  \* pendingFunctors_
  functors, \* doPendingFunctors' local vector, what is left of it
  calling,  \* callingPendingFunctors_
  active,   \* activeChannels_ not handled yet
  wakefd,   \* is the eventfd readable
  io,       \* channels that have an event epoll_wait would report
  tpc,      \* per outside thread: "idle", or "wake" between push and wakeup
  owner,    \* the thread that owns the EventLoopThread
  loopPtr,  \* is EventLoopThread::loop_ set
  nq,       \* functors queued so far
  ran       \* functors run, in order

vars == <<pc, looping, quit, pending, functors, calling, active, wakefd, io,
          tpc, owner, loopPtr, nq, ran>>

Init ==
  /\ pc = "publish" /\ looping = FALSE /\ quit = FALSE
  /\ pending = <<>> /\ functors = <<>> /\ calling = FALSE /\ active = {}
  /\ wakefd = FALSE /\ io = {}
  /\ tpc = [t \in Threads |-> "idle"]
  /\ owner = "start" /\ loopPtr = FALSE /\ nq = 0 /\ ran = <<>>

-----------------------------------------------------------------------------
(* The loop thread: threadFunc and loop(). *)

LoopGoto(s) == pc' = s

\* threadFunc tells startLoop where the loop is, then calls loop().
Publish ==
  /\ pc = "publish" /\ LoopGoto("begin") /\ loopPtr' = TRUE
  /\ UNCHANGED <<looping, quit, pending, functors, calling, active, wakefd, io,
                 tpc, owner, nq, ran>>

\* looping_ = true, and in a second step quit_ = false.
Begin ==
  /\ \/ pc = "begin" /\ LoopGoto("reset") /\ looping' = TRUE /\ UNCHANGED quit
     \/ pc = "reset" /\ LoopGoto("while") /\ quit' = FALSE /\ UNCHANGED looping
  /\ UNCHANGED <<pending, functors, calling, active, wakefd, io, tpc, owner,
                 loopPtr, nq, ran>>

\* while (!quit_); at the end looping_ = false.
While ==
  /\ pc = "while"
  /\ IF quit THEN LoopGoto("exit") /\ looping' = FALSE
             ELSE LoopGoto("poll") /\ UNCHANGED looping
  /\ UNCHANGED <<quit, pending, functors, calling, active, wakefd, io, tpc,
                 owner, loopPtr, nq, ran>>

\* threadFunc clears loop_ and returns.
ThreadEnd ==
  /\ pc = "exit" /\ LoopGoto("done") /\ loopPtr' = FALSE
  /\ UNCHANGED <<looping, quit, pending, functors, calling, active, wakefd, io,
                 tpc, owner, nq, ran>>

Ready == (IF wakefd THEN {"wakeup"} ELSE {}) \cup io

PollReturns ==
  /\ pc = "poll" /\ LoopGoto("events") /\ active' = Ready
  /\ UNCHANGED <<looping, quit, pending, functors, calling, wakefd, io, tpc,
                 owner, loopPtr, nq, ran>>

Poll == Ready # {} /\ PollReturns

\* kPollTimeMs is over.
PollTimeout == Ready = {} /\ PollReturns

\* EventLoop::handleRead empties the eventfd.
HandleWakeup ==
  /\ pc = "events" /\ "wakeup" \in active
  /\ active' = active \ {"wakeup"} /\ wakefd' = FALSE
  /\ UNCHANGED <<pc, looping, quit, pending, functors, calling, io, tpc, owner,
                 loopPtr, nq, ran>>

\* Mutant: a functor that queues another one does not wake the loop.
QueueInLoopSilently ==
  /\ nq < MaxFunctors /\ nq' = nq + 1
  /\ pending' = Append(pending, nq + 1)
  /\ UNCHANGED wakefd

\* queueInLoop called in the loop thread: it wakes the loop only while
\* functors are being called.
QueueInLoop ==
  /\ nq < MaxFunctors /\ nq' = nq + 1
  /\ pending' = Append(pending, nq + 1)
  /\ wakefd' = (wakefd \/ calling)

\* The callbacks of another channel: they may queue a functor, quit the loop,
\* use up events and change what is watched.
HandleIo(c) ==
  /\ pc = "events" /\ c \in active
  /\ active' = active \ {c} /\ io' \in SUBSET Channels
  /\ \/ UNCHANGED <<quit, pending, wakefd, nq>>
     \/ QueueInLoop /\ UNCHANGED quit
     \/ quit' = TRUE /\ UNCHANGED <<pending, wakefd, nq>>
  /\ UNCHANGED <<pc, looping, functors, calling, tpc, owner, loopPtr, ran>>

\* Mutant: the queue is copied, not swapped.
SwapCopies ==
  /\ pc = "events" /\ active = {} /\ LoopGoto("call")
  /\ calling' = TRUE
  /\ functors' = pending /\ UNCHANGED pending
  /\ UNCHANGED <<looping, quit, active, wakefd, io, tpc, owner, loopPtr, nq,
                 ran>>

\* doPendingFunctors takes the whole queue.
Swap ==
  /\ pc = "events" /\ active = {} /\ LoopGoto("call")
  /\ calling' = TRUE
  /\ functors' = pending /\ pending' = <<>>
  /\ UNCHANGED <<looping, quit, active, wakefd, io, tpc, owner, loopPtr, nq,
                 ran>>

\* One functor; it may queue another one and change what is watched.
CallFunctor ==
  /\ pc = "call" /\ functors # <<>> /\ io' \in SUBSET Channels
  /\ functors' = Tail(functors) /\ ran' = Append(ran, Head(functors))
  /\ QueueInLoop \/ UNCHANGED <<pending, wakefd, nq>>
  /\ UNCHANGED <<pc, looping, quit, calling, active, tpc, owner, loopPtr>>

CallsDone ==
  /\ pc = "call" /\ functors = <<>> /\ LoopGoto("while")
  /\ calling' = FALSE
  /\ UNCHANGED <<looping, quit, pending, functors, active, wakefd, io, tpc,
                 owner, loopPtr, nq, ran>>

-----------------------------------------------------------------------------
(* Other threads. *)

\* queueInLoop, or runInLoop, from outside: push under the mutex ...
Push(t) ==
  /\ tpc[t] = "idle" /\ loopPtr /\ nq < MaxFunctors
  /\ nq' = nq + 1 /\ pending' = Append(pending, nq + 1)
  /\ tpc' = [tpc EXCEPT ![t] = "wake"]
  /\ UNCHANGED <<pc, looping, quit, functors, calling, active, wakefd, io,
                 owner, loopPtr, ran>>

\* ... then wakeup.
Wakeup(t) ==
  /\ tpc[t] = "wake" /\ tpc' = [tpc EXCEPT ![t] = "idle"]
  /\ wakefd' = TRUE
  /\ UNCHANGED <<pc, looping, quit, pending, functors, calling, active, io,
                 owner, loopPtr, nq, ran>>

\* startLoop returns once loop_ is set.
StartLoop ==
  /\ owner = "start" /\ loopPtr /\ owner' = "running"
  /\ UNCHANGED <<pc, looping, quit, pending, functors, calling, active, wakefd,
                 io, tpc, loopPtr, nq, ran>>

\* ~EventLoopThread: quit(), which gives up when the loop has not begun, or
\* nothing when loop_ is null.
Destroy ==
  /\ owner = "running"
  /\ IF loopPtr /\ (looping \/ quit)
       THEN owner' = "wake" /\ quit' = TRUE
       ELSE owner' = (IF loopPtr THEN "join" ELSE "gone") /\ UNCHANGED quit
  /\ UNCHANGED <<pc, looping, pending, functors, calling, active, wakefd, io,
                 tpc, loopPtr, nq, ran>>

\* Mutant: quit() leaves the loop asleep.
QuitSilently ==
  /\ owner = "wake" /\ owner' = "join" /\ UNCHANGED wakefd
  /\ UNCHANGED <<pc, looping, quit, pending, functors, calling, active, io, tpc,
                 loopPtr, nq, ran>>

\* quit()'s wakeup; the destructor goes on to join.
QuitWakeup ==
  /\ owner = "wake" /\ owner' = "join" /\ wakefd' = TRUE
  /\ UNCHANGED <<pc, looping, quit, pending, functors, calling, active, io, tpc,
                 loopPtr, nq, ran>>

\* Something happens on other file descriptors (external).
IoEvent ==
  /\ io' \in SUBSET Channels
  /\ UNCHANGED <<pc, looping, quit, pending, functors, calling, active, wakefd,
                 tpc, owner, loopPtr, nq, ran>>

-----------------------------------------------------------------------------
Next ==
  \/ Publish \/ Begin \/ While \/ ThreadEnd \/ Poll \/ PollTimeout
  \/ HandleWakeup \/ Swap \/ CallFunctor \/ CallsDone
  \/ \E t \in Threads : Push(t) \/ Wakeup(t)
  \/ StartLoop \/ Destroy \/ QuitWakeup \/ IoEvent
  \/ \E c \in Channels : HandleIo(c)

\* Threads run; nothing forces a timeout, an event, a functor or the end.
Fairness ==
  /\ WF_vars(Publish) /\ WF_vars(Begin) /\ WF_vars(While) /\ WF_vars(ThreadEnd)
  /\ WF_vars(Poll)
  /\ WF_vars(HandleWakeup) /\ WF_vars(Swap)
  /\ \A c \in Channels : WF_vars(HandleIo(c))
  /\ WF_vars(CallFunctor) /\ WF_vars(CallsDone) /\ WF_vars(QuitWakeup)
  /\ WF_vars(StartLoop) /\ \A t \in Threads : WF_vars(Wakeup(t))

Spec == Init /\ [][Next]_vars

FairSpec == Spec /\ Fairness

-----------------------------------------------------------------------------
(* Properties. *)

FlagsOK ==
  /\ looping \in BOOLEAN /\ quit \in BOOLEAN /\ calling \in BOOLEAN
  /\ wakefd \in BOOLEAN /\ loopPtr \in BOOLEAN
  /\ tpc \in [Threads -> {"idle", "wake"}]
  /\ pc \in {"publish", "begin", "reset", "while", "poll", "events", "call",
             "exit", "done"}
  /\ owner \in {"start", "running", "wake", "join", "gone"}

QueuesOK ==
  /\ pending \in Seq(Nat) /\ functors \in Seq(Nat) /\ ran \in Seq(Nat)
  /\ active \in SUBSET ({"wakeup"} \cup Channels) /\ io \in SUBSET Channels
  /\ nq \in 0 .. MaxFunctors

\* All variables stay in their domains.
TypeOK == FlagsOK /\ QueuesOK

\* Functors run in the order they were queued, each once, and none is lost
\* on the way between pendingFunctors_ and the vector it is swapped into.
InOrderOnce ==
  ran \o functors \o pending = [n \in 1 .. nq |-> n]

Waking == \E t \in Threads : tpc[t] = "wake"

\* The loop never sleeps on work: when it waits in epoll_wait and the eventfd
\* is empty, there is no functor and no quit it has not seen, or the thread
\* that left it is about to call wakeup.
NeverSleepsOnWork ==
  pc = "poll" /\ ~wakefd /\ io = {} =>
    /\ pending # <<>> => Waking
    /\ quit => owner = "wake"

\* Why: outside of the event handlers, which are followed by a look at the
\* queue, a queued functor has made the eventfd readable or is about to.
LoopAwake ==
  /\ calling <=> pc = "call"
  /\ pc # "call" => functors = <<>>
  /\ pc # "events" /\ pending # <<>> => wakefd \/ Waking
  /\ pc = "poll" /\ quit => wakefd \/ owner = "wake"

\* The inductive invariant: no functor lost, none slept on.
LoopInv == TypeOK /\ InOrderOnce /\ LoopAwake

\* Every functor is run in the end (there are only MaxFunctors), without the
\* help of the poll timeout, unless the loop is quit.
AllRun == []<>(Len(ran) = nq \/ pc = "done")

\* A quit that the loop has not reset ends it, and the destructor's join
\* returns: quit_ = true after quit_ = false is never lost.
QuitEnds ==
  (quit /\ pc \notin {"publish", "begin", "reset"}) ~> (pc = "done")
=============================================================================
