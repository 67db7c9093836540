--------------------------- MODULE Reactor_proofs ---------------------------
(***************************************************************************)
(* First the loop itself, for any number of threads and functors and any   *)
(* callbacks: functors run in order and once each, and the loop never      *)
(* sleeps on work.  Reactor implements EventLoop: every step of a loop with*)
(* real channels, connections and functors is a step of the loop that      *)
(* EventLoop describes, so what is shown for any callbacks holds for these.*)
(*                                                                         *)
(* On top of the loop's invariant, RInv relates each connection to its     *)
(* registration with the Poller and the kernel and to the functors that    *)
(* wait for it.  From it follow RegistrationOK (no assertion of Poller,    *)
(* Channel or TcpConnection fails) and NoDangling (epoll, the batch of     *)
(* events and the functors never lead to a connection that is gone).       *)
(***************************************************************************)
EXTENDS Reactor, TLAPS
-----------------------------------------------------------------------------
(* EventLoop. *)

\* Appending to the last of three sequences appends to their concatenation.
LEMMA AppendLast ==
  ASSUME NEW r \in Seq(Nat), NEW f \in Seq(Nat), NEW p \in Seq(Nat),
         NEW x \in Nat
  PROVE  r \o f \o Append(p, x) = Append(r \o f \o p, x)
  BY SMT

\* Taking the head of the second sequence to the end of the first leaves the
\* concatenation as it is.
LEMMA MoveOver ==
  ASSUME NEW r \in Seq(Nat), NEW f \in Seq(Nat), f # <<>>
  PROVE  Append(r, Head(f)) \o Tail(f) = r \o f
  BY SMT

\* An empty sequence in the middle can change places with the last one.
LEMMA SwapEmpty ==
  ASSUME NEW r \in Seq(Nat), NEW p \in Seq(Nat)
  PROVE  r \o p \o <<>> = r \o <<>> \o p
  BY SMT

\* The list of the first n + 1 numbers.
LEMMA CountUp ==
  ASSUME NEW n \in Nat
  PROVE  Append([k \in 1 .. n |-> k], n + 1) = [k \in 1 .. n + 1 |-> k]
  BY SMT

-----------------------------------------------------------------------------
\* A loop that has just been created satisfies the invariant.
LEMMA InitLoopInv == Init => LoopInv
  <1> SUFFICES ASSUME Init PROVE LoopInv
    OBVIOUS
  <1> USE LoopAssumption DEF Init
  <1>1. FlagsOK
    BY Zenon DEF FlagsOK
  <1>4. QueuesOK
    BY SMT DEF QueuesOK
  <1>2. InOrderOnce
    BY SMT DEF InOrderOnce
  <1>3. LoopAwake
    BY DEF LoopAwake
  <1> QED
    BY <1>1, <1>2, <1>3, <1>4 DEF LoopInv, TypeOK

\* Every step keeps the flags and the program counters in their domains.
LEMMA NextFlagsOK == LoopInv /\ [Next]_vars => FlagsOK'
  <1> SUFFICES ASSUME LoopInv, [Next]_vars PROVE FlagsOK'
    OBVIOUS
  <1> USE DEF LoopInv, TypeOK, FlagsOK, LoopGoto
  <1>1. CASE Publish
    BY <1>1, Zenon DEF Publish
  <1>2. CASE Begin
    BY <1>2, Zenon DEF Begin
  <1>3. CASE While \/ ThreadEnd
    BY <1>3, Zenon DEF While, ThreadEnd
  <1>4. CASE Poll
    BY <1>4, Zenon DEF Poll, PollReturns, Ready
  <1>5. CASE PollTimeout
    BY <1>5, Zenon DEF PollTimeout, PollReturns, Ready
  <1>6. CASE HandleWakeup
    BY <1>6, Zenon DEF HandleWakeup
  <1>7. CASE \E c \in Channels : HandleIo(c)
    BY <1>7, Zenon DEF HandleIo, QueueInLoop
  <1>8. CASE Swap
    BY <1>8, Zenon DEF Swap
  <1>9. CASE CallFunctor
    BY <1>9, Zenon DEF CallFunctor, QueueInLoop
  <1>10. CASE CallsDone
    BY <1>10, Zenon DEF CallsDone
  <1>11. CASE \E t \in Threads : Push(t)
    BY <1>11, Zenon DEF Push
  <1>12. CASE \E t \in Threads : Wakeup(t)
    BY <1>12, Zenon DEF Wakeup
  <1>13. CASE StartLoop
    BY <1>13, Zenon DEF StartLoop
  <1>14. CASE Destroy
    BY <1>14, Zenon DEF Destroy
  <1>15. CASE QuitWakeup
    BY <1>15, Zenon DEF QuitWakeup
  <1>16. CASE IoEvent
    BY <1>16, Zenon DEF IoEvent
  <1>17. CASE UNCHANGED vars
    BY <1>17, Zenon DEF vars
  <1> QED
    BY <1>1, <1>2, <1>3, <1>4, <1>5, <1>6, <1>7, <1>8, <1>9, <1>10,
       <1>11, <1>12, <1>13, <1>14, <1>15, <1>16, <1>17 DEF Next

\* Every step keeps the queues and the counters in their domains.
LEMMA NextQueuesOK == LoopInv /\ [Next]_vars => QueuesOK'
  <1> SUFFICES ASSUME LoopInv, [Next]_vars PROVE QueuesOK'
    OBVIOUS
  <1> USE LoopAssumption DEF LoopInv, TypeOK, QueuesOK, LoopGoto
  <1>1. CASE Publish
    BY <1>1 DEF Publish
  <1>2. CASE Begin
    BY <1>2 DEF Begin
  <1>3. CASE While \/ ThreadEnd
    BY <1>3 DEF While, ThreadEnd
  <1>4. CASE Poll
    BY <1>4 DEF Poll, PollReturns, Ready
  <1>5. CASE PollTimeout
    BY <1>5 DEF PollTimeout, PollReturns, Ready
  <1>6. CASE HandleWakeup
    BY <1>6 DEF HandleWakeup
  <1>7. CASE \E c \in Channels : HandleIo(c)
    <2>1. active' \in SUBSET ({"wakeup"} \cup Channels) /\ io' \in SUBSET Channels
      BY <1>7, Zenon DEF HandleIo
    <2>2. CASE QueueInLoop
      BY <1>7, <2>1, <2>2 DEF HandleIo, QueueInLoop
    <2>3. CASE UNCHANGED <<pending, nq>>
      BY <1>7, <2>1, <2>3 DEF HandleIo
    <2> QED
      BY <1>7, <2>2, <2>3 DEF HandleIo
  <1>8. CASE Swap
    BY <1>8 DEF Swap
  <1>9. CASE CallFunctor
    <2>1. ran' \in Seq(Nat) /\ functors' \in Seq(Nat)
      BY <1>9 DEF CallFunctor
    <2>2. CASE QueueInLoop
      BY <1>9, <2>1, <2>2 DEF CallFunctor, QueueInLoop
    <2>3. CASE UNCHANGED <<pending, nq>>
      BY <1>9, <2>1, <2>3 DEF CallFunctor
    <2> QED
      BY <1>9, <2>2, <2>3 DEF CallFunctor
  <1>10. CASE CallsDone
    BY <1>10 DEF CallsDone
  <1>11. CASE \E t \in Threads : Push(t)
    BY <1>11 DEF Push
  <1>12. CASE \E t \in Threads : Wakeup(t)
    BY <1>12 DEF Wakeup
  <1>13. CASE StartLoop
    BY <1>13 DEF StartLoop
  <1>14. CASE Destroy
    BY <1>14 DEF Destroy
  <1>15. CASE QuitWakeup
    BY <1>15 DEF QuitWakeup
  <1>16. CASE IoEvent
    BY <1>16 DEF IoEvent
  <1>17. CASE UNCHANGED vars
    BY <1>17 DEF vars
  <1> QED
    BY <1>1, <1>2, <1>3, <1>4, <1>5, <1>6, <1>7, <1>8, <1>9, <1>10,
       <1>11, <1>12, <1>13, <1>14, <1>15, <1>16, <1>17 DEF Next

\* Every step keeps the loop from sleeping on work.
LEMMA NextLoopAwake == LoopInv /\ [Next]_vars => LoopAwake'
  <1> SUFFICES ASSUME LoopInv, [Next]_vars PROVE LoopAwake'
    OBVIOUS
  <1> USE DEF LoopInv, LoopAwake, Waking, LoopGoto
  <1>1. CASE Publish
    BY <1>1 DEF Publish
  <1>2. CASE Begin
    BY <1>2 DEF Begin
  <1>3. CASE While \/ ThreadEnd
    BY <1>3 DEF While, ThreadEnd
  <1>4. CASE Poll
    BY <1>4 DEF Poll, PollReturns, Ready
  <1>5. CASE PollTimeout
    BY <1>5 DEF PollTimeout, PollReturns, Ready
  <1>6. CASE HandleWakeup
    BY <1>6 DEF HandleWakeup
  <1>7. CASE \E c \in Channels : HandleIo(c)
    BY <1>7 DEF HandleIo, QueueInLoop
  <1>8. CASE Swap
    BY <1>8 DEF Swap
  <1>9. CASE CallFunctor
    <2>1. calling
      BY <1>9 DEF CallFunctor
    <2>2. CASE QueueInLoop
      <3>1. wakefd'
        BY <2>1, <2>2, Zenon DEF QueueInLoop
      <3> QED
        BY <1>9, <3>1 DEF CallFunctor
    <2>3. CASE UNCHANGED <<pending, wakefd, nq>>
      BY <1>9, <2>3 DEF CallFunctor
    <2> QED
      BY <1>9, <2>2, <2>3 DEF CallFunctor
  <1>10. CASE CallsDone
    BY <1>10 DEF CallsDone
  <1>11. CASE \E t \in Threads : Push(t)
    <2>1. Waking'
      BY <1>11 DEF Push, TypeOK, FlagsOK
    <2> QED
      BY <1>11, <2>1 DEF Push
  <1>12. CASE \E t \in Threads : Wakeup(t)
    BY <1>12 DEF Wakeup
  <1>13. CASE StartLoop
    BY <1>13 DEF StartLoop
  <1>14. CASE Destroy
    BY <1>14 DEF Destroy
  <1>15. CASE QuitWakeup
    BY <1>15 DEF QuitWakeup
  <1>16. CASE IoEvent
    BY <1>16 DEF IoEvent
  <1>17. CASE UNCHANGED vars
    BY <1>17 DEF vars
  <1> QED
    BY <1>1, <1>2, <1>3, <1>4, <1>5, <1>6, <1>7, <1>8, <1>9, <1>10,
       <1>11, <1>12, <1>13, <1>14, <1>15, <1>16, <1>17 DEF Next

\* Queueing a functor, whoever does it, appends its number.
LEMMA QueueKeepsOrder ==
  ASSUME TypeOK, InOrderOnce, nq' = nq + 1, pending' = Append(pending, nq + 1),
         ran' \o functors' = ran \o functors
  PROVE  InOrderOnce'
  <1>0. /\ nq \in Nat /\ nq + 1 \in Nat
        /\ ran \in Seq(Nat) /\ functors \in Seq(Nat) /\ pending \in Seq(Nat)
    BY LoopAssumption DEF TypeOK, QueuesOK
  <1>1. ran \o functors \o Append(pending, nq + 1)
          = Append(ran \o functors \o pending, nq + 1)
    BY <1>0, AppendLast, Zenon
  <1>2. Append([n \in 1 .. nq |-> n], nq + 1) = [n \in 1 .. nq + 1 |-> n]
    BY <1>0, CountUp
  <1> QED
    BY <1>1, <1>2 DEF InOrderOnce

\* Every step keeps the functors in order and loses none.
LEMMA NextInOrderOnce == LoopInv /\ [Next]_vars => InOrderOnce'
  <1> SUFFICES ASSUME LoopInv, [Next]_vars PROVE InOrderOnce'
    OBVIOUS
  <1> USE DEF LoopInv
  <1>1. CASE UNCHANGED <<ran, functors, pending, nq>>
    BY <1>1 DEF InOrderOnce
  <1>2. CASE \E c \in Channels : HandleIo(c)
    BY <1>1, <1>2, QueueKeepsOrder DEF HandleIo, QueueInLoop
  <1>3. CASE Swap
    <2>1. functors = <<>>
      BY <1>3 DEF Swap, LoopAwake
    <2>2. ran \o pending \o <<>> = ran \o <<>> \o pending
      BY SwapEmpty DEF TypeOK, QueuesOK
    <2> QED
      BY <1>3, <2>1, <2>2 DEF Swap, InOrderOnce
  <1>4. CASE CallFunctor
    <2>1. ran' \o functors' = ran \o functors
      BY <1>4, MoveOver DEF CallFunctor, TypeOK, QueuesOK
    <2>2. CASE QueueInLoop
      BY <1>4, <2>1, <2>2, QueueKeepsOrder DEF QueueInLoop
    <2>3. CASE UNCHANGED <<pending, wakefd, nq>>
      BY <2>1, <2>3 DEF InOrderOnce
    <2> QED
      BY <1>4, <2>2, <2>3 DEF CallFunctor
  <1>5. CASE \E t \in Threads : Push(t)
    BY <1>5, QueueKeepsOrder DEF Push
  <1> QED
    BY <1>1, <1>2, <1>3, <1>4, <1>5
    DEF Next, vars, Publish, Begin, While, ThreadEnd, Poll, PollTimeout,
        PollReturns, HandleWakeup, CallsDone, Wakeup, StartLoop, Destroy, QuitWakeup, IoEvent

-----------------------------------------------------------------------------
\* For any number of threads, functors and events: the loop's invariant holds
\* in every state of every run.
THEOREM LoopInvariance == Spec => []LoopInv
  <1>1. Init => LoopInv
    BY InitLoopInv
  <1>2. LoopInv /\ [Next]_vars => LoopInv'
    BY NextFlagsOK, NextQueuesOK, NextLoopAwake, NextInOrderOnce
    DEF LoopInv, TypeOK
  <1> QED
    BY <1>1, <1>2, PTL DEF Spec

\* queueInLoop and doPendingFunctors run every functor at most once and in
\* the order of the queue, and lose none, whatever threads queue them.
THEOREM AlwaysInOrderOnce == Spec => []InOrderOnce
  <1>1. LoopInv => InOrderOnce
    BY DEF LoopInv
  <1> QED
    BY <1>1, LoopInvariance, PTL

\* The loop thread never waits in epoll_wait, with nothing to wake it, while
\* a functor is queued or quit() was called: no wakeup is lost.
THEOREM NeverSleeps == Spec => []NeverSleepsOnWork
  <1>1. LoopInv => NeverSleepsOnWork
    BY DEF LoopInv, LoopAwake, NeverSleepsOnWork
  <1> QED
    BY <1>1, LoopInvariance, PTL
-----------------------------------------------------------------------------
(* Reactor implements it. *)

\* A step of the loop thread, with its callbacks, is a step of EventLoop.
LEMMA LoopStepIsNext == LoopStep => Next
  <1>1. ASSUME NEW c \in Conns, HandleEvent(c) PROVE Next
    <2>1. c \in Channels
      BY ReactorAssumption
    <2> QED
      BY <1>1, <2>1 DEF HandleEvent, Next
  <1>2. ASSUME AcceptorHandleRead PROVE Next
    <2>1. Acceptor \in Channels
      BY ReactorAssumption
    <2> QED
      BY <1>2, <2>1 DEF AcceptorHandleRead, Next
  <1> QED
    BY <1>1, <1>2 DEF LoopStep, PollChannels, RunFunctor, FunctorsDone, Next

\* Reactor implements EventLoop, with the state they share mapped to itself.
THEOREM ReactorImplementsLoop == RSpec => Spec
  <1>1. RInit => Init
    BY DEF RInit
  <1>2. [RNext]_allVars => [Next]_vars
    <2>1. ASSUME RNext PROVE Next
      BY <2>1, LoopStepIsNext
      DEF RNext, FreeStep, OwnerStep, WakeupStep, PushCompleteTask, Peer, Next
    <2>2. UNCHANGED allVars => UNCHANGED vars
      BY DEF allVars, vars
    <2> QED
      BY <2>1, <2>2
  <1> QED
    BY <1>1, <1>2, PTL DEF RSpec, Spec

\* With connections that come and go, functors still run in order, each once.
THEOREM ReactorInOrderOnce == RSpec => []InOrderOnce
  BY ReactorImplementsLoop, AlwaysInOrderOnce, PTL

\* With connections that come and go, the loop never sleeps on a functor or a
\* quit.
THEOREM ReactorNeverSleeps == RSpec => []NeverSleepsOnWork
  BY ReactorImplementsLoop, NeverSleeps, PTL
-----------------------------------------------------------------------------
(* The inductive invariant of connections and channels. *)

\* The Poller, its channels and what epoll holds of them.
Ev == {"IN", "OUT"}
ConnRec ==
  [state : {"none", "connected", "disconnected", "freed"},
   fd : Fds \cup {None}, events : SUBSET Ev,
   index : {"new", "added", "deleted"}, revents : SUBSET (Ev \cup {"HUP"})]
EpollRec == [ptr : Conns, events : SUBSET Ev]
PollerRec ==
  [chan : [Conns -> ConnRec], channels : [Fds -> Conns \cup {None}],
   epoll : [Fds -> EpollRec \cup {None}], ok : BOOLEAN]
PeerState == {"none", "syn", "refused", "open", "closed", "reset"}

\* A Poller none of whose assertions has failed.
IsPoller(p) == p \in PollerRec /\ p.ok = TRUE

\* A functor, and the connection it was bound to.
FunctorRec ==
  [op : {"connectDestroyed", "writeComplete", "completeTask"}, conn : Conns]

\* A connection is registered under its descriptor while it is connected.  One
\* that is closed watches nothing; it stays in the map until connectDestroyed.
Unconnected(p, c) ==
  /\ p.chan[c].state \in {"none", "freed"} /\ p.chan[c].fd = None
  /\ p.chan[c].index = "new"
Connected(p, c) ==
  /\ p.chan[c].state = "connected" /\ p.chan[c].fd \in Fds
  /\ p.chan[c].index = "added" /\ "IN" \in p.chan[c].events
  /\ p.channels[p.chan[c].fd] = c
  /\ p.epoll[p.chan[c].fd] = [ptr |-> c, events |-> p.chan[c].events]
Closed(p, c) ==
  /\ p.chan[c].state = "disconnected" /\ p.chan[c].fd \in Fds
  /\ p.chan[c].events = {} /\ p.epoll[p.chan[c].fd] = None
  /\ \/ p.chan[c].index = "deleted" /\ p.channels[p.chan[c].fd] = c
     \/ p.chan[c].index = "new" /\ p.channels[p.chan[c].fd] = None

\* The Poller, the kernel and the connections agree.
PollerOK(p) ==
  /\ IsPoller(p)
  /\ \A c \in Conns : Unconnected(p, c) \/ Connected(p, c) \/ Closed(p, c)
  /\ \A c, d \in Conns :
       p.chan[c].fd # None /\ p.chan[c].fd = p.chan[d].fd => c = d
  /\ \A f \in Fds :
       p.channels[f] # None \/ p.epoll[f] # None =>
         \E c \in Conns : p.chan[c].fd = f

\* kConnected.
IsConnected(c) == poller.chan[c].state = "connected"

\* The server's map holds the open connections; a peer that was not accepted
\* has none.
Opened ==
  /\ connections \subseteq Conns /\ peer \in [Conns -> PeerState]
  /\ \A c \in Conns :
       /\ c \in connections <=> IsConnected(c)
       /\ peer[c] \in {"none", "syn"} => poller.chan[c].state = "none"

\* Only open connections have events, found now or in the batch at hand.
Watched ==
  /\ \A c \in io \cap Conns : IsConnected(c)
  /\ pc = "events" => \A c \in active \cap Conns : IsConnected(c)

\* The functors that are queued or taken, and not yet called.
Waiting == Len(ran) + 1 .. nq

\* A functor keeps its connection by a shared_ptr of its own or, completeTask,
\* by that of its task.
Bound ==
  /\ functor \in Seq(FunctorRec \cup {None}) /\ Len(functor) = nq
  /\ bound \subseteq 1 .. nq
  /\ \A n \in bound : functor[n] \in FunctorRec /\ Alive(functor[n].conn)
  /\ \A n \in Waiting :
       /\ functor[n] \in FunctorRec
       /\ IF functor[n].op = "completeTask"
            THEN tasks[functor[n].conn] = "pushed" ELSE n \in bound

\* connectDestroyed is called once for a connection that was closed.
Closing ==
  /\ \A n \in Waiting : functor[n].op = "connectDestroyed" =>
       poller.chan[functor[n].conn].index = "deleted"
  /\ \A c \in Conns : poller.chan[c].index = "deleted" =>
       \E n \in Waiting :
         functor[n].op = "connectDestroyed" /\ functor[n].conn = c
  /\ \A m, n \in Waiting :
       /\ functor[m].op = functor[n].op /\ functor[m].conn = functor[n].conn
       /\ functor[m].op # "writeComplete"
       => m = n

\* A task keeps its connection.
TasksOK ==
  /\ tasks \in [Conns -> {"none", "held", "pushed", "done"}]
  /\ \A c \in Conns : tasks[c] \in {"held", "pushed"} => Alive(c)

\* The invariant of the reactor.
RInv ==
  PollerOK(poller) /\ Opened /\ Watched /\ Bound /\ Closing /\ TasksOK

-----------------------------------------------------------------------------
(* What the Poller's operations do.  A record p becomes q. *)

\* None is not a descriptor, and the Acceptor not a connection.
LEMMA NoneIsNoFd ==
  None \notin Fds /\ None \notin Conns /\ Acceptor \notin Conns
  BY ReactorAssumption

\* An assertion that holds changes nothing.
LEMMA CheckHolds ==
  ASSUME NEW p, IsPoller(p), NEW a, a
  PROVE  Check(p, a) = p
<1>1. (p.ok /\ a) = TRUE
  BY DEF IsPoller
<1>2. Check(p, a) = [p EXCEPT !.ok = TRUE]
  BY <1>1, Zenon DEF Check
<1> QED
  BY <1>2 DEF IsPoller, PollerRec

\* q differs from p in the channel of c, and in what the map and epoll have
\* for the descriptor f, at most.
Only(p, q, c, f) ==
  /\ IsPoller(q)
  /\ \A d \in Conns \ {c} : q.chan[d] = p.chan[d]
  /\ \A g \in Fds \ {f} :
       q.channels[g] = p.channels[g] /\ q.epoll[g] = p.epoll[g]

\* What happens to one connection does not touch the others.
LEMMA LocalChange ==
  ASSUME NEW p, PollerOK(p), NEW q, NEW c \in Conns, NEW f \in Fds,
         Only(p, q, c, f), q.chan[c].fd = f,
         Connected(q, c) \/ Closed(q, c),
         \/ p.chan[c].fd = f
         \/ p.chan[c].fd = None /\ \A d \in Conns : p.chan[d].fd # f
  PROVE  PollerOK(q)
<1>1. ASSUME NEW d \in Conns, d # c
      PROVE  /\ q.chan[d] = p.chan[d] /\ q.chan[d].fd # f
             /\ Unconnected(q, d) \/ Connected(q, d) \/ Closed(q, d)
  <2>1. q.chan[d] = p.chan[d]
    BY <1>1 DEF Only
  <2>2. q.chan[d].fd # f
    BY <1>1, <2>1, NoneIsNoFd DEF PollerOK
  <2>3. Unconnected(p, d) \/ Connected(p, d) \/ Closed(p, d)
    BY DEF PollerOK
  <2>4. p.chan[d].fd \in Fds =>
          /\ q.channels[p.chan[d].fd] = p.channels[p.chan[d].fd]
          /\ q.epoll[p.chan[d].fd] = p.epoll[p.chan[d].fd]
    BY <2>1, <2>2 DEF Only
  <2> QED
    BY <2>1, <2>2, <2>3, <2>4 DEF Unconnected, Connected, Closed
<1>2. IsPoller(q)
  BY DEF Only
<1>3. \A d \in Conns : Unconnected(q, d) \/ Connected(q, d) \/ Closed(q, d)
  BY <1>1
<1>4. \A d, e \in Conns :
        q.chan[d].fd # None /\ q.chan[d].fd = q.chan[e].fd => d = e
  <2> SUFFICES ASSUME NEW d \in Conns, NEW e \in Conns, d # e,
                      q.chan[d].fd # None
               PROVE  q.chan[d].fd # q.chan[e].fd
    OBVIOUS
  <2>1. CASE d = c \/ e = c
    BY <1>1, <2>1
  <2>2. CASE d # c /\ e # c
    BY <1>1, <2>2 DEF PollerOK
  <2> QED
    BY <2>1, <2>2
<1>5. ASSUME NEW g \in Fds, q.channels[g] # None \/ q.epoll[g] # None
      PROVE  \E d \in Conns : q.chan[d].fd = g
  <2>1. CASE g = f
    BY <2>1
  <2>2. CASE g # f
    <3>1. p.channels[g] # None \/ p.epoll[g] # None
      BY <1>5, <2>2 DEF Only
    <3>2. PICK d \in Conns : p.chan[d].fd = g
      BY <3>1 DEF PollerOK
    <3>3. d # c
      BY <3>2, <2>2, NoneIsNoFd
    <3> QED
      BY <3>2, <3>3, <1>1
  <2> QED
    BY <2>1, <2>2
<1> QED
  BY <1>2, <1>3, <1>4, <1>5 DEF PollerOK

\* epoll_ctl with ADD or MOD.
LEMMA EpollSetDoes ==
  ASSUME NEW p, IsPoller(p), NEW c \in Conns,
         NEW f \in Fds, f = p.chan[c].fd
  PROVE  /\ Only(p, EpollSet(p, c), c, f)
         /\ EpollSet(p, c).chan[c] = p.chan[c]
         /\ EpollSet(p, c).channels = p.channels
         /\ EpollSet(p, c).epoll[f]
              = [ptr |-> c, events |-> p.chan[c].events]
<1> DEFINE r == [ptr |-> c, events |-> p.chan[c].events]
           e == [p.epoll EXCEPT ![f] = r]
<1>1. /\ p.chan \in [Conns -> ConnRec]
      /\ p.epoll \in [Fds -> EpollRec \cup {None}]
      /\ p.channels \in [Fds -> Conns \cup {None}]
  BY DEF IsPoller, PollerRec
<1>2. r \in EpollRec
  BY <1>1 DEF ConnRec, EpollRec
<1>3. /\ e \in [Fds -> EpollRec \cup {None}] /\ e[f] = r
      /\ \A g \in Fds \ {f} : e[g] = p.epoll[g]
  <2> HIDE DEF r
  <2> QED
    BY <1>1, <1>2
<1>4. EpollSet(p, c) = [p EXCEPT !.epoll = e]
  BY DEF EpollSet, IsPoller, PollerRec
<1> HIDE DEF e
<1>5. /\ IsPoller(EpollSet(p, c)) /\ EpollSet(p, c).chan = p.chan
      /\ EpollSet(p, c).channels = p.channels /\ EpollSet(p, c).epoll = e
  BY <1>4, <1>3 DEF IsPoller, PollerRec
<1> QED
  BY <1>5, <1>3 DEF Only

\* epoll_ctl with DEL.
LEMMA EpollDelDoes ==
  ASSUME NEW p, IsPoller(p), NEW c \in Conns,
         NEW f \in Fds, f = p.chan[c].fd
  PROVE  /\ Only(p, EpollDel(p, c), c, f)
         /\ EpollDel(p, c).chan = p.chan
         /\ EpollDel(p, c).channels = p.channels
         /\ EpollDel(p, c).epoll[f] = None
<1> DEFINE e == [p.epoll EXCEPT ![f] = None]
<1>1. p.epoll \in [Fds -> EpollRec \cup {None}]
  BY DEF IsPoller, PollerRec
<1>2. /\ e \in [Fds -> EpollRec \cup {None}] /\ e[f] = None
      /\ \A g \in Fds \ {f} : e[g] = p.epoll[g]
  BY <1>1
<1>3. EpollDel(p, c) = [p EXCEPT !.epoll = e]
  BY DEF EpollDel, IsPoller, PollerRec
<1> HIDE DEF e
<1>4. /\ IsPoller(EpollDel(p, c)) /\ EpollDel(p, c).chan = p.chan
      /\ EpollDel(p, c).channels = p.channels /\ EpollDel(p, c).epoll = e
  BY <1>3, <1>2 DEF IsPoller, PollerRec
<1> QED
  BY <1>4, <1>2 DEF Only

\* Members of one channel are set.
SetChan(p, c, x) == [p EXCEPT !.chan = [p.chan EXCEPT ![c] = x]]

\* Only that channel changes.
LEMMA SetChanDoes ==
  ASSUME NEW p, IsPoller(p), NEW c \in Conns, NEW f \in Fds,
         NEW x \in ConnRec
  PROVE  /\ Only(p, SetChan(p, c, x), c, f) /\ SetChan(p, c, x).chan[c] = x
         /\ SetChan(p, c, x).channels = p.channels
         /\ SetChan(p, c, x).epoll = p.epoll
<1> DEFINE q == SetChan(p, c, x)
           h == [p.chan EXCEPT ![c] = x]
<1>1. p.chan \in [Conns -> ConnRec]
  BY DEF IsPoller, PollerRec
<1>2. /\ h \in [Conns -> ConnRec] /\ h[c] = x
      /\ \A d \in Conns \ {c} : h[d] = p.chan[d]
  BY <1>1
<1> HIDE DEF h
<1>3. q = [p EXCEPT !.chan = h]
  BY DEF h, SetChan
<1> HIDE DEF q
<1>4. /\ IsPoller(q) /\ q.chan = h
      /\ q.channels = p.channels /\ q.epoll = p.epoll
  BY <1>2, <1>3 DEF IsPoller, PollerRec
<1> QED
  BY <1>2, <1>4 DEF Only, q

\* Changes of the same channel and descriptor add up.
LEMMA OnlyTwice ==
  ASSUME NEW p, NEW q, NEW r, NEW c, NEW f, Only(p, q, c, f), Only(q, r, c, f)
  PROVE  Only(p, r, c, f)
  BY DEF Only

\* enableWriting and disableWriting: epoll watches what the channel asks for.
LEMMA SetEventsModifies ==
  ASSUME NEW p, IsPoller(p), NEW c \in Conns,
         NEW ev \in SUBSET Ev, ev # {}, Connected(p, c), NEW f, f = p.chan[c].fd
  PROVE  /\ Only(p, SetEvents(p, c, ev), c, f)
         /\ SetEvents(p, c, ev).chan[c] = [p.chan[c] EXCEPT !.events = ev]
         /\ SetEvents(p, c, ev).channels[f] = c
         /\ SetEvents(p, c, ev).epoll[f] = [ptr |-> c, events |-> ev]
<1> DEFINE x == [p.chan[c] EXCEPT !.events = ev]
           q == [p EXCEPT !.chan[c].events = ev]
<1>1. /\ p.chan[c] \in ConnRec /\ f \in Fds
      /\ p.chan[c].index = "added" /\ p.channels[f] = c
  BY DEF IsPoller, PollerRec, Connected
<1>2. /\ x \in ConnRec /\ x.fd = f /\ x.index = "added" /\ x.events = ev
  BY <1>1 DEF ConnRec
<1>3. q = SetChan(p, c, x)
  BY DEF IsPoller, PollerRec, SetChan
<1>4. SetEvents(p, c, ev) = UpdateChannel(q, c)
  BY DEF SetEvents
<1> HIDE DEF x, q
<1>5. /\ Only(p, q, c, f) /\ q.chan[c] = x
      /\ q.channels = p.channels /\ q.epoll = p.epoll
  BY <1>1, <1>2, <1>3, SetChanDoes
<1>6. /\ IsPoller(q)
  BY <1>5 DEF Only
<1>7. Check(q, q.channels[q.chan[c].fd] = c) = q
  BY <1>1, <1>2, <1>5, <1>6, CheckHolds
<1>8. UpdateChannel(q, c) = EpollSet(q, c)
  BY <1>2, <1>5, <1>7 DEF UpdateChannel, ModChannel
<1>9. /\ Only(q, EpollSet(q, c), c, f) /\ EpollSet(q, c).chan[c] = x
      /\ EpollSet(q, c).channels = q.channels
      /\ EpollSet(q, c).epoll[f] = [ptr |-> c, events |-> ev]
  BY <1>1, <1>2, <1>5, <1>6, EpollSetDoes
<1> QED
  BY <1>1, <1>4, <1>5, <1>8, <1>9, OnlyTwice DEF x

\* A channel after disableAll, and after it was added with events ev.
Disabled(x) == [x EXCEPT !.events = {}, !.index = "deleted"]
Added(x, ev) == [x EXCEPT !.events = ev, !.index = "added"]

\* disableAll: the channel leaves epoll and stays in the map.
LEMMA SetEventsDisables ==
  ASSUME NEW p, IsPoller(p), NEW c \in Conns,
         p.chan[c].index = "added", NEW f \in Fds, f = p.chan[c].fd,
         p.channels[f] = c
  PROVE  /\ Only(p, SetEvents(p, c, {}), c, f)
         /\ SetEvents(p, c, {}).chan[c]
              = Disabled(p.chan[c])
         /\ SetEvents(p, c, {}).channels[f] = c
         /\ SetEvents(p, c, {}).epoll[f] = None
<1> DEFINE x == [p.chan[c] EXCEPT !.events = {}]
           y == Disabled(p.chan[c])
           q == [p EXCEPT !.chan[c].events = {}]
           r == EpollDel(q, c)
           s == [r EXCEPT !.chan[c].index = "deleted"]
<1>1. p.chan[c] \in ConnRec
  BY DEF IsPoller, PollerRec
<1>2. /\ x \in ConnRec /\ x.fd = f /\ x.index = "added" /\ x.events = {}
      /\ y \in ConnRec /\ y = [x EXCEPT !.index = "deleted"]
  BY <1>1 DEF ConnRec, Disabled
<1>3. q = SetChan(p, c, x)
  BY DEF IsPoller, PollerRec, SetChan
<1>4. SetEvents(p, c, {}) = UpdateChannel(q, c)
  BY DEF SetEvents
<1> HIDE DEF x, q, y
<1>5. /\ Only(p, q, c, f) /\ q.chan[c] = x
      /\ q.channels = p.channels /\ q.epoll = p.epoll
  BY <1>1, <1>2, <1>3, SetChanDoes
<1>6. /\ IsPoller(q)
  BY <1>5 DEF Only
<1>7. Check(q, q.channels[q.chan[c].fd] = c) = q
  BY <1>1, <1>2, <1>5, <1>6, CheckHolds
<1>8. UpdateChannel(q, c) = s
  BY <1>2, <1>5, <1>7 DEF UpdateChannel, ModChannel
<1> HIDE DEF r
<1>9. /\ Only(q, r, c, f) /\ r.chan = q.chan /\ r.channels = q.channels
      /\ r.epoll[f] = None
  BY <1>1, <1>2, <1>5, <1>6, EpollDelDoes DEF r
<1>10. IsPoller(r)
  BY <1>9 DEF Only
<1>11. s = SetChan(r, c, y)
  BY <1>2, <1>5, <1>9, <1>10 DEF IsPoller, PollerRec, SetChan
<1> HIDE DEF s
<1>12. /\ Only(r, s, c, f) /\ s.chan[c] = y
       /\ s.channels = r.channels /\ s.epoll = r.epoll
  BY <1>2, <1>10, <1>11, SetChanDoes
<1>13. Only(p, s, c, f)
  BY <1>5, <1>9, <1>12, OnlyTwice
<1> QED
  BY <1>4, <1>5, <1>8, <1>9, <1>12, <1>13 DEF y

\* enableReading of a channel the Poller does not know.
LEMMA SetEventsAdds ==
  ASSUME NEW p, IsPoller(p), NEW c \in Conns,
         p.chan[c].index = "new", NEW f \in Fds, f = p.chan[c].fd,
         p.channels[f] = None, NEW ev \in SUBSET Ev
  PROVE  /\ Only(p, SetEvents(p, c, ev), c, f)
         /\ SetEvents(p, c, ev).chan[c]
              = Added(p.chan[c], ev)
         /\ SetEvents(p, c, ev).channels[f] = c
         /\ SetEvents(p, c, ev).epoll[f] = [ptr |-> c, events |-> ev]
<1> DEFINE x == [p.chan[c] EXCEPT !.events = ev]
           y == Added(p.chan[c], ev)
           q == [p EXCEPT !.chan[c].events = ev]
           h == [q.channels EXCEPT ![f] = c]
           r == [q EXCEPT !.channels[f] = c]
           s == [r EXCEPT !.chan[c].index = "added"]
<1>1. p.chan[c] \in ConnRec
  BY DEF IsPoller, PollerRec
<1>2. /\ x \in ConnRec /\ x.fd = f /\ x.index = "new" /\ y.events = ev
      /\ y \in ConnRec /\ y.fd = f /\ y = [x EXCEPT !.index = "added"]
  BY <1>1 DEF ConnRec, Added
<1>3. q = SetChan(p, c, x)
  BY DEF IsPoller, PollerRec, SetChan
<1>4. SetEvents(p, c, ev) = UpdateChannel(q, c)
  BY DEF SetEvents
<1> HIDE DEF x, q, y
<1>5. /\ Only(p, q, c, f) /\ q.chan[c] = x
      /\ q.channels = p.channels /\ q.epoll = p.epoll
  BY <1>1, <1>2, <1>3, SetChanDoes
<1>6. /\ IsPoller(q)
  BY <1>5 DEF Only
<1>7. Check(q, q.channels[q.chan[c].fd] = None) = q
  BY <1>1, <1>2, <1>5, <1>6, CheckHolds
<1>8. UpdateChannel(q, c) = EpollSet(s, c)
  BY <1>2, <1>5, <1>7 DEF UpdateChannel, AddChannel
<1>9. r = [q EXCEPT !.channels = h]
  BY <1>6 DEF IsPoller, PollerRec
<1>10. /\ h \in [Fds -> Conns \cup {None}] /\ h[f] = c
       /\ \A g \in Fds \ {f} : h[g] = q.channels[g]
  BY <1>6 DEF IsPoller, PollerRec
<1> HIDE DEF r, h
<1>11. /\ IsPoller(r) /\ r.chan = q.chan /\ r.channels = h
       /\ r.epoll = q.epoll
  BY <1>6, <1>9, <1>10 DEF IsPoller, PollerRec
<1>12. s = SetChan(r, c, y)
  BY <1>2, <1>5, <1>11 DEF IsPoller, PollerRec, SetChan
<1> HIDE DEF s
<1>13. /\ Only(r, s, c, f) /\ s.chan[c] = y
       /\ s.channels = r.channels /\ s.epoll = r.epoll
  BY <1>2, <1>11, <1>12, SetChanDoes
<1>14. IsPoller(s)
  BY <1>13 DEF Only
<1>18. s.chan[c].fd = f /\ s.chan[c].events = ev
  BY <1>2, <1>13
<1>15. /\ Only(s, EpollSet(s, c), c, f) /\ EpollSet(s, c).chan[c] = y
       /\ EpollSet(s, c).channels = s.channels
       /\ EpollSet(s, c).epoll[f] = [ptr |-> c, events |-> ev]
  BY <1>13, <1>14, <1>18, EpollSetDoes
<1>16. Only(q, r, c, f)
  BY <1>10, <1>11 DEF Only
<1>17. Only(p, EpollSet(s, c), c, f)
  BY <1>5, <1>16, <1>13, <1>15, OnlyTwice
<1> QED
  BY <1>4, <1>8, <1>10, <1>11, <1>13, <1>15, <1>17 DEF y

-----------------------------------------------------------------------------
(* What the handlers do to the Poller. *)

\* The state of a connection tells which of the three cases it is in.
LEMMA ByState ==
  ASSUME NEW p, PollerOK(p), NEW c \in Conns
  PROVE  /\ p.chan[c].state = "connected" => Connected(p, c)
         /\ p.chan[c].state = "disconnected" => Closed(p, c)
         /\ p.chan[c].state \in {"none", "freed"} => Unconnected(p, c)
         /\ p.chan[c].index = "deleted" => Closed(p, c)
         /\ p.chan[c].index = "added" => Connected(p, c)
         /\ p.chan[c] \in ConnRec
  BY DEF PollerOK, Unconnected, Connected, Closed, IsPoller, PollerRec

\* Everything is in order in q, and only the connection c is another.
ChangesOne(p, q, c) ==
  PollerOK(q) /\ \A d \in Conns \ {c} : q.chan[d] = p.chan[d]

\* The events of c that were reported are taken up.
Taken(p, c) == [p EXCEPT !.chan[c].revents = {}]

\* Taking them up leaves the registration as it is.
LEMMA TakeRevents ==
  ASSUME NEW p, PollerOK(p), NEW c \in Conns, p.chan[c].state = "connected"
  PROVE  /\ ChangesOne(p, Taken(p, c), c)
         /\ Taken(p, c).chan[c].state = "connected"
<1> DEFINE q == Taken(p, c)
           x == [p.chan[c] EXCEPT !.revents = {}]
           f == p.chan[c].fd
<1>1. Connected(p, c) /\ p.chan[c] \in ConnRec /\ IsPoller(p)
  BY ByState DEF PollerOK
<1>2. /\ x \in ConnRec /\ x.fd = f /\ x.state = "connected" /\ x.index = "added"
      /\ x.events = p.chan[c].events /\ f \in Fds
  BY <1>1 DEF ConnRec, Connected
<1>3. q = SetChan(p, c, x)
  BY DEF Taken, SetChan, PollerOK, IsPoller, PollerRec
<1> HIDE DEF x, f, q
<1>4. /\ Only(p, q, c, f) /\ q.chan[c] = x
      /\ q.channels = p.channels /\ q.epoll = p.epoll
  BY <1>1, <1>2, <1>3, SetChanDoes
<1>5. Connected(q, c)
  BY <1>1, <1>2, <1>4 DEF Connected, f
<1>6. PollerOK(q)
  <2>1. q.chan[c].fd = f /\ p.chan[c].fd = f /\ f \in Fds
    BY <1>2, <1>4 DEF f
  <2> QED
    BY <1>4, <1>5, <2>1, LocalChange
<1> QED
  BY <1>2, <1>4, <1>6 DEF ChangesOne, Only, q

\* enableWriting and disableWriting of an open connection.
LEMMA WatchOther ==
  ASSUME NEW p, PollerOK(p), NEW c \in Conns, p.chan[c].state = "connected",
         NEW ev \in SUBSET Ev, "IN" \in ev
  PROVE  /\ ChangesOne(p, SetEvents(p, c, ev), c)
         /\ SetEvents(p, c, ev).chan[c].state = "connected"
<1> DEFINE q == SetEvents(p, c, ev)
           f == p.chan[c].fd
           x == [p.chan[c] EXCEPT !.events = ev]
<1>1. Connected(p, c) /\ p.chan[c] \in ConnRec /\ IsPoller(p)
  BY ByState DEF PollerOK
<1>2. ev # {}
  OBVIOUS
<1>3. /\ Only(p, q, c, f) /\ q.chan[c] = x /\ q.channels[f] = c
      /\ q.epoll[f] = [ptr |-> c, events |-> ev]
  BY <1>1, <1>2, SetEventsModifies
<1>4. /\ x.fd = f /\ x.state = "connected" /\ x.index = "added"
      /\ x.events = ev /\ f \in Fds
  BY <1>1 DEF ConnRec, Connected
<1> HIDE DEF q, x
<1>5. Connected(q, c)
  BY <1>3, <1>4 DEF Connected
<1>6. PollerOK(q)
  <2>1. q.chan[c].fd = f /\ p.chan[c].fd = f /\ f \in Fds
    BY <1>3, <1>4
  <2> HIDE DEF f
  <2> QED
    BY <1>3, <1>5, <2>1, LocalChange
<1>7. ChangesOne(p, q, c) /\ q.chan[c].state = "connected"
  BY <1>3, <1>4, <1>6 DEF ChangesOne, Only
<1> QED
  BY <1>7 DEF q

\* handleWrite finds the connection open, or closed by the handleRead before.
LEMMA HandleWriteDoes ==
  ASSUME NEW p, PollerOK(p), NEW c \in Conns
  PROVE  /\ p.chan[c].state = "connected" =>
              /\ ChangesOne(p, HandleWrite(p, c), c)
              /\ HandleWrite(p, c).chan[c].state = "connected"
         /\ p.chan[c].state = "disconnected" => HandleWrite(p, c) = p
<1>1. CASE p.chan[c].state = "connected"
  <2>1. p.chan[c].events \ {"OUT"} \in SUBSET Ev
        /\ "IN" \in p.chan[c].events \ {"OUT"}
    BY <1>1, ByState DEF Connected, ConnRec
  <2>2. CASE Writing(p, c)
    BY <1>1, <2>1, <2>2, WatchOther DEF HandleWrite
  <2>3. CASE ~Writing(p, c)
    BY <1>1, <2>3 DEF HandleWrite, ChangesOne
  <2> QED
    BY <1>1, <2>2, <2>3
<1>2. CASE p.chan[c].state = "disconnected"
  BY <1>2, ByState DEF HandleWrite, Writing, Closed
<1> QED
  BY <1>1, <1>2

\* handleClose: out of epoll, still in the map.
LEMMA HandleCloseDoes ==
  ASSUME NEW p, PollerOK(p), NEW c \in Conns, p.chan[c].state = "connected"
  PROVE  /\ ChangesOne(p, HandleClose(p, c), c)
         /\ HandleClose(p, c).chan[c].state = "disconnected"
         /\ HandleClose(p, c).chan[c].index = "deleted"
<1> DEFINE f == p.chan[c].fd
           x == [p.chan[c] EXCEPT !.state = "disconnected"]
           y == Disabled(x)
           r == [p EXCEPT !.chan[c].state = "disconnected"]
           q == SetEvents(r, c, {})
<1>1. Connected(p, c) /\ p.chan[c] \in ConnRec /\ IsPoller(p)
  BY ByState DEF PollerOK
<1>2. /\ x \in ConnRec /\ x.fd = f /\ x.index = "added" /\ f \in Fds
      /\ y.fd = f /\ y.state = "disconnected" /\ y.index = "deleted"
      /\ y.events = {}
  BY <1>1 DEF ConnRec, Connected, Disabled
<1>3. r = SetChan(p, c, x)
  BY <1>1 DEF SetChan, IsPoller, PollerRec
<1>4. HandleClose(p, c) = q
  <2>1. Check(p, p.chan[c].state = "connected") = p
    BY <1>1, CheckHolds
  <2> QED
    BY <2>1 DEF HandleClose
<1> HIDE DEF r, x, f
<1>5. /\ Only(p, r, c, f) /\ r.chan[c] = x
      /\ r.channels = p.channels /\ r.epoll = p.epoll
  BY <1>1, <1>2, <1>3, SetChanDoes
<1>6. /\ IsPoller(r) /\ r.chan[c].fd = f /\ r.chan[c].index = "added"
      /\ r.channels[f] = c
  BY <1>1, <1>2, <1>5 DEF Only, Connected, f
<1>7. /\ Only(r, q, c, f) /\ q.chan[c] = y
      /\ q.channels[f] = c /\ q.epoll[f] = None
  <2>1. q.chan[c] = Disabled(r.chan[c])
        /\ Only(r, q, c, f) /\ q.channels[f] = c /\ q.epoll[f] = None
    BY <1>2, <1>6, SetEventsDisables
  <2> QED
    BY <2>1, <1>5
<1> HIDE DEF q, y
<1>8. Only(p, q, c, f)
  BY <1>5, <1>7, OnlyTwice
<1>9. Closed(q, c)
  BY <1>2, <1>7 DEF Closed
<1>10. PollerOK(q)
  BY <1>2, <1>7, <1>8, <1>9, LocalChange DEF f
<1> QED
  BY <1>2, <1>4, <1>7, <1>8, <1>10 DEF ChangesOne, Only

\* newConnection: a new TcpConnection that reads from its descriptor.
Established(p, c, f) ==
  SetEvents([p EXCEPT !.chan[c].state = "connected", !.chan[c].fd = f],
            c, {"IN"})

\* A descriptor that nobody has is not registered.
LEMMA NewConnectionDoes ==
  ASSUME NEW p, PollerOK(p), NEW c \in Conns, p.chan[c].state = "none",
         NEW f \in Fds, \A d \in Conns : p.chan[d].fd # f
  PROVE  /\ ChangesOne(p, Established(p, c, f), c)
         /\ Established(p, c, f).chan[c].state = "connected"
<1> DEFINE ev == {"IN"}
           q == Established(p, c, f)
           x == [p.chan[c] EXCEPT !.state = "connected", !.fd = f]
           y == Added(x, ev)
           r == [p EXCEPT !.chan[c].state = "connected", !.chan[c].fd = f]
<1>1. Unconnected(p, c) /\ p.chan[c] \in ConnRec /\ IsPoller(p)
  BY ByState DEF PollerOK
<1>2. /\ x \in ConnRec /\ x.fd = f /\ x.index = "new"
      /\ y.fd = f /\ y.state = "connected" /\ y.index = "added"
      /\ y.events = ev
  BY <1>1 DEF ConnRec, Unconnected, Added
<1>3. r = SetChan(p, c, x)
  BY <1>1 DEF SetChan, IsPoller, PollerRec
<1>4. p.channels[f] = None
  BY DEF PollerOK
<1>12. q = SetEvents(r, c, ev)
  BY DEF Established
<1>13. ev \in SUBSET Ev /\ "IN" \in ev
  BY DEF Ev
<1> HIDE DEF r, x, q, ev
<1>5. /\ Only(p, r, c, f) /\ r.chan[c] = x
      /\ r.channels = p.channels /\ r.epoll = p.epoll
  BY <1>1, <1>2, <1>3, SetChanDoes
<1>6. /\ IsPoller(r) /\ r.chan[c].fd = f /\ r.chan[c].index = "new"
      /\ r.channels[f] = None
  BY <1>2, <1>4, <1>5 DEF Only
<1>7. /\ Only(r, q, c, f) /\ q.chan[c] = y
      /\ q.channels[f] = c /\ q.epoll[f] = [ptr |-> c, events |-> ev]
  <2>2. /\ q.chan[c] = Added(r.chan[c], ev)
        /\ Only(r, q, c, f) /\ q.channels[f] = c
        /\ q.epoll[f] = [ptr |-> c, events |-> ev]
    BY <1>6, <1>12, <1>13, SetEventsAdds
  <2> QED
    BY <2>2, <1>5
<1> HIDE DEF y
<1>8. Only(p, q, c, f)
  BY <1>5, <1>7, OnlyTwice
<1>9. Connected(q, c)
  BY <1>2, <1>7, <1>13 DEF Connected
<1>10. p.chan[c].fd = None /\ q.chan[c].fd = f
  BY <1>1, <1>2, <1>7 DEF Unconnected
<1>11. PollerOK(q)
  BY <1>8, <1>9, <1>10, LocalChange
<1> QED
  BY <1>2, <1>7, <1>8, <1>11 DEF ChangesOne, Only, q

\* connectDestroyed of a connection that handleClose has closed: the channel
\* leaves the map.
LEMMA ConnectDestroyedDoes ==
  ASSUME NEW p, PollerOK(p), NEW c \in Conns, p.chan[c].index = "deleted",
         pc # "events"
  PROVE  /\ ChangesOne(p, ConnectDestroyed(p, c), c)
         /\ ConnectDestroyed(p, c).chan[c].state = "disconnected"
         /\ ConnectDestroyed(p, c).chan[c].index = "new"
<1> DEFINE f == p.chan[c].fd
           x == [p.chan[c] EXCEPT !.index = "new"]
           h == [p.channels EXCEPT ![f] = None]
           r == [p EXCEPT !.channels = h]
           q == ConnectDestroyed(p, c)
<1>1. Closed(p, c) /\ p.chan[c] \in ConnRec /\ IsPoller(p)
  BY ByState DEF PollerOK
<1>2. /\ f \in Fds /\ p.channels[f] = c /\ p.epoll[f] = None
      /\ p.chan[c].events = {} /\ p.chan[c].state = "disconnected"
  BY <1>1 DEF Closed
<1>3. /\ x \in ConnRec /\ x.fd = f /\ x.index = "new" /\ x.events = {}
      /\ x.state = "disconnected"
  BY <1>1, <1>2 DEF ConnRec
<1>4. /\ Check(p, p.chan[c].events = {}) = p
      /\ Check(p, pc = "events" => c \notin active) = p
      /\ Check(p, /\ p.chan[c].events = {} /\ p.channels[p.chan[c].fd] = c
                  /\ p.chan[c].index \in {"added", "deleted"}) = p
  <2>1. Check(p, p.chan[c].events = {}) = p
    BY <1>1, <1>2, CheckHolds
  <2>2. Check(p, pc = "events" => c \notin active) = p
    BY <1>1, CheckHolds
  <2>3. Check(p, /\ p.chan[c].events = {} /\ p.channels[p.chan[c].fd] = c
                 /\ p.chan[c].index \in {"added", "deleted"}) = p
    BY <1>1, <1>2, CheckHolds
  <2> QED
    BY <2>1, <2>2, <2>3, Zenon
<1>5. q = RemoveChannel(p, c)
  BY <1>2, <1>4 DEF ConnectDestroyed, ChannelRemove, LoopRemoveChannel
<1>6. q = [p EXCEPT !.channels[p.chan[c].fd] = None, !.chan[c].index = "new"]
  BY <1>4, <1>5, Zenon DEF RemoveChannel
<1>7. /\ h \in [Fds -> Conns \cup {None}] /\ h[f] = None
      /\ \A g \in Fds \ {f} : h[g] = p.channels[g]
  BY <1>1, <1>2 DEF IsPoller, PollerRec
<1>8. q = SetChan(r, c, x)
  BY <1>1, <1>6 DEF IsPoller, PollerRec, SetChan
<1>9. /\ IsPoller(r) /\ r.chan = p.chan /\ r.channels = h /\ r.epoll = p.epoll
  <2> HIDE DEF h
  <2> QED
    BY <1>1, <1>7 DEF IsPoller, PollerRec
<1> HIDE DEF q, r, h, x, f
<1>10. /\ Only(r, q, c, f) /\ q.chan[c] = x
       /\ q.channels = r.channels /\ q.epoll = r.epoll
  BY <1>2, <1>3, <1>8, <1>9, SetChanDoes
<1>11. Only(p, r, c, f)
  BY <1>7, <1>9 DEF Only
<1>12. Only(p, q, c, f)
  BY <1>10, <1>11, OnlyTwice
<1>13. Closed(q, c)
  BY <1>2, <1>3, <1>7, <1>9, <1>10 DEF Closed
<1>14. PollerOK(q)
  BY <1>2, <1>3, <1>10, <1>12, <1>13, LocalChange DEF f
<1> QED
  BY <1>3, <1>10, <1>12, <1>14 DEF ChangesOne, Only, q

\* A channel is as before, but for the events reported to it.
SameChannel(x, y) ==
  /\ x.state = y.state /\ x.fd = y.fd /\ x.events = y.events
  /\ x.index = y.index

\* fillActiveChannels: its assertion holds, and the channels stay as they are.
LEMMA FillDoes ==
  ASSUME PollerOK(poller), FillActiveChannels, io \in SUBSET Channels,
         \A c \in io \cap Conns : IsConnected(c)
  PROVE  /\ PollerOK(poller')
         /\ \A c \in Conns : SameChannel(poller'.chan[c], poller.chan[c])
<1> DEFINE p == poller
           rev(c) == IF c \in io THEN Revents(p, c) ELSE {}
           h == [c \in Conns |-> [p.chan[c] EXCEPT !.revents = rev(c)]]
           A == \A c \in io \ {Acceptor} :
                  LET f == p.chan[c].fd IN
                  p.epoll[f].ptr = c /\ p.channels[f] = c
<1>1. IsPoller(p)
  BY DEF PollerOK
<1>2. ASSUME NEW c \in Conns PROVE rev(c) \in SUBSET (Ev \cup {"HUP"})
  <2>1. ASSUME NEW f \in Fds, p.epoll[f] # None
        PROVE  p.epoll[f].events \in SUBSET Ev
    <3>1. p.epoll[f] \in EpollRec
      BY <1>1, <2>1 DEF IsPoller, PollerRec
    <3> QED
      BY <3>1 DEF EpollRec
  <2>2. p.chan[c].fd # None => p.chan[c].fd \in Fds
    BY ByState DEF ConnRec
  <2>3. Revents(p, c) \in SUBSET (Ev \cup {"HUP"})
    BY <2>1, <2>2 DEF Revents
  <2> QED
    BY <2>3
<1>3. h \in [Conns -> ConnRec]
      /\ \A c \in Conns : SameChannel(h[c], p.chan[c])
  <2> SUFFICES ASSUME NEW c \in Conns
               PROVE  h[c] \in ConnRec /\ SameChannel(h[c], p.chan[c])
    OBVIOUS
  <2>1. p.chan[c] \in ConnRec
    BY ByState
  <2>2. h[c] = [p.chan[c] EXCEPT !.revents = rev(c)]
    OBVIOUS
  <2> HIDE DEF rev, h
  <2> QED
    BY <1>2, <2>1, <2>2 DEF ConnRec, SameChannel
<1>4. A
  <2> SUFFICES ASSUME NEW c \in io \ {Acceptor}
               PROVE  /\ p.epoll[p.chan[c].fd].ptr = c
                      /\ p.channels[p.chan[c].fd] = c
    OBVIOUS
  <2>1. c \in Conns /\ p.chan[c].state = "connected"
    BY ReactorAssumption DEF IsConnected
  <2>2. Connected(p, c)
    BY <2>1, ByState
  <2> QED
    BY <2>2 DEF Connected
<1>5. (p.ok /\ A) = TRUE
  BY <1>1, <1>4 DEF IsPoller
<1>6. poller' = [p EXCEPT !.chan = h, !.ok = TRUE]
  BY <1>5, Zenon DEF FillActiveChannels
<1> HIDE DEF h, A
<1>7. /\ IsPoller(poller') /\ poller'.chan = h
      /\ poller'.channels = p.channels /\ poller'.epoll = p.epoll
  BY <1>1, <1>3, <1>6 DEF IsPoller, PollerRec
<1>8. ASSUME NEW c \in Conns PROVE SameChannel(poller'.chan[c], p.chan[c])
  BY <1>3, <1>7
<1>9. ASSUME NEW c \in Conns
      PROVE  Unconnected(poller', c) \/ Connected(poller', c)
               \/ Closed(poller', c)
  <2>1. Unconnected(p, c) \/ Connected(p, c) \/ Closed(p, c)
    BY DEF PollerOK
  <2> QED
    BY <1>7, <1>8, <2>1
    DEF Unconnected, Connected, Closed, SameChannel
<1>10. PollerOK(poller')
  BY <1>7, <1>8, <1>9 DEF PollerOK, SameChannel
<1> QED
  BY <1>8, <1>10

\* Connections that are over are destructed; the others do not notice.
LEMMA DestructDoes ==
  ASSUME NEW p, PollerOK(p), NEW S \in SUBSET Conns,
         \A c \in S : p.chan[c].state = "disconnected"
                      /\ p.chan[c].index = "new"
  PROVE  /\ PollerOK(Destruct(p, S))
         /\ \A c \in S : /\ Destruct(p, S).chan[c].state = "freed"
                         /\ Destruct(p, S).chan[c].index = "new"
         /\ \A c \in Conns \ S : Destruct(p, S).chan[c] = p.chan[c]
<1> DEFINE q == Destruct(p, S)
           z == [NoConnection EXCEPT !.state = "freed"]
           h == [c \in Conns |-> IF c \in S THEN z ELSE p.chan[c]]
           e == [f \in Fds |-> IF \E c \in S : p.chan[c].fd = f
                                 THEN None ELSE p.epoll[f]]
           A == \A c \in S : p.chan[c].state = "disconnected"
                              /\ ChannelOver(p, c)
<1>1. IsPoller(p)
  BY DEF PollerOK
<1>2. ASSUME NEW c \in S
      PROVE  /\ Closed(p, c) /\ p.chan[c].fd \in Fds
             /\ p.channels[p.chan[c].fd] = None
             /\ p.epoll[p.chan[c].fd] = None
             /\ \A f \in Fds : p.channels[f] # c
  <2>1. Closed(p, c)
    BY <1>2, ByState
  <2>2. /\ p.chan[c].fd \in Fds /\ p.channels[p.chan[c].fd] = None
        /\ p.epoll[p.chan[c].fd] = None
    BY <1>2, <2>1 DEF Closed
  <2>3. ASSUME NEW f \in Fds, p.channels[f] = c PROVE FALSE
    <3>1. p.channels[f] # None
      BY <2>3, NoneIsNoFd
    <3>2. PICK d \in Conns : p.chan[d].fd = f
      BY <3>1 DEF PollerOK
    <3>3. Connected(p, d) \/ Closed(p, d)
      BY <3>2, NoneIsNoFd DEF PollerOK, Unconnected
    <3>4. p.channels[f] = d
      BY <3>1, <3>2, <3>3 DEF Connected, Closed
    <3> QED
      BY <2>2, <2>3, <3>1, <3>2, <3>4
  <2> QED
    BY <2>1, <2>2, <2>3
<1>3. A
  BY <1>2 DEF ChannelOver
<1>4. (p.ok /\ A) = TRUE
  BY <1>1, <1>3 DEF IsPoller
<1>5. q = [p EXCEPT !.ok = TRUE, !.epoll = e, !.chan = h]
  BY <1>4, Zenon DEF Destruct
<1>6. e = p.epoll
  <2>1. p.epoll = [f \in Fds |-> p.epoll[f]]
    BY <1>1 DEF IsPoller, PollerRec
  <2>2. ASSUME NEW f \in Fds PROVE e[f] = p.epoll[f]
    BY <1>2
  <2> QED
    BY <2>1, <2>2
<1>7. /\ z \in ConnRec /\ z.state = "freed" /\ z.fd = None
      /\ z.index = "new"
  BY DEF NoConnection, ConnRec
<1>8. /\ h \in [Conns -> ConnRec] /\ \A c \in S : h[c] = z
      /\ \A c \in Conns \ S : h[c] = p.chan[c]
  <2> HIDE DEF z
  <2> QED
    BY <1>1, <1>7 DEF IsPoller, PollerRec
<1> HIDE DEF q, z, h, e, A
<1>9. /\ IsPoller(q) /\ q.chan = h /\ q.channels = p.channels
      /\ q.epoll = p.epoll
  BY <1>1, <1>5, <1>6, <1>8 DEF IsPoller, PollerRec
<1>10. ASSUME NEW c \in Conns
       PROVE  Unconnected(q, c) \/ Connected(q, c) \/ Closed(q, c)
  <2>1. CASE c \in S
    BY <1>7, <1>8, <1>9, <2>1 DEF Unconnected
  <2>2. CASE c \notin S
    <3>1. Unconnected(p, c) \/ Connected(p, c) \/ Closed(p, c)
      BY DEF PollerOK
    <3>2. q.chan[c] = p.chan[c]
      BY <1>8, <1>9, <2>2
    <3> QED
      BY <1>9, <3>1, <3>2 DEF Unconnected, Connected, Closed
  <2> QED
    BY <2>1, <2>2
<1>11. \A c, d \in Conns :
         q.chan[c].fd # None /\ q.chan[c].fd = q.chan[d].fd => c = d
  BY <1>7, <1>8, <1>9 DEF PollerOK
<1>12. ASSUME NEW f \in Fds, q.channels[f] # None \/ q.epoll[f] # None
       PROVE  \E c \in Conns : q.chan[c].fd = f
  <2>1. PICK c \in Conns : p.chan[c].fd = f
    BY <1>9, <1>12 DEF PollerOK
  <2>2. c \notin S
    BY <1>2, <1>9, <1>12, <2>1
  <2> QED
    BY <1>8, <1>9, <2>1, <2>2
<1>13. PollerOK(q)
  BY <1>9, <1>10, <1>11, <1>12 DEF PollerOK
<1> QED
  BY <1>7, <1>8, <1>9, <1>13 DEF q

-----------------------------------------------------------------------------
(* The queue of functors, by number. *)

\* Elements of a concatenation.
LEMMA CatTwo ==
  ASSUME NEW s \in Seq(Nat), NEW t \in Seq(Nat)
  PROVE  /\ Len(s \o t) = Len(s) + Len(t)
         /\ \A i \in 1 .. Len(s) : (s \o t)[i] = s[i]
         /\ \A i \in 1 .. Len(t) : (s \o t)[Len(s) + i] = t[i]
  OBVIOUS

\* If the concatenation of three sequences counts up, each of them does.
LEMMA CatThree ==
  ASSUME NEW r \in Seq(Nat), NEW f \in Seq(Nat), NEW p \in Seq(Nat),
         NEW n \in Nat, r \o f \o p = [k \in 1 .. n |-> k]
  PROVE  /\ Len(r) \in Nat /\ Len(f) \in Nat /\ Len(p) \in Nat
         /\ Len(r) + Len(f) + Len(p) = n
         /\ \A i \in 1 .. Len(r) : r[i] = i
         /\ \A i \in 1 .. Len(f) : f[i] = Len(r) + i
         /\ \A i \in 1 .. Len(p) : p[i] = Len(r) + Len(f) + i
<1> DEFINE t == r \o f
           s == t \o p
<1>1. /\ Len(r) \in Nat /\ Len(f) \in Nat /\ Len(p) \in Nat
  OBVIOUS
<1>2. /\ t \in Seq(Nat) /\ Len(t) = Len(r) + Len(f)
      /\ \A i \in 1 .. Len(r) : t[i] = r[i]
      /\ \A i \in 1 .. Len(f) : t[Len(r) + i] = f[i]
  OBVIOUS
<1>3. Len(s) = n /\ \A i \in 1 .. n : s[i] = i
  <2>1. s = [k \in 1 .. n |-> k]
    OBVIOUS
  <2> HIDE DEF s
  <2> QED
    BY <2>1
<1> HIDE DEF t
<1>4. /\ Len(s) = Len(r) + Len(f) + Len(p)
      /\ \A i \in 1 .. Len(r) + Len(f) : s[i] = t[i]
      /\ \A i \in 1 .. Len(p) : s[Len(r) + Len(f) + i] = p[i]
  <2>1. /\ Len(t \o p) = Len(t) + Len(p)
        /\ \A i \in 1 .. Len(t) : (t \o p)[i] = t[i]
        /\ \A i \in 1 .. Len(p) : (t \o p)[Len(t) + i] = p[i]
    BY <1>2, CatTwo
  <2> QED
    BY <1>2, <2>1
<1>5. Len(s) = n /\ \A i \in 1 .. n : s[i] = i
  BY <1>3
<1> HIDE DEF s
<1>6. ASSUME NEW i \in 1 .. Len(r) PROVE r[i] = i
  <2>1. i \in 1 .. Len(r) + Len(f) /\ i \in 1 .. n
    BY <1>1, <1>4, <1>5
  <2> QED
    BY <1>2, <1>4, <1>5, <2>1
<1>7. ASSUME NEW i \in 1 .. Len(f) PROVE f[i] = Len(r) + i
  <2>1. Len(r) + i \in 1 .. Len(r) + Len(f) /\ Len(r) + i \in 1 .. n
    BY <1>1, <1>4, <1>5
  <2> QED
    BY <1>2, <1>4, <1>5, <2>1
<1>8. ASSUME NEW i \in 1 .. Len(p) PROVE p[i] = Len(r) + Len(f) + i
  <2>1. Len(r) + Len(f) + i \in 1 .. n
    BY <1>1, <1>4, <1>5
  <2> QED
    BY <1>4, <1>5, <2>1
<1> QED
  BY <1>1, <1>4, <1>5, <1>6, <1>7, <1>8

\* The functors in both queues are those not called yet, and the next one to
\* be called is the first of them.
LEMMA QueueFacts ==
  ASSUME LoopInv
  PROVE  /\ nq \in Nat /\ Len(ran) \in Nat /\ Len(ran) <= nq
         /\ pending \in Seq(Nat) /\ functors \in Seq(Nat) /\ ran \in Seq(Nat)
         /\ Range(ran) = 1 .. Len(ran)
         /\ \A i \in DOMAIN functors : functors[i] \in Waiting
         /\ \A i \in DOMAIN pending : pending[i] \in Waiting
         /\ functors # <<>> =>
              Head(functors) = Len(ran) + 1 /\ Len(ran) + 1 \in Waiting
<1>1. /\ nq \in Nat
      /\ pending \in Seq(Nat) /\ functors \in Seq(Nat) /\ ran \in Seq(Nat)
  BY LoopAssumption DEF LoopInv, TypeOK, QueuesOK
<1>2. ran \o functors \o pending = [k \in 1 .. nq |-> k]
  BY DEF LoopInv, InOrderOnce
<1>3. /\ Len(ran) \in Nat /\ Len(functors) \in Nat /\ Len(pending) \in Nat
      /\ Len(ran) + Len(functors) + Len(pending) = nq
      /\ \A i \in 1 .. Len(ran) : ran[i] = i
      /\ \A i \in 1 .. Len(functors) : functors[i] = Len(ran) + i
      /\ \A i \in 1 .. Len(pending) :
           pending[i] = Len(ran) + Len(functors) + i
  BY <1>1, <1>2, CatThree
<1>4. /\ DOMAIN ran = 1 .. Len(ran) /\ DOMAIN functors = 1 .. Len(functors)
      /\ DOMAIN pending = 1 .. Len(pending)
  BY <1>1
<1>5. Range(ran) = 1 .. Len(ran)
  BY <1>3, <1>4 DEF Range
<1>6. ASSUME functors # <<>>
      PROVE  Head(functors) = Len(ran) + 1 /\ Len(ran) + 1 \in Waiting
  <2>1. Len(functors) > 0 /\ Head(functors) = functors[1]
    BY <1>1, <1>6
  <2> QED
    BY <1>1, <1>3, <2>1 DEF Waiting
<1>7. \A i \in DOMAIN functors : functors[i] \in Waiting
  BY <1>1, <1>3, <1>4 DEF Waiting
<1>8. \A i \in DOMAIN pending : pending[i] \in Waiting
  BY <1>1, <1>3, <1>4 DEF Waiting
<1> QED
  BY <1>1, <1>3, <1>5, <1>6, <1>7, <1>8

\* What a handler or a functor does to the functors: nothing, or it queues one.
QueuesNone == nq' = nq /\ functor' = functor /\ bound' = bound
QueuesOne(op, c) ==
  /\ nq' = nq + 1 /\ functor' = Append(functor, [op |-> op, conn |-> c])
  /\ bound' = bound \cup {nq + 1}

\* queueInLoop numbers the functor it queues.
LEMMA QueueNumbers ==
  ASSUME LoopInv, QueueInLoop \/ UNCHANGED <<pending, nq>>
  PROVE  /\ QueueNothing => QueuesNone
         /\ \A op, c : Queue(op, c) => QueuesOne(op, c)
<1>1. pending \in Seq(Nat) /\ nq \in Nat
  BY QueueFacts
<1>2. Append(pending, nq + 1) # pending
  <2>1. /\ Len(pending) \in Nat
        /\ Len(Append(pending, nq + 1)) = Len(pending) + 1
    BY <1>1
  <2> QED
    BY <2>1
<1>3. QueueNothing => QueuesNone
  BY <1>2 DEF QueueNothing, QueuesNone, QueueInLoop
<1>4. ASSUME NEW op, NEW c, Queue(op, c) PROVE QueuesOne(op, c)
  BY <1>2, <1>4 DEF Queue, QueuesOne, QueueInLoop
<1> QED
  BY <1>3, <1>4

\* A functor that is queued is found under its number; the others stay.
LEMMA FunctorGrows ==
  ASSUME Bound, nq \in Nat, NEW g \in FunctorRec,
         functor' = Append(functor, g), nq' = nq + 1
  PROVE  /\ functor' \in Seq(FunctorRec \cup {None}) /\ Len(functor') = nq'
         /\ \A n \in 1 .. nq : functor'[n] = functor[n]
         /\ functor'[nq + 1] = g
<1> DEFINE S == FunctorRec \cup {None}
<1>1. functor \in Seq(S) /\ Len(functor) = nq /\ g \in S
  BY DEF Bound
<1> HIDE DEF S
<1>2. /\ Append(functor, g) \in Seq(S)
      /\ Len(Append(functor, g)) = Len(functor) + 1
      /\ \A n \in 1 .. Len(functor) : Append(functor, g)[n] = functor[n]
      /\ Append(functor, g)[Len(functor) + 1] = g
  BY <1>1
<1> QED
  BY <1>1, <1>2 DEF S

-----------------------------------------------------------------------------
(* How the parts of the invariant are kept. *)

\* Functors are called in the order of their numbers.
Later == Len(ran') \in Nat /\ Len(ran') >= Len(ran)

\* The connection is there.
AliveIn(p, c) == p.chan[c].state \notin {"none", "freed"}

\* The functors that carry a shared_ptr of their own.
Callbacks == {"connectDestroyed", "writeComplete"}

\* Of the functors that wait afterwards, those that waited before, and one
\* that was queued.
LEMMA WaitingStep ==
  ASSUME LoopInv, Bound, Later
  PROVE  /\ QueuesNone => \A n \in Waiting' :
              n \in Waiting /\ n > Len(ran') /\ functor'[n] = functor[n]
         /\ \A op \in Callbacks, c \in Conns : QueuesOne(op, c) =>
              /\ functor' \in Seq(FunctorRec \cup {None}) /\ Len(functor') = nq'
              /\ \A n \in 1 .. nq : functor'[n] = functor[n]
              /\ functor'[nq + 1] = [op |-> op, conn |-> c]
              /\ \A n \in Waiting' : n # nq + 1 =>
                   n \in Waiting /\ n > Len(ran') /\ functor'[n] = functor[n]
<1>1. nq \in Nat /\ Len(ran) \in Nat /\ Len(ran') \in Nat
      /\ Len(ran') >= Len(ran)
  BY QueueFacts DEF Later
<1>2. ASSUME QueuesNone, NEW n \in Waiting'
      PROVE  n \in Waiting /\ n > Len(ran') /\ functor'[n] = functor[n]
  BY <1>1, <1>2 DEF QueuesNone, Waiting
<1>3. ASSUME NEW op \in Callbacks, NEW c \in Conns, QueuesOne(op, c)
      PROVE  /\ functor' \in Seq(FunctorRec \cup {None}) /\ Len(functor') = nq'
             /\ \A n \in 1 .. nq : functor'[n] = functor[n]
             /\ functor'[nq + 1] = [op |-> op, conn |-> c]
             /\ \A n \in Waiting' : n # nq + 1 =>
                  n \in Waiting /\ n > Len(ran') /\ functor'[n] = functor[n]
  <2> DEFINE g == [op |-> op, conn |-> c]
  <2>1. g \in FunctorRec
    BY DEF FunctorRec, Callbacks
  <2>2. functor' = Append(functor, g) /\ nq' = nq + 1
    BY <1>3 DEF QueuesOne
  <2> HIDE DEF g
  <2>3. /\ functor' \in Seq(FunctorRec \cup {None}) /\ Len(functor') = nq'
        /\ \A n \in 1 .. nq : functor'[n] = functor[n]
        /\ functor'[nq + 1] = g
    BY <1>1, <2>1, <2>2, FunctorGrows
  <2>4. ASSUME NEW n \in Waiting', n # nq + 1
        PROVE  n \in Waiting /\ n > Len(ran') /\ n \in 1 .. nq
    BY <1>1, <2>2, <2>4 DEF Waiting
  <2> QED
    BY <2>3, <2>4 DEF g
<1> QED
  BY <1>2, <1>3

\* A functor that was queued keeps its connection, and those that wait do.
LEMMA BoundStep ==
  ASSUME LoopInv, Bound, Later,
         QueuesNone \/ \E op \in Callbacks, c \in Conns :
                         QueuesOne(op, c) /\ AliveIn(poller', c),
         \A n \in bound : AliveIn(poller', functor[n].conn),
         \A n \in Waiting :
           n > Len(ran') /\ functor[n].op = "completeTask" =>
             tasks'[functor[n].conn] = "pushed"
  PROVE  Bound'
<1>1. nq \in Nat /\ bound \subseteq 1 .. nq
  BY QueueFacts DEF Bound
<1>2. CASE QueuesNone
  <2>1. \A n \in Waiting' :
          n \in Waiting /\ n > Len(ran') /\ functor'[n] = functor[n]
    BY <1>2, WaitingStep
  <2>2. nq' = nq /\ functor' = functor /\ bound' = bound
    BY <1>2 DEF QueuesNone
  <2>3. ASSUME NEW n \in bound'
        PROVE  functor'[n] \in FunctorRec /\ Alive(functor[n].conn)'
    BY <2>2, <2>3 DEF Bound, Alive, AliveIn
  <2>4. ASSUME NEW n \in Waiting'
        PROVE  /\ functor'[n] \in FunctorRec
               /\ IF functor'[n].op = "completeTask"
                    THEN tasks'[functor'[n].conn] = "pushed" ELSE n \in bound'
    BY <2>1, <2>2 DEF Bound
  <2> QED
    BY <2>2, <2>3, <2>4 DEF Bound
<1>3. ASSUME NEW op \in Callbacks, NEW c \in Conns, QueuesOne(op, c),
             AliveIn(poller', c)
      PROVE  Bound'
  <2> DEFINE g == [op |-> op, conn |-> c]
  <2>1. /\ functor' \in Seq(FunctorRec \cup {None}) /\ Len(functor') = nq'
        /\ \A n \in 1 .. nq : functor'[n] = functor[n]
        /\ functor'[nq + 1] = g
        /\ \A n \in Waiting' : n # nq + 1 =>
             n \in Waiting /\ n > Len(ran') /\ functor'[n] = functor[n]
    BY <1>3, WaitingStep
  <2>2. nq' = nq + 1 /\ bound' = bound \cup {nq + 1}
    BY <1>3 DEF QueuesOne
  <2>3. g \in FunctorRec /\ g.conn = c /\ g.op # "completeTask"
    BY DEF FunctorRec, Callbacks
  <2> HIDE DEF g
  <2>4. bound' \subseteq 1 .. nq'
    BY <1>1, <2>2
  <2>5. ASSUME NEW n \in bound'
        PROVE  functor'[n] \in FunctorRec /\ Alive(functor[n].conn)'
    <3>1. CASE n = nq + 1
      BY <1>3, <2>1, <2>3, <3>1 DEF Alive, AliveIn
    <3>2. CASE n \in bound
      <4>1. functor'[n] = functor[n] /\ functor[n] \in FunctorRec
        BY <1>1, <2>1, <3>2 DEF Bound
      <4> QED
        BY <3>2, <4>1 DEF Alive, AliveIn
    <3> QED
      BY <2>2, <2>5, <3>1, <3>2
  <2>6. ASSUME NEW n \in Waiting'
        PROVE  /\ functor'[n] \in FunctorRec
               /\ IF functor'[n].op = "completeTask"
                    THEN tasks'[functor'[n].conn] = "pushed" ELSE n \in bound'
    <3>1. CASE n = nq + 1
      BY <2>1, <2>2, <2>3, <3>1
    <3>2. CASE n # nq + 1
      BY <2>1, <2>2, <3>2 DEF Bound
    <3> QED
      BY <3>1, <3>2
  <2> QED
    BY <2>1, <2>4, <2>5, <2>6 DEF Bound
<1> QED
  BY <1>2, <1>3

\* A step that closes no connection keeps closed connections and their
\* functors together.
LEMMA ClosingStep ==
  ASSUME LoopInv, Bound, Closing, Later,
         QueuesNone \/ \E c \in Conns : QueuesOne("writeComplete", c),
         \A n \in Waiting :
           n > Len(ran') /\ functor[n].op = "connectDestroyed" =>
             poller'.chan[functor[n].conn].index = "deleted",
         \A c \in Conns : poller'.chan[c].index = "deleted" =>
           \E n \in Waiting :
             /\ n > Len(ran') /\ functor[n].op = "connectDestroyed"
             /\ functor[n].conn = c
  PROVE  Closing'
<1>1. PICK k : /\ QueuesNone => k = 0
               /\ ~QueuesNone => k = nq + 1 /\ functor'[k].op = "writeComplete"
               /\ \A n \in Waiting' : n # k =>
                    n \in Waiting /\ n > Len(ran') /\ functor'[n] = functor[n]
               /\ \A n \in 1 .. nq : functor'[n] = functor[n]
               /\ nq' \in Nat /\ nq' >= nq
  <2>1. CASE QueuesNone
    <3>1. nq \in Nat
      BY QueueFacts
    <3> QED
      BY <2>1, <3>1, WaitingStep DEF QueuesNone
  <2>2. ASSUME NEW c \in Conns, QueuesOne("writeComplete", c), ~QueuesNone
        PROVE  /\ functor'[nq + 1].op = "writeComplete"
               /\ \A n \in Waiting' : n # nq + 1 =>
                    n \in Waiting /\ n > Len(ran') /\ functor'[n] = functor[n]
               /\ \A n \in 1 .. nq : functor'[n] = functor[n]
               /\ nq' \in Nat /\ nq' >= nq
    <3>1. nq \in Nat /\ "writeComplete" \in Callbacks
      BY QueueFacts DEF Callbacks
    <3>2. nq' = nq + 1
      BY <2>2 DEF QueuesOne
    <3>3. /\ functor'[nq + 1] = [op |-> "writeComplete", conn |-> c]
          /\ \A n \in 1 .. nq : functor'[n] = functor[n]
          /\ \A n \in Waiting' : n # nq + 1 =>
               n \in Waiting /\ n > Len(ran') /\ functor'[n] = functor[n]
      BY <2>2, <3>1, WaitingStep
    <3> QED
      BY <3>1, <3>2, <3>3
  <2> QED
    BY <2>1, <2>2
<1>2. ASSUME NEW n \in Waiting', functor'[n].op # "writeComplete"
      PROVE  n \in Waiting /\ n > Len(ran') /\ functor'[n] = functor[n]
  <2>1. n # 0
    <3>1. nq' \in Nat /\ Len(ran') \in Nat
      BY <1>1 DEF Later
    <3> QED
      BY <3>1 DEF Waiting
  <2> QED
    BY <1>1, <1>2, <2>1
<1>3. ASSUME NEW n \in Waiting, n > Len(ran')
      PROVE  n \in Waiting' /\ functor'[n] = functor[n]
  <2>1. nq \in Nat /\ Len(ran) \in Nat /\ Len(ran') \in Nat
    BY QueueFacts DEF Later
  <2> QED
    BY <1>1, <1>3, <2>1 DEF Waiting
<1>4. \A n \in Waiting' : functor'[n].op = "connectDestroyed" =>
        poller'.chan[functor'[n].conn].index = "deleted"
  BY <1>2
<1>5. \A c \in Conns : poller'.chan[c].index = "deleted" =>
        \E n \in Waiting' :
          functor'[n].op = "connectDestroyed" /\ functor'[n].conn = c
  BY <1>3
<1>6. \A m, n \in Waiting' :
        /\ functor'[m].op = functor'[n].op
        /\ functor'[m].conn = functor'[n].conn
        /\ functor'[m].op # "writeComplete"
        => m = n
  BY <1>2 DEF Closing
<1> QED
  BY <1>4, <1>5, <1>6 DEF Closing

\* handleClose and its functor.
LEMMA ClosingCloses ==
  ASSUME LoopInv, Bound, Closing, ran' = ran, NEW c \in Conns,
         QueuesOne("connectDestroyed", c), poller.chan[c].index # "deleted",
         poller'.chan[c].index = "deleted",
         \A d \in Conns \ {c} : poller'.chan[d] = poller.chan[d]
  PROVE  Closing'
<1>1. nq \in Nat /\ Len(ran) \in Nat /\ Len(ran) <= nq
  BY QueueFacts
<1>2. Later /\ "connectDestroyed" \in Callbacks
  BY <1>1 DEF Later, Callbacks
<1>3. /\ \A n \in 1 .. nq : functor'[n] = functor[n]
      /\ functor'[nq + 1] = [op |-> "connectDestroyed", conn |-> c]
      /\ \A n \in Waiting' : n # nq + 1 =>
           n \in Waiting /\ functor'[n] = functor[n]
  BY <1>2, WaitingStep
<1>4. functor'[nq + 1].op = "connectDestroyed" /\ functor'[nq + 1].conn = c
  BY <1>3
<1>5. nq + 1 \in Waiting' /\ \A n \in Waiting : n \in Waiting' /\ n \in 1 .. nq
  BY <1>1 DEF Waiting, QueuesOne
<1>6. \A n \in Waiting :
        functor[n].op = "connectDestroyed" => functor[n].conn # c
  BY DEF Closing
<1>7. ASSUME NEW n \in Waiting', functor'[n].op = "connectDestroyed"
      PROVE  poller'.chan[functor'[n].conn].index = "deleted"
  <2>1. CASE n = nq + 1
    BY <1>4, <2>1
  <2>2. CASE n # nq + 1
    <3>1. n \in Waiting /\ functor'[n] = functor[n]
      BY <1>3, <2>2
    <3>2. functor[n].conn \in Conns \ {c}
      BY <1>6, <1>7, <3>1 DEF Bound, FunctorRec
    <3> QED
      BY <1>7, <3>1, <3>2 DEF Closing
  <2> QED
    BY <2>1, <2>2
<1>8. ASSUME NEW d \in Conns, poller'.chan[d].index = "deleted"
      PROVE  \E n \in Waiting' :
               functor'[n].op = "connectDestroyed" /\ functor'[n].conn = d
  <2>1. CASE d = c
    BY <1>4, <1>5, <2>1
  <2>2. CASE d # c
    <3>1. PICK n \in Waiting :
            functor[n].op = "connectDestroyed" /\ functor[n].conn = d
      BY <1>8, <2>2 DEF Closing
    <3> QED
      BY <1>3, <1>5, <3>1
  <2> QED
    BY <2>1, <2>2
<1>9. ASSUME NEW m \in Waiting', NEW n \in Waiting', m # n,
             functor'[m].op = functor'[n].op,
             functor'[m].conn = functor'[n].conn,
             functor'[m].op # "writeComplete"
      PROVE  FALSE
  <2>1. CASE m = nq + 1 \/ n = nq + 1
    BY <1>3, <1>4, <1>6, <1>9, <2>1
  <2>2. CASE m # nq + 1 /\ n # nq + 1
    BY <1>3, <1>9, <2>2 DEF Closing
  <2> QED
    BY <2>1, <2>2
<1> QED
  BY <1>7, <1>8, <1>9 DEF Closing

-----------------------------------------------------------------------------
(* The initial states, and the steps, action by action. *)

\* A loop without connections satisfies the invariant.
LEMMA InitRInv == RInit => RInv
<1> SUFFICES ASSUME RInit PROVE RInv
  OBVIOUS
<1>1. NoConnection \in ConnRec /\ NoConnection.state = "none"
      /\ NoConnection.fd = None /\ NoConnection.index = "new"
  BY DEF NoConnection, ConnRec
<1>2. /\ poller.chan = [c \in Conns |-> NoConnection]
      /\ poller.channels = [f \in Fds |-> None]
      /\ poller.epoll = [f \in Fds |-> None] /\ poller.ok = TRUE
  BY DEF RInit
<1>3. \A c \in Conns : poller.chan[c] = NoConnection
  BY <1>2
<1>4. IsPoller(poller)
  <2> HIDE DEF NoConnection
  <2> QED
    BY <1>1 DEF RInit, IsPoller, PollerRec
<1>5. PollerOK(poller)
  BY <1>1, <1>2, <1>3, <1>4 DEF PollerOK, Unconnected
<1>6. /\ connections = {} /\ tasks = [c \in Conns |-> "none"] /\ bound = {}
      /\ functor = <<>> /\ peer = [c \in Conns |-> "none"]
      /\ io = {} /\ active = {} /\ nq = 0 /\ ran = <<>>
  BY DEF RInit, Init
<1>7. Opened
  BY <1>1, <1>3, <1>6 DEF Opened, IsConnected, PeerState
<1>8. Watched
  BY <1>6 DEF Watched
<1>9. Waiting = {}
  BY <1>6 DEF Waiting
<1>10. Bound
  BY <1>6, <1>9 DEF Bound
<1>11. Closing
  BY <1>1, <1>3, <1>9 DEF Closing
<1>12. TasksOK
  BY <1>6 DEF TasksOK
<1> QED
  BY <1>5, <1>7, <1>8, <1>10, <1>11, <1>12 DEF RInv

\* A step of the loop, of its owner or of another thread's wakeup that leaves
\* connections, channels and functors alone.
LEMMA QuietStep ==
  ASSUME RInv, UNCHANGED rvars, UNCHANGED <<nq, ran, io>>,
         pc' = "events" => \/ pc = "events" /\ active' \subseteq active
                           \/ active' = {}
  PROVE  RInv'
<1>1. /\ poller' = poller /\ connections' = connections /\ tasks' = tasks
      /\ bound' = bound /\ functor' = functor /\ peer' = peer
      /\ nq' = nq /\ ran' = ran /\ io' = io
  BY DEF rvars
<1>2. PollerOK(poller') /\ Waiting' = Waiting
  BY <1>1 DEF RInv, Waiting
<1>3. Opened'
  BY <1>1 DEF RInv, Opened, IsConnected
<1>4. Watched'
  BY <1>1 DEF RInv, Watched, IsConnected
<1>5. Bound'
  BY <1>1, <1>2 DEF RInv, Bound, Alive
<1>6. Closing'
  BY <1>1, <1>2 DEF RInv, Closing
<1>7. TasksOK'
  BY <1>1 DEF RInv, TasksOK, Alive
<1> QED
  BY <1>2, <1>3, <1>4, <1>5, <1>6, <1>7 DEF RInv

\* epoll reports events for open connections only.
LEMMA ReportsConnected ==
  ASSUME PollerOK(poller'), io' = Reportable'
  PROVE  \A c \in io' \cap Conns : poller'.chan[c].state = "connected"
<1> SUFFICES ASSUME NEW c \in Reportable' \cap Conns
             PROVE  poller'.chan[c].state = "connected"
  OBVIOUS
<1> DEFINE f == poller'.chan[c].fd
<1>1. Revents(poller, c)' # {}
  BY NoneIsNoFd DEF Reportable
<1>2. f # None /\ poller'.epoll[f] # None
  BY <1>1 DEF Revents
<1> QED
  BY <1>2 DEF PollerOK, Unconnected, Connected, Closed

\* The Poller's poll: the channels with events are those of open connections.
LEMMA PollStep == LoopInv /\ RInv /\ PollChannels => RInv'
<1> SUFFICES ASSUME LoopInv, RInv, PollChannels PROVE RInv'
  OBVIOUS
<1>1. /\ connections' = connections /\ tasks' = tasks
      /\ bound' = bound /\ functor' = functor /\ peer' = peer
      /\ FillActiveChannels
  BY DEF PollChannels
<1>2. nq' = nq /\ ran' = ran /\ io' = io /\ active' = Ready
  BY DEF PollChannels, Poll, PollReturns
<1>3. io \in SUBSET Channels /\ "wakeup" \notin Channels
  BY LoopAssumption DEF LoopInv, TypeOK, QueuesOK
<1>4. \A c \in io \cap Conns : IsConnected(c)
  BY DEF RInv, Watched
<1>5. /\ PollerOK(poller')
      /\ \A c \in Conns : SameChannel(poller'.chan[c], poller.chan[c])
  BY <1>1, <1>3, <1>4, FillDoes DEF RInv
<1>6. /\ \A c \in Conns : /\ poller'.chan[c].state = poller.chan[c].state
                          /\ poller'.chan[c].index = poller.chan[c].index
  BY <1>5 DEF SameChannel
<1>7. Opened'
  BY <1>1, <1>6 DEF RInv, Opened, IsConnected
<1>8. Watched'
  <2>1. active' \cap Conns \subseteq io
    BY <1>2, <1>3, ReactorAssumption DEF Ready
  <2> QED
    BY <1>2, <1>4, <1>6, <2>1 DEF Watched, IsConnected
<1>9. Waiting' = Waiting
  BY <1>2 DEF Waiting
<1>10. Bound'
  <2>1. ASSUME NEW n \in bound
        PROVE  functor[n] \in FunctorRec /\ functor[n].conn \in Conns
    BY <2>1 DEF RInv, Bound, FunctorRec
  <2> QED
    BY <1>1, <1>2, <1>6, <1>9, <2>1 DEF RInv, Bound, Alive
<1>11. Closing'
  <2>1. ASSUME NEW n \in Waiting PROVE functor[n].conn \in Conns
    BY <2>1 DEF RInv, Bound, FunctorRec
  <2> QED
    BY <1>1, <1>6, <1>9, <2>1 DEF RInv, Closing
<1>12. TasksOK'
  BY <1>1, <1>6 DEF RInv, TasksOK, Alive
<1> QED
  BY <1>5, <1>7, <1>8, <1>10, <1>11, <1>12 DEF RInv

\* A peer connects, sends, goes away or reads.
LEMMA PeerStep ==
  ASSUME LoopInv, RInv, NEW c \in Conns, Peer(c)
  PROVE  RInv'
<1>1. /\ poller' = poller /\ connections' = connections /\ tasks' = tasks
      /\ bound' = bound /\ functor' = functor
      /\ nq' = nq /\ ran' = ran /\ io' = Reportable'
      /\ active' = active /\ pc' = pc
  BY DEF Peer, IoEvent
<1>2. PollerOK(poller') /\ Waiting' = Waiting
  BY <1>1 DEF RInv, Waiting
<1>3. Opened'
  <2>1. peer \in [Conns -> PeerState]
    BY DEF RInv, Opened
  <2>2. peer' \in [Conns -> PeerState]
    BY <2>1 DEF Peer, PeerState
  <2>3. ASSUME NEW d \in Conns, peer'[d] \in {"none", "syn"}
        PROVE  peer[d] \in {"none", "syn"}
    BY <2>1, <2>3 DEF Peer
  <2> QED
    BY <1>1, <2>2, <2>3 DEF RInv, Opened, IsConnected
<1>4. Watched'
  <2>1. \A d \in io' \cap Conns : poller'.chan[d].state = "connected"
    BY <1>1, <1>2, ReportsConnected
  <2> QED
    BY <1>1, <2>1 DEF RInv, Watched, IsConnected
<1>5. Bound'
  BY <1>1, <1>2 DEF RInv, Bound, Alive
<1>6. Closing'
  BY <1>1, <1>2 DEF RInv, Closing
<1>7. TasksOK'
  BY <1>1 DEF RInv, TasksOK, Alive
<1> QED
  BY <1>2, <1>3, <1>4, <1>5, <1>6, <1>7 DEF RInv

\* Another thread queues completeTask: the task, which holds the connection,
\* has only one.
LEMMA PushStep ==
  ASSUME LoopInv, RInv, NEW t \in Threads, PushCompleteTask(t)
  PROVE  RInv'
<1>1. PICK c \in Conns :
        /\ tasks[c] = "held" /\ tasks' = [tasks EXCEPT ![c] = "pushed"]
        /\ functor' = Append(functor, [op |-> "completeTask", conn |-> c])
  BY DEF PushCompleteTask
<1>2. /\ poller' = poller /\ connections' = connections
      /\ bound' = bound /\ peer' = peer
      /\ nq' = nq + 1 /\ ran' = ran /\ io' = io
      /\ active' = active /\ pc' = pc
  BY DEF PushCompleteTask, Push
<1>3. nq \in Nat /\ Len(ran) \in Nat /\ Len(ran) <= nq
  BY QueueFacts
<1> DEFINE g == [op |-> "completeTask", conn |-> c]
<1>4. g \in FunctorRec /\ g.op = "completeTask" /\ g.conn = c
  BY DEF FunctorRec
<1>5. functor' = Append(functor, g)
  BY <1>1
<1> HIDE DEF g
<1>6. /\ functor' \in Seq(FunctorRec \cup {None}) /\ Len(functor') = nq'
      /\ \A n \in 1 .. nq : functor'[n] = functor[n]
      /\ functor'[nq + 1] = g
  BY <1>2, <1>3, <1>4, <1>5, FunctorGrows DEF RInv
<1>7. /\ \A n \in Waiting' : n # nq + 1 => n \in Waiting
      /\ \A n \in Waiting : n \in Waiting' /\ n \in 1 .. nq
      /\ nq + 1 \in Waiting' /\ bound \subseteq 1 .. nq'
      /\ nq + 1 \notin Waiting
  BY <1>2, <1>3 DEF Waiting, RInv, Bound
<1>8. tasks \in [Conns -> {"none", "held", "pushed", "done"}]
  BY DEF RInv, TasksOK
<1>9. PollerOK(poller')
  BY <1>2 DEF RInv
<1>10. Opened'
  BY <1>2 DEF RInv, Opened, IsConnected
<1>11. Watched'
  BY <1>2 DEF RInv, Watched, IsConnected
<1>12. Bound'
  <2>1. ASSUME NEW n \in bound'
        PROVE  functor'[n] \in FunctorRec /\ Alive(functor[n].conn)'
    <3>1. n \in bound /\ functor'[n] = functor[n]
      BY <1>2, <1>6, <2>1 DEF RInv, Bound
    <3> QED
      BY <1>2, <3>1 DEF RInv, Bound, Alive
  <2>2. ASSUME NEW n \in Waiting'
        PROVE  /\ functor'[n] \in FunctorRec
               /\ IF functor'[n].op = "completeTask"
                    THEN tasks'[functor'[n].conn] = "pushed" ELSE n \in bound'
    <3>1. CASE n = nq + 1
      BY <1>1, <1>4, <1>6, <1>8, <3>1
    <3>2. CASE n # nq + 1
      <4>1. n \in Waiting /\ functor'[n] = functor[n]
        BY <1>6, <1>7, <3>2
      <4>2. functor[n] \in FunctorRec /\ functor[n].conn \in Conns
        BY <4>1 DEF RInv, Bound, FunctorRec
      <4> QED
        BY <1>1, <1>2, <1>8, <4>1, <4>2 DEF RInv, Bound
    <3> QED
      BY <3>1, <3>2
  <2> QED
    BY <1>2, <1>6, <1>7, <2>1, <2>2 DEF Bound
<1>13. Closing'
  <2>1. ASSUME NEW n \in Waiting', n # nq + 1
        PROVE  n \in Waiting /\ functor'[n] = functor[n]
    BY <1>6, <1>7, <2>1
  <2>2. ASSUME NEW n \in Waiting, functor[n].op = "completeTask"
        PROVE  functor[n].conn # c
    <3>1. tasks[functor[n].conn] = "pushed"
      BY <2>2 DEF RInv, Bound
    <3> QED
      BY <1>1, <3>1
  <2>3. \A n \in Waiting' : functor'[n].op = "connectDestroyed" =>
          poller'.chan[functor'[n].conn].index = "deleted"
    BY <1>2, <1>4, <1>6, <2>1 DEF RInv, Closing
  <2>4. \A d \in Conns : poller'.chan[d].index = "deleted" =>
          \E n \in Waiting' :
            functor'[n].op = "connectDestroyed" /\ functor'[n].conn = d
    BY <1>2, <1>6, <1>7 DEF RInv, Closing
  <2>5. ASSUME NEW m \in Waiting', NEW n \in Waiting', m # n,
               functor'[m].op = functor'[n].op,
               functor'[m].conn = functor'[n].conn,
               functor'[m].op # "writeComplete"
        PROVE  FALSE
    <3>1. CASE m = nq + 1 \/ n = nq + 1
      BY <1>4, <1>6, <2>1, <2>2, <2>5, <3>1
    <3>2. CASE m # nq + 1 /\ n # nq + 1
      BY <2>1, <2>5, <3>2 DEF RInv, Closing
    <3> QED
      BY <3>1, <3>2
  <2> QED
    BY <2>3, <2>4, <2>5 DEF Closing
<1>14. TasksOK'
  BY <1>1, <1>2, <1>8 DEF RInv, TasksOK, Alive
<1> QED
  BY <1>9, <1>10, <1>11, <1>12, <1>13, <1>14 DEF RInv

\* Only the connection at hand may stop being watched.
LEMMA WatchedStep ==
  ASSUME Watched, PollerOK(poller'), io' = Reportable', pc' = pc,
         active' \subseteq active, NEW c \in Conns,
         \A d \in Conns \ {c} : poller'.chan[d].state = poller.chan[d].state,
         pc = "events" /\ c \in active' => poller'.chan[c].state = "connected"
  PROVE  Watched'
<1>1. \A d \in io' \cap Conns : poller'.chan[d].state = "connected"
  BY ReportsConnected
<1>2. ASSUME pc = "events", NEW d \in active' \cap Conns
      PROVE  poller'.chan[d].state = "connected"
  BY <1>2 DEF Watched, IsConnected
<1> QED
  BY <1>1, <1>2 DEF Watched, IsConnected

\* Acceptor::handleRead: a new connection, under a descriptor nobody has.
LEMMA AcceptStep == LoopInv /\ RInv /\ AcceptorHandleRead => RInv'
<1> SUFFICES ASSUME LoopInv, RInv, AcceptorHandleRead PROVE RInv'
  OBVIOUS
<1>1. /\ tasks' = tasks /\ QueueNothing /\ io' = Reportable'
      /\ pc' = pc /\ ran' = ran /\ active' \subseteq active
      /\ QueueInLoop \/ UNCHANGED <<pending, nq>>
  BY DEF AcceptorHandleRead, HandleIo, QueueNothing
<1>2. QueuesNone
  BY <1>1, QueueNumbers
<1>3. nq' = nq /\ functor' = functor /\ bound' = bound /\ Waiting' = Waiting
  BY <1>1, <1>2 DEF QueuesNone, Waiting
<1>4. PICK c \in Conns :
        /\ peer[c] = "syn"
        /\ \/ \E f \in FreeFds : NewConnection(c, f)
           \/ /\ peer' = [peer EXCEPT ![c] = "refused"]
              /\ UNCHANGED <<connections, poller>>
  BY DEF AcceptorHandleRead
<1>5. poller.chan[c].state = "none" /\ c \notin connections
  BY <1>4 DEF RInv, Opened, IsConnected
<1>6. /\ ChangesOne(poller, poller', c) /\ connections' \subseteq Conns
      /\ poller'.chan[c].state \in {"none", "connected"}
      /\ poller'.chan[c].index # "deleted"
      /\ \A d \in Conns :
           (d \in connections' <=> poller'.chan[d].state = "connected")
      /\ peer' \in [Conns -> PeerState]
      /\ peer'[c] \notin {"none", "syn"}
      /\ \A d \in Conns \ {c} : peer'[d] = peer[d]
  <2>1. ASSUME NEW f \in FreeFds, NewConnection(c, f)
        PROVE  /\ ChangesOne(poller, poller', c)
               /\ poller'.chan[c].state = "connected"
    <3>1. f \in Fds /\ \A d \in Conns : poller.chan[d].fd # f
      BY DEF FreeFds
    <3>2. poller' = Established(poller, c, f)
      BY <2>1 DEF NewConnection, Established
    <3> QED
      BY <1>5, <3>1, <3>2, NewConnectionDoes DEF RInv
  <2>2. CASE \E f \in FreeFds : NewConnection(c, f)
    <3>1. /\ connections' = connections \cup {c}
          /\ peer' = [peer EXCEPT ![c] = "open"]
      BY <2>2 DEF NewConnection
    <3>2. /\ ChangesOne(poller, poller', c)
          /\ poller'.chan[c].state = "connected"
      BY <2>1, <2>2
    <3>3. poller'.chan[c].index # "deleted"
      BY <3>2, ByState DEF ChangesOne, Connected
    <3> QED
      BY <3>1, <3>2, <3>3 DEF RInv, Opened, IsConnected, PeerState, ChangesOne
  <2>3. CASE /\ peer' = [peer EXCEPT ![c] = "refused"]
             /\ UNCHANGED <<connections, poller>>
    <3>1. poller.chan[c].index # "deleted"
      BY <1>5, ByState DEF RInv, Unconnected
    <3> QED
      BY <1>5, <2>3, <3>1
      DEF RInv, Opened, IsConnected, PeerState, ChangesOne
  <2> QED
    BY <1>4, <2>2, <2>3
<1>7. /\ PollerOK(poller')
      /\ \A d \in Conns \ {c} : poller'.chan[d] = poller.chan[d]
  BY <1>6 DEF ChangesOne
<1>8. Opened'
  BY <1>6, <1>7 DEF RInv, Opened, IsConnected
<1>9. Watched'
  <2>1. pc = "events" => c \notin active
    BY <1>5 DEF RInv, Watched, IsConnected
  <2> QED
    BY <1>1, <1>7, <2>1, WatchedStep DEF RInv
<1>10. ~Alive(c) /\ \A d \in Conns \ {c} : Alive(d) => Alive(d)'
  BY <1>5, <1>7 DEF Alive
<1>11. Bound'
  <2>1. ASSUME NEW n \in bound PROVE Alive(functor[n].conn)'
    <3>1. functor[n].conn \in Conns /\ Alive(functor[n].conn)
      BY DEF RInv, Bound, FunctorRec
    <3>2. functor[n].conn # c
      BY <1>10, <3>1
    <3>3. poller'.chan[functor[n].conn] = poller.chan[functor[n].conn]
      BY <1>7, <3>1, <3>2
    <3> QED
      BY <1>3, <3>1, <3>3 DEF Alive
  <2> QED
    BY <1>1, <1>3, <2>1 DEF RInv, Bound, Alive
<1>12. Closing'
  <2>1. poller.chan[c].index # "deleted"
    BY <1>5, ByState DEF RInv, Unconnected
  <2>2. \A n \in Waiting : functor[n].conn \in Conns
    BY DEF RInv, Bound, FunctorRec
  <2>3. \A d \in Conns :
          poller'.chan[d].index = "deleted" <=> poller.chan[d].index = "deleted"
    BY <1>6, <1>7, <2>1
  <2> QED
    BY <1>3, <2>2, <2>3 DEF RInv, Closing
<1>13. TasksOK'
  BY <1>1, <1>10 DEF RInv, TasksOK
<1> QED
  BY <1>7, <1>8, <1>9, <1>11, <1>12, <1>13 DEF RInv

\* Channel::handleEvent of an open connection: it stays open, or it is closed
\* with its functor queued.
LEMMA HandleEventDoes ==
  ASSUME LoopInv, RInv, NEW c \in Conns, HandleEvent(c)
  PROVE  /\ ChangesOne(poller, poller', c)
         /\ pc' = pc /\ ran' = ran /\ active' = active \ {c}
         /\ io' = Reportable' /\ IsConnected(c)
         /\ \/ /\ poller'.chan[c].state = "connected"
               /\ connections' = connections
               /\ QueuesNone \/ QueuesOne("writeComplete", c)
            \/ /\ poller'.chan[c].state = "disconnected"
               /\ poller'.chan[c].index = "deleted"
               /\ connections' = connections \ {c}
               /\ QueuesOne("connectDestroyed", c) /\ Closes(c)
<1>1. /\ HandleIo(c) /\ io' = Reportable'
  BY DEF HandleEvent
<1>2. /\ pc = "events" /\ c \in active /\ active' = active \ {c} /\ pc' = pc
      /\ ran' = ran
      /\ QueueInLoop \/ UNCHANGED <<pending, nq>>
  BY <1>1 DEF HandleIo
<1>3. IsConnected(c) /\ PollerOK(poller)
  BY <1>2 DEF RInv, Watched
<1> DEFINE h == Taken(poller, c)
           p == IF Closes(c) THEN HandleClose(h, c) ELSE h
<1>4. ChangesOne(poller, h, c) /\ h.chan[c].state = "connected" /\ PollerOK(h)
  BY <1>3, TakeRevents DEF IsConnected, ChangesOne
<1>5. \/ /\ poller' = p
         /\ IF Closes(c) THEN RemoveConnection(c)
                         ELSE QueueNothing /\ UNCHANGED connections
      \/ /\ poller' = HandleWrite(p, c)
         /\ IF Closes(c) THEN RemoveConnection(c)
            ELSE QueueWriteComplete(c) /\ UNCHANGED connections
  BY DEF HandleEvent, Taken
<1>6. /\ QueueNothing => QueuesNone
      /\ \A op : Queue(op, c) => QueuesOne(op, c)
  BY <1>2, QueueNumbers
<1> HIDE DEF h
<1>7. CASE Closes(c)
  <2>1. /\ p = HandleClose(h, c)
        /\ ChangesOne(h, p, c) /\ p.chan[c].state = "disconnected"
        /\ p.chan[c].index = "deleted" /\ PollerOK(p)
    BY <1>4, <1>7, HandleCloseDoes DEF ChangesOne
  <2> HIDE DEF p
  <2>2. HandleWrite(p, c) = p
    BY <2>1, HandleWriteDoes
  <2>3. poller' = p
    BY <1>5, <2>2
  <2>4. ChangesOne(poller, poller', c)
    BY <1>4, <2>1, <2>3 DEF ChangesOne
  <2>5. /\ connections' = connections \ {c}
        /\ QueuesOne("connectDestroyed", c)
    BY <1>5, <1>6, <1>7 DEF RemoveConnection
  <2> QED
    BY <1>1, <1>2, <1>3, <1>7, <2>1, <2>3, <2>4, <2>5
<1>8. CASE ~Closes(c)
  <2>1. p = h
    BY <1>8
  <2> HIDE DEF p
  <2>2. /\ ChangesOne(h, HandleWrite(h, c), c)
        /\ HandleWrite(h, c).chan[c].state = "connected"
    BY <1>4, HandleWriteDoes
  <2>3. poller' = h \/ poller' = HandleWrite(h, c)
    BY <1>5, <2>1
  <2>4. /\ ChangesOne(poller, poller', c)
        /\ poller'.chan[c].state = "connected"
    BY <1>4, <2>2, <2>3 DEF ChangesOne
  <2>5. /\ connections' = connections
        /\ QueuesNone \/ QueuesOne("writeComplete", c)
    BY <1>5, <1>6, <1>8 DEF QueueWriteComplete
  <2> QED
    BY <1>1, <1>2, <1>3, <2>4, <2>5
<1> QED
  BY <1>7, <1>8

\* Channel::handleEvent keeps the invariant.
LEMMA HandleEventStep ==
  ASSUME LoopInv, RInv, NEW c \in Conns, HandleEvent(c)
  PROVE  RInv'
<1>1. /\ ChangesOne(poller, poller', c)
      /\ pc' = pc /\ ran' = ran /\ active' = active \ {c}
      /\ io' = Reportable' /\ IsConnected(c)
      /\ \/ /\ poller'.chan[c].state = "connected"
            /\ connections' = connections
            /\ QueuesNone \/ QueuesOne("writeComplete", c)
         \/ /\ poller'.chan[c].state = "disconnected"
            /\ poller'.chan[c].index = "deleted"
            /\ connections' = connections \ {c}
            /\ QueuesOne("connectDestroyed", c)
  BY HandleEventDoes
<1>2. /\ PollerOK(poller')
      /\ \A d \in Conns \ {c} : poller'.chan[d] = poller.chan[d]
  BY <1>1 DEF ChangesOne
<1>3. \A d \in Conns : Alive(d) => Alive(d)'
  BY <1>1, <1>2 DEF Alive
<1>4. Alive(c) /\ Alive(c)' /\ poller.chan[c].index # "deleted"
  BY <1>1, <1>3, ByState DEF RInv, Alive, IsConnected, Connected
<1>5. Later
  BY <1>1, QueueFacts DEF Later
<1>6. /\ tasks \in [Conns -> {"none", "held", "pushed", "done"}]
      /\ peer \in [Conns -> PeerState]
  BY DEF RInv, TasksOK, Opened
<1>7. /\ tasks' \in [Conns -> {"none", "held", "pushed", "done"}]
      /\ \A d \in Conns \ {c} : tasks'[d] = tasks[d]
      /\ tasks[c] = "pushed" => tasks'[c] = "pushed"
  <2>1. \/ tasks' = tasks
        \/ tasks' = [tasks EXCEPT ![c] = IF @ = "none" THEN "held" ELSE @]
    BY DEF HandleEvent, HandleRead
  <2> QED
    BY <1>6, <2>1
<1>8. /\ peer' \in [Conns -> PeerState]
      /\ \A d \in Conns \ {c} : peer'[d] = peer[d]
      /\ peer'[c] \in {"none", "syn"} => peer[c] \in {"none", "syn"}
  <2>1. \/ peer' = peer
        \/ peer' = [peer EXCEPT ![c] = IF @ = "reset" THEN "closed" ELSE @]
    BY DEF HandleEvent, HandleRead
  <2> QED
    BY <1>6, <2>1 DEF PeerState
<1>9. Opened'
  <2>1. peer[c] \notin {"none", "syn"}
    BY <1>1 DEF RInv, Opened, IsConnected
  <2>2. connections' \subseteq Conns
    BY <1>1 DEF RInv, Opened
  <2>3. ASSUME NEW d \in Conns
        PROVE  d \in connections' <=> poller'.chan[d].state = "connected"
    BY <1>1, <1>2 DEF RInv, Opened, IsConnected
  <2> QED
    BY <1>2, <1>8, <2>1, <2>2, <2>3 DEF RInv, Opened, IsConnected
<1>10. Watched'
  BY <1>1, <1>2, WatchedStep DEF RInv
<1>11. Bound'
  <2>1. ASSUME NEW n \in bound PROVE AliveIn(poller', functor[n].conn)
    <3>1. functor[n].conn \in Conns /\ Alive(functor[n].conn)
      BY DEF RInv, Bound, FunctorRec
    <3> QED
      BY <1>3, <3>1 DEF AliveIn, Alive
  <2>2. ASSUME NEW n \in Waiting, functor[n].op = "completeTask"
        PROVE  tasks'[functor[n].conn] = "pushed"
    <3>1. functor[n].conn \in Conns /\ tasks[functor[n].conn] = "pushed"
      BY <2>2 DEF RInv, Bound, FunctorRec
    <3> QED
      BY <1>7, <3>1
  <2>3. \/ QueuesNone
        \/ \E op \in Callbacks, d \in Conns :
             QueuesOne(op, d) /\ AliveIn(poller', d)
    BY <1>1, <1>4 DEF Callbacks, Alive, AliveIn
  <2> QED
    BY <1>5, <2>1, <2>2, <2>3, BoundStep DEF RInv
<1>12. Closing'
  <2>1. CASE /\ poller'.chan[c].state = "connected"
             /\ QueuesNone \/ QueuesOne("writeComplete", c)
    <3>1. poller'.chan[c].index # "deleted"
      BY <1>2, <2>1, ByState DEF Connected
    <3>2. ASSUME NEW n \in Waiting, functor[n].op = "connectDestroyed"
          PROVE  poller'.chan[functor[n].conn].index = "deleted"
      <4>1. /\ functor[n].conn \in Conns
            /\ poller.chan[functor[n].conn].index = "deleted"
        BY <3>2 DEF RInv, Bound, FunctorRec, Closing
      <4> QED
        BY <1>2, <1>4, <4>1
    <3>3. ASSUME NEW d \in Conns, poller'.chan[d].index = "deleted"
          PROVE  \E n \in Waiting :
                   /\ n > Len(ran') /\ functor[n].op = "connectDestroyed"
                   /\ functor[n].conn = d
      <4>1. poller.chan[d].index = "deleted"
        BY <1>2, <3>1, <3>3
      <4>2. PICK n \in Waiting :
              functor[n].op = "connectDestroyed" /\ functor[n].conn = d
        BY <4>1 DEF RInv, Closing
      <4>3. n > Len(ran')
        BY <1>1, QueueFacts DEF Waiting
      <4> QED
        BY <4>2, <4>3
    <3> QED
      BY <1>5, <2>1, <3>2, <3>3, ClosingStep DEF RInv
  <2>2. CASE /\ poller'.chan[c].index = "deleted"
             /\ QueuesOne("connectDestroyed", c)
    BY <1>1, <1>2, <1>4, <2>2, ClosingCloses DEF RInv
  <2> QED
    BY <1>1, <2>1, <2>2
<1>13. TasksOK'
  BY <1>3, <1>4, <1>7 DEF RInv, TasksOK
<1> QED
  BY <1>2, <1>9, <1>10, <1>11, <1>12, <1>13 DEF RInv

\* A functor is called, on connection c.
LEMMA CalledStep ==
  ASSUME LoopInv, RInv, Later, pc' = pc, pc # "events", io' = Reportable',
         connections' = connections, peer' = peer,
         NEW c \in Conns, ChangesOne(poller, poller', c),
         poller.chan[c].state # "none",
         poller'.chan[c].state = "connected"
           <=> poller.chan[c].state = "connected",
         \/ QueuesNone
         \/ QueuesOne("writeComplete", c) /\ AliveIn(poller', c),
         tasks' \in [Conns -> {"none", "held", "pushed", "done"}],
         \A d \in Conns :
           tasks'[d] \in {"held", "pushed"} => AliveIn(poller', d),
         \A n \in bound : AliveIn(poller', functor[n].conn),
         \A n \in Waiting :
           n > Len(ran') /\ functor[n].op = "completeTask" =>
             tasks'[functor[n].conn] = "pushed",
         \A n \in Waiting :
           n > Len(ran') /\ functor[n].op = "connectDestroyed" =>
             poller'.chan[functor[n].conn].index = "deleted",
         \A d \in Conns : poller'.chan[d].index = "deleted" =>
           \E n \in Waiting :
             /\ n > Len(ran') /\ functor[n].op = "connectDestroyed"
             /\ functor[n].conn = d
  PROVE  RInv'
<1>1. /\ PollerOK(poller')
      /\ \A d \in Conns \ {c} : poller'.chan[d] = poller.chan[d]
  BY DEF ChangesOne
<1>2. Opened'
  BY <1>1 DEF RInv, Opened, IsConnected
<1>3. Watched'
  <2>1. \A d \in io' \cap Conns : poller'.chan[d].state = "connected"
    BY <1>1, ReportsConnected
  <2> QED
    BY <2>1 DEF Watched, IsConnected
<1>4. Bound'
  <2>1. \/ QueuesNone
        \/ \E op \in Callbacks, d \in Conns :
             QueuesOne(op, d) /\ AliveIn(poller', d)
    BY DEF Callbacks
  <2> QED
    BY <2>1, BoundStep DEF RInv
<1>5. Closing'
  <2>1. QueuesNone \/ \E d \in Conns : QueuesOne("writeComplete", d)
    OBVIOUS
  <2> QED
    BY <2>1, ClosingStep DEF RInv
<1>6. TasksOK'
  BY DEF TasksOK, Alive, AliveIn
<1> QED
  BY <1>1, <1>2, <1>3, <1>4, <1>5, <1>6 DEF RInv

\* doPendingFunctors calls the functor that was queued first, and of its kind
\* no other waits for the same connection.
LEMMA CallFacts ==
  ASSUME LoopInv, RInv, RunFunctor, NEW k, k = Len(ran) + 1
  PROVE  /\ Head(functors) = k /\ k \in Waiting
         /\ functor[k] \in FunctorRec /\ functor[k].conn \in Conns
         /\ Later /\ Len(ran') = k
         /\ pc' = pc /\ pc # "events" /\ io' = Reportable'
         /\ connections' = connections /\ peer' = peer
         /\ \A n \in Waiting : n # k => n > Len(ran')
         /\ \A n \in Waiting : n > Len(ran') => n # k
         /\ QueueNothing => QueuesNone
         /\ \A op, c : Queue(op, c) => QueuesOne(op, c)
<1>1. CallFunctor /\ connections' = connections /\ peer' = peer
      /\ io' = Reportable'
  BY DEF RunFunctor
<1>2. /\ functors # <<>> /\ pc = "call" /\ pc' = pc
      /\ ran' = Append(ran, Head(functors))
      /\ QueueInLoop \/ UNCHANGED <<pending, nq>>
  BY <1>1 DEF CallFunctor
<1>3. /\ nq \in Nat /\ Len(ran) \in Nat /\ ran \in Seq(Nat)
      /\ Head(functors) = k /\ k \in Waiting
  BY <1>2, QueueFacts
<1>4. Len(ran') = k /\ Later
  <2>1. Head(functors) \in Nat
    BY <1>3
  <2>2. Len(ran') = Len(ran) + 1
    BY <1>2, <1>3, <2>1
  <2> QED
    BY <1>3, <2>2 DEF Later
<1>5. /\ \A n \in Waiting : n # k => n > Len(ran')
      /\ \A n \in Waiting : n > Len(ran') => n # k
  BY <1>3, <1>4 DEF Waiting
<1>6. functor[k] \in FunctorRec /\ functor[k].conn \in Conns
  BY <1>3 DEF RInv, Bound, FunctorRec
<1>7. /\ QueueNothing => QueuesNone
      /\ \A op, c : Queue(op, c) => QueuesOne(op, c)
  BY <1>2, QueueNumbers
<1> QED
  BY <1>1, <1>2, <1>3, <1>4, <1>5, <1>6, <1>7

\* connectDestroyed leaves nothing of the connection in the Poller.
LEMMA CallConnectDestroyed ==
  ASSUME LoopInv, RInv, RunFunctor, NEW k, k = Len(ran) + 1, NEW c,
         functor[k].op = "connectDestroyed", functor[k].conn = c
  PROVE  RInv'
<1>1. /\ Head(functors) = k /\ k \in Waiting /\ c \in Conns
      /\ Later /\ Len(ran') = k
      /\ pc' = pc /\ pc # "events" /\ io' = Reportable'
      /\ connections' = connections /\ peer' = peer
      /\ \A n \in Waiting : n # k => n > Len(ran')
      /\ \A n \in Waiting : n > Len(ran') => n # k
      /\ QueueNothing => QueuesNone
  BY CallFacts
<1>2. /\ poller' = ConnectDestroyed(poller, c) /\ QueueNothing
      /\ tasks' = tasks
  BY <1>1 DEF RunFunctor
<1>3. poller.chan[c].index = "deleted" /\ PollerOK(poller)
  BY <1>1 DEF RInv, Closing
<1>4. /\ ChangesOne(poller, poller', c)
      /\ poller'.chan[c].state = "disconnected"
      /\ poller'.chan[c].index = "new"
  BY <1>1, <1>2, <1>3, ConnectDestroyedDoes
<1>5. \A d \in Conns \ {c} : poller'.chan[d] = poller.chan[d]
  BY <1>4 DEF ChangesOne
<1>6. poller.chan[c].state = "disconnected"
  BY <1>1, <1>3, ByState DEF Closed
<1>7. \A d \in Conns : Alive(d) => AliveIn(poller', d)
  BY <1>4, <1>5 DEF Alive, AliveIn
<1>8. /\ tasks' \in [Conns -> {"none", "held", "pushed", "done"}]
      /\ \A d \in Conns :
           tasks'[d] \in {"held", "pushed"} => AliveIn(poller', d)
  BY <1>2, <1>7 DEF RInv, TasksOK
<1>9. \A n \in bound : AliveIn(poller', functor[n].conn)
  BY <1>7 DEF RInv, Bound, FunctorRec
<1>10. \A n \in Waiting : functor[n].op = "completeTask" =>
         tasks'[functor[n].conn] = "pushed"
  BY <1>2 DEF RInv, Bound
<1>11. ASSUME NEW n \in Waiting, n > Len(ran'),
              functor[n].op = "connectDestroyed"
       PROVE  poller'.chan[functor[n].conn].index = "deleted"
  <2>1. functor[n].conn \in Conns \ {c}
    BY <1>1, <1>11 DEF RInv, Closing, Bound, FunctorRec
  <2> QED
    BY <1>5, <1>11, <2>1 DEF RInv, Closing
<1>12. ASSUME NEW d \in Conns, poller'.chan[d].index = "deleted"
       PROVE  \E n \in Waiting :
                /\ n > Len(ran') /\ functor[n].op = "connectDestroyed"
                /\ functor[n].conn = d
  <2>1. d # c /\ poller.chan[d].index = "deleted"
    BY <1>4, <1>5, <1>12
  <2>2. PICK n \in Waiting :
          functor[n].op = "connectDestroyed" /\ functor[n].conn = d
    BY <2>1 DEF RInv, Closing
  <2> QED
    BY <1>1, <2>1, <2>2
<1>13. QueuesNone
  BY <1>1, <1>2
<1> QED
  BY <1>1, <1>2, <1>4, <1>6, <1>8, <1>9, <1>10, <1>11, <1>12, <1>13, CalledStep

\* writeCompleteCallback_ changes nothing here.
LEMMA CallWriteComplete ==
  ASSUME LoopInv, RInv, RunFunctor, NEW k, k = Len(ran) + 1, NEW c,
         functor[k].op = "writeComplete", functor[k].conn = c
  PROVE  RInv'
<1>1. /\ Head(functors) = k /\ k \in Waiting /\ c \in Conns
      /\ Later /\ Len(ran') = k
      /\ pc' = pc /\ pc # "events" /\ io' = Reportable'
      /\ connections' = connections /\ peer' = peer
      /\ \A n \in Waiting : n # k => n > Len(ran')
      /\ QueueNothing => QueuesNone
  BY CallFacts
<1>2. poller' = poller /\ QueueNothing /\ tasks' = tasks
  BY <1>1 DEF RunFunctor
<1>3. ChangesOne(poller, poller', c)
  BY <1>2 DEF RInv, ChangesOne
<1>4. k \in bound
  BY <1>1 DEF RInv, Bound
<1>5. \A n \in bound : AliveIn(poller', functor[n].conn)
  BY <1>2 DEF RInv, Bound, Alive, AliveIn
<1>6. poller.chan[c].state # "none"
  BY <1>2, <1>4, <1>5 DEF AliveIn
<1>7. /\ tasks' \in [Conns -> {"none", "held", "pushed", "done"}]
      /\ \A d \in Conns :
           tasks'[d] \in {"held", "pushed"} => AliveIn(poller', d)
  BY <1>2 DEF RInv, TasksOK, Alive, AliveIn
<1>8. \A n \in Waiting : functor[n].op = "completeTask" =>
        tasks'[functor[n].conn] = "pushed"
  BY <1>2 DEF RInv, Bound
<1>9. \A n \in Waiting : functor[n].op = "connectDestroyed" =>
        poller'.chan[functor[n].conn].index = "deleted"
  BY <1>2 DEF RInv, Closing
<1>10. ASSUME NEW d \in Conns, poller'.chan[d].index = "deleted"
       PROVE  \E n \in Waiting :
                /\ n > Len(ran') /\ functor[n].op = "connectDestroyed"
                /\ functor[n].conn = d
  <2>1. PICK n \in Waiting :
          functor[n].op = "connectDestroyed" /\ functor[n].conn = d
    BY <1>2, <1>10 DEF RInv, Closing
  <2> QED
    BY <1>1, <2>1
<1>11. QueuesNone
  BY <1>1, <1>2
<1> QED
  BY <1>1, <1>2, <1>3, <1>5, <1>6, <1>7, <1>8, <1>9, <1>10, <1>11, CalledStep

\* sendInLoop of a response: the connection stays as it is, or writes.
LEMMA SendInLoopDoes ==
  ASSUME PollerOK(poller), NEW c \in Conns, SendInLoop(c)
  PROVE  /\ ChangesOne(poller, poller', c)
         /\ poller'.chan[c].state = poller.chan[c].state
         /\ poller'.chan[c].index = poller.chan[c].index
         /\ \/ QueueNothing
            \/ Queue("writeComplete", c) /\ poller.chan[c].state = "connected"
<1>1. CASE poller' = poller
  BY <1>1 DEF SendInLoop, ChangesOne, QueueWriteComplete
<1>2. CASE /\ poller.chan[c].state = "connected" /\ QueueNothing
           /\ poller' = SetEvents(poller, c, poller.chan[c].events \cup {"OUT"})
  <2> DEFINE ev == poller.chan[c].events \cup {"OUT"}
  <2>1. Connected(poller, c) /\ poller.chan[c] \in ConnRec
    BY <1>2, ByState
  <2>2. ev \in SUBSET Ev /\ "IN" \in ev
    BY <2>1 DEF Connected, ConnRec, Ev
  <2>3. poller' = SetEvents(poller, c, ev)
    BY <1>2
  <2> HIDE DEF ev
  <2>4. /\ ChangesOne(poller, poller', c)
        /\ poller'.chan[c].state = "connected"
    BY <1>2, <2>2, <2>3, WatchOther
  <2>5. Connected(poller', c)
    BY <2>4, ByState DEF ChangesOne
  <2>6. poller'.chan[c].index = poller.chan[c].index
    BY <2>1, <2>5 DEF Connected
  <2> QED
    BY <1>2, <2>4, <2>6
<1> QED
  BY <1>1, <1>2 DEF SendInLoop

\* completeTask, in the loop: the connection it held is still there, and if
\* nobody else holds it, it is over and can be destructed.
LEMMA CallCompleteTask ==
  ASSUME LoopInv, RInv, RunFunctor, NEW k, k = Len(ran) + 1, NEW c,
         functor[k].op = "completeTask", functor[k].conn = c
  PROVE  RInv'
<1>1. /\ Head(functors) = k /\ k \in Waiting /\ c \in Conns
      /\ Later /\ Len(ran') = k
      /\ pc' = pc /\ pc # "events" /\ io' = Reportable'
      /\ connections' = connections /\ peer' = peer
      /\ \A n \in Waiting : n # k => n > Len(ran')
      /\ \A n \in Waiting : n > Len(ran') => n # k
      /\ QueueNothing => QueuesNone
      /\ Queue("writeComplete", c) => QueuesOne("writeComplete", c)
  BY CallFacts
<1>2. CompleteTask(c)
  BY <1>1 DEF RunFunctor
<1>3. tasks[c] = "pushed" /\ Alive(c)
  BY <1>1 DEF RInv, Bound, TasksOK
<1>4. /\ tasks' = [tasks EXCEPT ![c] = "done"]
      /\ tasks' \in [Conns -> {"none", "held", "pushed", "done"}]
      /\ tasks'[c] = "done" /\ \A d \in Conns \ {c} : tasks'[d] = tasks[d]
  BY <1>1, <1>2 DEF CompleteTask, RInv, TasksOK
<1>5. ASSUME NEW n \in Waiting, n > Len(ran'), functor[n].op = "completeTask"
      PROVE  tasks'[functor[n].conn] = "pushed"
  <2>1. functor[n].conn \in Conns /\ tasks[functor[n].conn] = "pushed"
    BY <1>5 DEF RInv, Bound, FunctorRec
  <2>2. functor[n].conn # c
    BY <1>1, <1>5 DEF RInv, Closing
  <2> QED
    BY <1>4, <2>1, <2>2
<1>6. ASSUME NEW d \in Conns, poller.chan[d].index = "deleted"
      PROVE  \E n \in Waiting :
               /\ n > Len(ran') /\ functor[n].op = "connectDestroyed"
               /\ functor[n].conn = d
  <2>1. PICK n \in Waiting :
          functor[n].op = "connectDestroyed" /\ functor[n].conn = d
    BY <1>6 DEF RInv, Closing
  <2> QED
    BY <1>1, <2>1
<1>7. \A n \in Waiting : functor[n].op = "connectDestroyed" =>
        /\ functor[n].conn \in Conns /\ n \in bound
        /\ poller.chan[functor[n].conn].index = "deleted"
  BY DEF RInv, Bound, FunctorRec, Closing
<1>8. \A n \in bound : functor[n].conn \in Conns /\ Alive(functor[n].conn)
  BY DEF RInv, Bound, FunctorRec
<1>9. PollerOK(poller)
  BY DEF RInv
<1>10. CASE SendInLoop(c)
  <2>1. /\ ChangesOne(poller, poller', c)
        /\ poller'.chan[c].state = poller.chan[c].state
        /\ poller'.chan[c].index = poller.chan[c].index
        /\ \/ QueueNothing
           \/ Queue("writeComplete", c) /\ poller.chan[c].state = "connected"
    BY <1>1, <1>9, <1>10, SendInLoopDoes
  <2>2. \A d \in Conns \ {c} : poller'.chan[d] = poller.chan[d]
    BY <2>1 DEF ChangesOne
  <2>3. \A d \in Conns : /\ Alive(d) => AliveIn(poller', d)
                         /\ poller'.chan[d].index = poller.chan[d].index
    BY <2>1, <2>2 DEF Alive, AliveIn
  <2>4. \A d \in Conns : tasks'[d] \in {"held", "pushed"} => AliveIn(poller', d)
    BY <1>4, <2>3 DEF RInv, TasksOK
  <2>5. \A n \in bound : AliveIn(poller', functor[n].conn)
    BY <1>8, <2>3
  <2>6. \A n \in Waiting : functor[n].op = "connectDestroyed" =>
          poller'.chan[functor[n].conn].index = "deleted"
    BY <1>7, <2>3
  <2>7. \A d \in Conns : poller'.chan[d].index = "deleted" =>
          \E n \in Waiting :
            /\ n > Len(ran') /\ functor[n].op = "connectDestroyed"
            /\ functor[n].conn = d
    BY <1>6, <2>3
  <2>8. \/ QueuesNone
        \/ QueuesOne("writeComplete", c) /\ AliveIn(poller', c)
    BY <1>1, <1>3, <2>1, <2>3
  <2>9. poller.chan[c].state # "none"
    BY <1>3 DEF Alive
  <2> QED
    BY <1>1, <1>4, <1>5, <2>1, <2>4, <2>5, <2>6, <2>7, <2>8, <2>9, CalledStep
<1>11. CASE ~Kept(c) /\ poller' = Destruct(poller, {c}) /\ QueueNothing
  <2>1. c \notin connections /\ \A n \in bound : functor[n].conn # c
    BY <1>11 DEF Kept
  <2>2. poller.chan[c].state # "connected"
    BY <1>1, <2>1 DEF RInv, Opened, IsConnected
  <2>3. Closed(poller, c) /\ poller.chan[c].state = "disconnected"
    BY <1>1, <1>3, <1>9, <2>2
    DEF PollerOK, Unconnected, Connected, Closed, Alive
  <2>4. poller.chan[c].index # "deleted"
    BY <1>1, <1>6, <1>7, <2>1
  <2>5. poller.chan[c].index = "new"
    BY <2>3, <2>4 DEF Closed
  <2>6. /\ PollerOK(poller')
        /\ poller'.chan[c].state = "freed" /\ poller'.chan[c].index = "new"
        /\ \A d \in Conns \ {c} : poller'.chan[d] = poller.chan[d]
    <3> DEFINE S == {c}
    <3>1. /\ S \in SUBSET Conns /\ c \in S /\ \A d \in S : d = c
          /\ \A d \in Conns \ {c} : d \in Conns \ S
      BY <1>1
    <3>2. poller' = Destruct(poller, S)
      BY <1>11
    <3> HIDE DEF S
    <3>3. /\ PollerOK(Destruct(poller, S))
          /\ \A d \in S : /\ Destruct(poller, S).chan[d].state = "freed"
                          /\ Destruct(poller, S).chan[d].index = "new"
          /\ \A d \in Conns \ S : Destruct(poller, S).chan[d] = poller.chan[d]
      BY <1>9, <2>3, <2>5, <3>1, DestructDoes
    <3> QED
      BY <3>1, <3>2, <3>3
  <2>7. ChangesOne(poller, poller', c)
    BY <2>6 DEF ChangesOne
  <2>8. \A d \in Conns : tasks'[d] \in {"held", "pushed"} => AliveIn(poller', d)
    BY <1>4, <2>6 DEF RInv, TasksOK, Alive, AliveIn
  <2>9. \A n \in bound : AliveIn(poller', functor[n].conn)
    BY <1>8, <2>1, <2>6 DEF Alive, AliveIn
  <2>10. \A n \in Waiting : functor[n].op = "connectDestroyed" =>
           poller'.chan[functor[n].conn].index = "deleted"
    BY <1>7, <2>1, <2>6
  <2>11. \A d \in Conns : poller'.chan[d].index = "deleted" =>
           \E n \in Waiting :
             /\ n > Len(ran') /\ functor[n].op = "connectDestroyed"
             /\ functor[n].conn = d
    BY <1>6, <2>6
  <2>12. QueuesNone
    BY <1>1, <1>11
  <2> QED
    BY <1>1, <1>4, <1>5, <2>3, <2>6, <2>7, <2>8, <2>9, <2>10, <2>11, <2>12,
       CalledStep
<1>12. CASE Kept(c) /\ poller' = poller /\ QueueNothing
  <2>1. ChangesOne(poller, poller', c)
    BY <1>9, <1>12 DEF ChangesOne
  <2>2. \A d \in Conns : tasks'[d] \in {"held", "pushed"} => AliveIn(poller', d)
    BY <1>4, <1>12 DEF RInv, TasksOK, Alive, AliveIn
  <2>3. \A n \in bound : AliveIn(poller', functor[n].conn)
    BY <1>8, <1>12 DEF Alive, AliveIn
  <2>4. \A n \in Waiting : functor[n].op = "connectDestroyed" =>
          poller'.chan[functor[n].conn].index = "deleted"
    BY <1>7, <1>12
  <2>5. \A d \in Conns : poller'.chan[d].index = "deleted" =>
          \E n \in Waiting :
            /\ n > Len(ran') /\ functor[n].op = "connectDestroyed"
            /\ functor[n].conn = d
    BY <1>6, <1>12
  <2>6. QueuesNone /\ poller.chan[c].state # "none"
    BY <1>1, <1>3, <1>12 DEF Alive
  <2> QED
    BY <1>1, <1>4, <1>5, <1>12, <2>1, <2>2, <2>3, <2>4, <2>5, <2>6, CalledStep
<1> QED
  BY <1>2, <1>10, <1>11, <1>12 DEF CompleteTask

\* A functor is called, whatever it does.
LEMMA RunFunctorStep == LoopInv /\ RInv /\ RunFunctor => RInv'
<1> SUFFICES ASSUME LoopInv, RInv, RunFunctor PROVE RInv'
  OBVIOUS
<1> DEFINE k == Len(ran) + 1
<1>1. functor[k] \in FunctorRec
  BY CallFacts
<1>2. functor[k].op \in {"connectDestroyed", "writeComplete", "completeTask"}
  BY <1>1 DEF FunctorRec
<1> QED
  BY <1>2, CallConnectDestroyed, CallWriteComplete, CallCompleteTask

\* The functors that were called are destroyed, and with them the connections
\* they were the last to hold: those are closed and out of the Poller.
LEMMA FunctorsDoneStep == LoopInv /\ RInv /\ FunctorsDone => RInv'
<1> SUFFICES ASSUME LoopInv, RInv, FunctorsDone PROVE RInv'
  OBVIOUS
<1> DEFINE S == {c \in Conns : Alive(c) /\ ~Held(c)'}
<1>1. /\ nq' = nq /\ ran' = ran /\ io' = io /\ pc' = "while"
      /\ connections' = connections /\ tasks' = tasks /\ peer' = peer
      /\ bound' = bound \ Range(ran)
      /\ functor' = [n \in 1 .. nq |->
                      IF n \in Range(ran) THEN None ELSE functor[n]]
      /\ poller' = Destruct(poller, S)
  BY DEF FunctorsDone, CallsDone, LoopGoto
<1>2. /\ nq \in Nat /\ Len(ran) \in Nat /\ Range(ran) = 1 .. Len(ran)
  BY QueueFacts
<1>3. /\ functor \in Seq(FunctorRec \cup {None}) /\ Len(functor) = nq
      /\ bound \subseteq 1 .. nq
  BY DEF RInv, Bound
<1>4. Waiting' = Waiting
  BY <1>1 DEF Waiting
<1>5. ASSUME NEW n \in Waiting \cup bound'
      PROVE  functor'[n] = functor[n] /\ n \in 1 .. nq
  <2>1. n \in 1 .. nq /\ n \notin Range(ran)
    BY <1>1, <1>2, <1>3 DEF Waiting
  <2> QED
    BY <1>1, <2>1
<1>6. \A n \in Waiting : n \in bound => n \in bound'
  BY <1>1, <1>2 DEF Waiting
<1>7. \A c \in Conns : /\ c \in S => Alive(c) /\ ~Held(c)'
                       /\ c \notin S => ~Alive(c) \/ Held(c)'
  OBVIOUS
<1>8. S \in SUBSET Conns
  OBVIOUS
<1> HIDE DEF S
<1>9. ASSUME NEW c \in S
      PROVE  /\ c \notin connections /\ \A n \in bound' : functor'[n].conn # c
             /\ tasks[c] \notin {"held", "pushed"} /\ c \in Conns
  BY <1>1, <1>7, <1>8 DEF Held, Kept
<1>10. ASSUME NEW c \in S
       PROVE  poller.chan[c].state = "disconnected"
              /\ poller.chan[c].index = "new"
  <2>1. c \in Conns /\ Alive(c) /\ poller.chan[c].state # "connected"
    BY <1>7, <1>8, <1>9 DEF RInv, Opened, IsConnected
  <2>2. Closed(poller, c)
    BY <2>1 DEF RInv, PollerOK, Unconnected, Connected, Alive
  <2>3. poller.chan[c].index # "deleted"
    <3>1. SUFFICES ASSUME poller.chan[c].index = "deleted" PROVE FALSE
      OBVIOUS
    <3>2. PICK n \in Waiting :
            functor[n].op = "connectDestroyed" /\ functor[n].conn = c
      BY <2>1, <3>1 DEF RInv, Closing
    <3>3. n \in bound'
      BY <1>6, <3>2 DEF RInv, Bound
    <3> QED
      BY <1>5, <1>9, <3>2, <3>3
  <2> QED
    BY <2>2, <2>3 DEF Closed
<1>11. /\ PollerOK(poller')
       /\ \A c \in S : poller'.chan[c].state = "freed"
                       /\ poller'.chan[c].index = "new"
       /\ \A c \in Conns \ S : poller'.chan[c] = poller.chan[c]
  BY <1>1, <1>8, <1>10, DestructDoes DEF RInv
<1>12. \A c \in Conns :
         /\ poller'.chan[c].state = "connected"
              <=> poller.chan[c].state = "connected"
         /\ poller'.chan[c].index = poller.chan[c].index
         /\ poller.chan[c].state = "none" => poller'.chan[c].state = "none"
  BY <1>10, <1>11
<1>13. Opened'
  BY <1>1, <1>12 DEF RInv, Opened, IsConnected
<1>14. Watched'
  BY <1>1, <1>12 DEF RInv, Watched, IsConnected
<1>15. Bound'
  <2>1. functor' \in Seq(FunctorRec \cup {None}) /\ Len(functor') = nq'
    <3> DEFINE T == FunctorRec \cup {None}
    <3>1. \A n \in 1 .. nq : functor[n] \in T /\ None \in T
      BY <1>3
    <3> HIDE DEF T
    <3>2. functor' \in [1 .. nq -> T]
      BY <1>1, <3>1
    <3>3. functor' \in Seq(T) /\ Len(functor') = nq
      BY <1>2, <3>2
    <3> QED
      BY <1>1, <3>3 DEF T
  <2>2. bound' \subseteq 1 .. nq'
    BY <1>1, <1>3
  <2>3. ASSUME NEW n \in bound'
        PROVE  functor'[n] \in FunctorRec /\ Alive(functor[n].conn)'
    <3>1. /\ n \in bound /\ functor'[n] = functor[n]
          /\ functor[n] \in FunctorRec /\ functor[n].conn \in Conns
          /\ Alive(functor[n].conn)
      BY <1>1, <1>5, <2>3 DEF RInv, Bound, FunctorRec
    <3>2. functor[n].conn \notin S
      BY <1>9, <2>3, <3>1
    <3> QED
      BY <1>11, <3>1, <3>2 DEF Alive
  <2>4. ASSUME NEW n \in Waiting'
        PROVE  /\ functor'[n] \in FunctorRec
               /\ IF functor'[n].op = "completeTask"
                    THEN tasks'[functor'[n].conn] = "pushed" ELSE n \in bound'
    BY <1>1, <1>4, <1>5, <1>6 DEF RInv, Bound
  <2> QED
    BY <2>1, <2>2, <2>3, <2>4 DEF Bound
<1>16. Closing'
  <2>1. \A n \in Waiting : functor[n].conn \in Conns
    BY DEF RInv, Bound, FunctorRec
  <2> QED
    BY <1>4, <1>5, <1>12, <2>1 DEF RInv, Closing
<1>17. TasksOK'
  BY <1>1, <1>9, <1>11 DEF RInv, TasksOK, Alive
<1> QED
  BY <1>11, <1>13, <1>14, <1>15, <1>16, <1>17 DEF RInv

\* Every step keeps the invariant.
LEMMA NextRInv == LoopInv /\ RInv /\ [RNext]_allVars => RInv'
<1> SUFFICES ASSUME LoopInv, RInv, [RNext]_allVars PROVE RInv'
  OBVIOUS
<1>1. CASE (Publish \/ Begin \/ While \/ ThreadEnd) /\ UNCHANGED rvars
  BY <1>1, QuietStep DEF Publish, Begin, While, ThreadEnd, LoopGoto
<1>2. CASE (HandleWakeup \/ Swap) /\ UNCHANGED rvars
  BY <1>2, QuietStep DEF HandleWakeup, Swap, LoopGoto
<1>3. CASE FreeStep
  <2>1. CASE PollTimeout /\ UNCHANGED rvars
    BY <2>1, QuietStep DEF PollTimeout, PollReturns
  <2>2. CASE Destroy /\ UNCHANGED rvars
    BY <2>2, QuietStep DEF Destroy
  <2> QED
    BY <1>3, <2>1, <2>2, PushStep, PeerStep DEF FreeStep
<1>4. CASE OwnerStep
  BY <1>4, QuietStep DEF OwnerStep, StartLoop, QuitWakeup
<1>5. ASSUME NEW t \in Threads, WakeupStep(t) PROVE RInv'
  BY <1>5, QuietStep DEF WakeupStep, Wakeup
<1>6. CASE UNCHANGED allVars
  BY <1>6, QuietStep DEF allVars, vars
<1>7. CASE LoopStep
  BY <1>1, <1>2, <1>7, PollStep, RunFunctorStep, FunctorsDoneStep, AcceptStep,
     HandleEventStep DEF LoopStep
<1> QED
  BY <1>3, <1>4, <1>5, <1>6, <1>7 DEF RNext

\* The invariant of connections, channels and functors holds throughout.
THEOREM ReactorInvariance == RSpec => [](LoopInv /\ RInv)
<1>1. RInit => RInv
  BY InitRInv
<1>2. LoopInv /\ RInv /\ [RNext]_allVars => RInv'
  BY NextRInv
<1>3. RSpec => []LoopInv
  BY ReactorImplementsLoop, LoopInvariance, PTL
<1> QED
  BY <1>1, <1>2, <1>3, PTL DEF RSpec

\* For any number of connections and descriptors, no assertion of Poller,
\* Channel and TcpConnection fails, and the map, epoll's set and the channels
\* agree.
THEOREM RegistrationAlwaysOK == RSpec => []RegistrationOK
<1>1. ASSUME RInv PROVE RegistrationOK
  <2>1. PollerOK(poller) /\ poller.ok = TRUE
    BY <1>1 DEF RInv, PollerOK, IsPoller
  <2>2. ASSUME NEW f \in Fds,
               poller.channels[f] # None \/ poller.epoll[f] # None
        PROVE  \E c \in Conns :
                 /\ poller.chan[c].fd = f
                 /\ Connected(poller, c) \/ Closed(poller, c)
    <3>1. PICK c \in Conns : poller.chan[c].fd = f
      BY <2>1, <2>2 DEF PollerOK
    <3> QED
      BY <2>1, <3>1, NoneIsNoFd DEF PollerOK, Unconnected
  <2>3. ASSUME NEW f \in Fds, poller.channels[f] # None
        PROVE  /\ Alive(poller.channels[f])
               /\ poller.chan[poller.channels[f]].fd = f
    <3>1. PICK c \in Conns : /\ poller.chan[c].fd = f
                             /\ Connected(poller, c) \/ Closed(poller, c)
      BY <2>2, <2>3
    <3>2. poller.channels[f] = c
      BY <2>3, <3>1 DEF Connected, Closed
    <3> QED
      BY <3>1, <3>2 DEF Alive, Connected, Closed
  <2>4. ASSUME NEW f \in Fds, poller.epoll[f] # None
        PROVE  /\ poller.epoll[f].ptr = poller.channels[f]
               /\ poller.epoll[f].events
                    = poller.chan[poller.channels[f]].events
               /\ poller.epoll[f].events # {}
    <3>1. PICK c \in Conns : /\ poller.chan[c].fd = f
                             /\ Connected(poller, c) \/ Closed(poller, c)
      BY <2>2, <2>4
    <3>2. Connected(poller, c)
      BY <2>4, <3>1 DEF Closed
    <3> QED
      BY <3>1, <3>2 DEF Connected
  <2> QED
    BY <2>1, <2>3, <2>4 DEF RegistrationOK, AssertionsHold
<1> QED
  BY <1>1, ReactorInvariance, PTL

\* The connections that are over, whether they are destructed yet or not, and
\* those whose peer has left.
OverIn(p, c) == p.chan[c].state \in {"disconnected", "freed"}
LeftIn(q, c) == q[c] \in {"closed", "reset"}

\* A connection is over only when its peer has left, a hang-up is reported only
\* for such a one, and what was used after its end was destructed.
Departed ==
  /\ \A c \in Conns : OverIn(poller, c) => LeftIn(peer, c)
  /\ pc = "events" =>
       \A c \in active \cap Conns :
         "HUP" \in poller.chan[c].revents => LeftIn(peer, c)
  /\ stale \subseteq {c \in Conns : poller.chan[c].state = "freed"}

\* A step that ends only connections whose peer has left.
LEMMA DepartedStep ==
  ASSUME Departed,
         \A d \in Conns : LeftIn(peer, d) => LeftIn(peer', d),
         \A d \in Conns :
           OverIn(poller', d) => OverIn(poller, d) \/ LeftIn(peer', d),
         \A d \in Conns :
           poller.chan[d].state = "freed" => poller'.chan[d].state = "freed",
         stale' \subseteq
           stale \cup {d \in Conns : poller'.chan[d].state = "freed"},
         \/ pc' # "events"
         \/ \A d \in active' \cap Conns :
              "HUP" \in poller'.chan[d].revents =>
                \/ LeftIn(peer', d)
                \/ /\ pc = "events" /\ d \in active
                   /\ poller'.chan[d] = poller.chan[d]
  PROVE  Departed'
  BY DEF Departed

\* The steps that leave connections and channels alone.
LEMMA DepartedQuiet ==
  ASSUME Departed, UNCHANGED <<poller, stale>>,
         \A d \in Conns : LeftIn(peer, d) => LeftIn(peer', d),
         pc' = "events" => \/ pc = "events" /\ active' \subseteq active
                           \/ active' = {}
  PROVE  Departed'
<1>1. \A d \in Conns : OverIn(poller', d) => OverIn(poller, d)
  BY DEF OverIn
<1>2. stale' \subseteq stale
  OBVIOUS
<1>3. \/ pc' # "events"
      \/ \A d \in active' \cap Conns : /\ pc = "events" /\ d \in active
                                      /\ poller'.chan[d] = poller.chan[d]
  OBVIOUS
<1> QED
  BY <1>1, <1>2, <1>3, DepartedStep

\* epoll reports a hang-up only of a peer that has left.
LEMMA DepartedPoll ==
  ASSUME LoopInv, RInv, Departed, PollChannels, stale' = stale
  PROVE  Departed'
<1>1. /\ peer' = peer /\ FillActiveChannels /\ active' = Ready
      /\ Ready = (IF wakefd THEN {"wakeup"} ELSE {}) \cup io
  BY DEF PollChannels, Poll, PollReturns, Ready
<1>2. io \in SUBSET Channels /\ "wakeup" \notin Channels
  BY LoopAssumption DEF LoopInv, TypeOK, QueuesOK
<1>3. \A c \in io \cap Conns : IsConnected(c)
  BY DEF RInv, Watched
<1>4. \A c \in Conns : SameChannel(poller'.chan[c], poller.chan[c])
  BY <1>1, <1>2, <1>3, FillDoes DEF RInv
<1>5. \A c \in Conns : poller'.chan[c].state = poller.chan[c].state
  BY <1>4 DEF SameChannel
<1>6. ASSUME NEW c \in active' \cap Conns, "HUP" \in poller'.chan[c].revents
      PROVE  LeftIn(peer', c)
  <2>1. poller.chan[c] \in ConnRec /\ PollerOK(poller)
    BY ByState DEF RInv
  <2>2. poller'.chan[c].revents = IF c \in io THEN Revents(poller, c) ELSE {}
    BY <1>1, <2>1 DEF FillActiveChannels, PollerOK, IsPoller, PollerRec, ConnRec
  <2>3. c \in io /\ "HUP" \in Revents(poller, c)
    BY <1>6, <2>2
  <2>4. Connected(poller, c)
    BY <1>3, <2>1, <2>3, ByState DEF IsConnected
  <2> DEFINE f == poller.chan[c].fd
  <2>5. poller.epoll[f].events = poller.chan[c].events
    BY <2>4 DEF Connected
  <2>6. "HUP" \notin poller.epoll[f].events
    BY <2>1, <2>5 DEF ConnRec, Ev
  <2>7. peer[c] = "reset"
    BY <2>3, <2>6 DEF Revents
  <2> QED
    BY <1>1, <2>7 DEF LeftIn
<1> QED
  BY <1>1, <1>5, <1>6, DepartedStep DEF OverIn, LeftIn

\* A connection is accepted, and is not over.
LEMMA DepartedAccept ==
  ASSUME LoopInv, RInv, Departed, AcceptorHandleRead, stale' = stale
  PROVE  Departed'
<1>1. PICK c \in Conns :
        /\ peer[c] = "syn"
        /\ \/ \E f \in FreeFds : NewConnection(c, f)
           \/ /\ peer' = [peer EXCEPT ![c] = "refused"]
              /\ UNCHANGED <<connections, poller>>
  BY DEF AcceptorHandleRead
<1>2. /\ poller.chan[c].state = "none" /\ peer \in [Conns -> PeerState]
      /\ pc = "events" /\ active' \subseteq active
  BY <1>1 DEF RInv, Opened, AcceptorHandleRead, HandleIo
<1>3. c \notin active
  BY <1>2 DEF RInv, Watched, IsConnected
<1>4. ~LeftIn(peer, c) /\ \A d \in Conns \ {c} : peer'[d] = peer[d]
  BY <1>1, <1>2 DEF NewConnection, LeftIn
<1>5. /\ \A d \in Conns \ {c} : poller'.chan[d] = poller.chan[d]
      /\ poller'.chan[c].state \in {"none", "connected"}
  <2>1. ASSUME NEW f \in FreeFds, NewConnection(c, f)
        PROVE  /\ ChangesOne(poller, poller', c)
               /\ poller'.chan[c].state = "connected"
    <3>1. f \in Fds /\ \A d \in Conns : poller.chan[d].fd # f
      BY DEF FreeFds
    <3>2. poller' = Established(poller, c, f)
      BY <2>1 DEF NewConnection, Established
    <3> QED
      BY <1>2, <3>1, <3>2, NewConnectionDoes DEF RInv
  <2> QED
    BY <1>1, <1>2, <2>1 DEF ChangesOne
<1>6. /\ \A d \in Conns : LeftIn(peer, d) => LeftIn(peer', d)
      /\ \A d \in Conns : OverIn(poller', d) => OverIn(poller, d)
  BY <1>4, <1>5 DEF LeftIn, OverIn
<1> QED
  BY <1>2, <1>3, <1>5, <1>6, DepartedStep

\* A connection is closed by an event only when its peer has left.
LEMMA DepartedEvent ==
  ASSUME LoopInv, RInv, Departed, NEW c \in Conns, HandleEvent(c),
         stale' = stale
  PROVE  Departed'
<1>1. /\ ChangesOne(poller, poller', c)
      /\ active' = active \ {c} /\ IsConnected(c)
      /\ \/ poller'.chan[c].state = "connected"
         \/ poller'.chan[c].state = "disconnected" /\ Closes(c)
  BY HandleEventDoes
<1>2. pc = "events" /\ c \in active
  BY DEF HandleEvent, HandleIo
<1>3. \A d \in Conns \ {c} : poller'.chan[d] = poller.chan[d]
  BY <1>1 DEF ChangesOne
<1>4. \A d \in Conns : LeftIn(peer, d) => LeftIn(peer', d)
  <2>1. peer \in [Conns -> PeerState]
    BY DEF RInv, Opened
  <2>2. \/ peer' = peer
        \/ peer' = [peer EXCEPT ![c] = IF @ = "reset" THEN "closed" ELSE @]
    BY DEF HandleEvent, HandleRead
  <2> QED
    BY <2>1, <2>2 DEF LeftIn
<1>5. Closes(c) => LeftIn(peer, c)
  BY <1>2 DEF Closes, Departed, LeftIn
<1>6. \A d \in Conns :
        OverIn(poller', d) => OverIn(poller, d) \/ LeftIn(peer', d)
  BY <1>1, <1>3, <1>4, <1>5 DEF OverIn
<1>7. \A d \in Conns :
        poller.chan[d].state = "freed" => poller'.chan[d].state = "freed"
  BY <1>1, <1>3 DEF IsConnected
<1> QED
  BY <1>1, <1>2, <1>3, <1>4, <1>6, <1>7, DepartedStep

\* A connection that only its task held is over when completeTask runs.
LEMMA DepartedFunctor ==
  ASSUME LoopInv, RInv, Departed, RunFunctor
  PROVE  Departed'
<1> DEFINE k == Len(ran) + 1
           c == functor[k].conn
<1>1. /\ Head(functors) = k /\ k \in Waiting /\ c \in Conns
      /\ pc' = pc /\ pc # "events" /\ peer' = peer
  BY CallFacts
<1>2. /\ PollerOK(poller)
      /\ \A d \in Conns : (d \in connections <=> IsConnected(d))
      /\ Alive(c) \/ functor[k].op # "completeTask"
      /\ functor[k].op = "connectDestroyed" => poller.chan[c].index = "deleted"
  BY <1>1 DEF RInv, Opened, Closing, Bound, TasksOK
<1> HIDE DEF k, c
<1>3. CASE functor[k].op = "connectDestroyed"
  <2>1. /\ poller' = ConnectDestroyed(poller, c) /\ stale' = stale
        /\ poller.chan[c].index = "deleted"
    BY <1>1, <1>2, <1>3 DEF RunFunctor, c
  <2>2. /\ ChangesOne(poller, poller', c)
        /\ poller'.chan[c].state = "disconnected"
    BY <1>1, <1>2, <2>1, ConnectDestroyedDoes
  <2>3. poller.chan[c].state = "disconnected"
    BY <1>1, <1>2, <2>1, ByState DEF Closed
  <2> QED
    BY <1>1, <2>1, <2>2, <2>3, DepartedStep DEF ChangesOne, OverIn, LeftIn
<1>4. CASE functor[k].op = "writeComplete"
  <2>1. poller' = poller /\ stale' = stale
    BY <1>1, <1>4 DEF RunFunctor
  <2> QED
    BY <1>1, <2>1, DepartedQuiet DEF LeftIn
<1>5. CASE functor[k].op = "completeTask"
  <2>1. CompleteTask(c)
    BY <1>1, <1>5 DEF RunFunctor, c
  <2>2. CASE SendInLoop(c) /\ Kept(c)
    <3>1. /\ ChangesOne(poller, poller', c)
          /\ poller'.chan[c].state = poller.chan[c].state
      BY <1>1, <1>2, <2>2, SendInLoopDoes
    <3>2. stale' = stale
      BY <2>1, <2>2 DEF CompleteTask
    <3> QED
      BY <1>1, <3>1, <3>2, DepartedStep DEF ChangesOne, OverIn, LeftIn
  <2>3. CASE Kept(c) /\ poller' = poller
    <3>1. stale' = stale
      BY <2>1, <2>3 DEF CompleteTask
    <3> QED
      BY <1>1, <2>3, <3>1, DepartedQuiet DEF LeftIn
  <2>4. CASE ~Kept(c) /\ poller' = Destruct(poller, {c})
    <3>1. poller.chan[c].state = "disconnected"
      <4>1. poller.chan[c].state # "connected"
        BY <1>1, <1>2, <2>4 DEF Kept, IsConnected
      <4>2. poller.chan[c].state \notin {"none", "freed"}
        BY <1>2, <1>5 DEF Alive
      <4>3. poller.chan[c] \in ConnRec
        BY <1>1, <1>2, ByState
      <4> QED
        BY <4>1, <4>2, <4>3 DEF ConnRec
    <3>2. stale' = stale \cup {c}
      BY <2>1, <2>4 DEF CompleteTask
    <3>3. /\ poller'.chan[c].state = "freed"
          /\ \A d \in Conns \ {c} : poller'.chan[d] = poller.chan[d]
      BY <1>1, <2>4 DEF Destruct, NoConnection
    <3> QED
      BY <1>1, <3>1, <3>2, <3>3, DepartedStep DEF OverIn, LeftIn
  <2> QED
    BY <2>1, <2>2, <2>3, <2>4 DEF CompleteTask
<1> QED
  BY <1>1, <1>3, <1>4, <1>5 DEF RunFunctor, c

\* The connections that functors were the last to hold are over.
LEMMA DepartedFunctorsDone ==
  ASSUME LoopInv, RInv, Departed, FunctorsDone, stale' = stale
  PROVE  Departed'
<1> DEFINE S == {c \in Conns : Alive(c) /\ ~Held(c)'}
<1>1. /\ connections' = connections /\ peer' = peer /\ pc' # "events"
      /\ poller' = Destruct(poller, S)
  BY DEF FunctorsDone, CallsDone, LoopGoto
<1>2. \A d \in S : OverIn(poller, d)
  <2>1. ASSUME NEW d \in S PROVE OverIn(poller, d)
    <3>1. d \notin connections /\ Alive(d)
      BY <1>1 DEF Held, Kept
    <3>2. poller.chan[d].state # "connected" /\ poller.chan[d] \in ConnRec
      BY <3>1, ByState DEF RInv, Opened, IsConnected
    <3> QED
      BY <3>1, <3>2 DEF OverIn, Alive, ConnRec
  <2> QED
    BY <2>1
<1> HIDE DEF S
<1>3. \A d \in Conns : poller'.chan[d] = IF d \in S
                         THEN [NoConnection EXCEPT !.state = "freed"]
                         ELSE poller.chan[d]
  BY <1>1 DEF Destruct
<1>4. /\ \A d \in Conns : OverIn(poller', d) => OverIn(poller, d)
      /\ \A d \in Conns :
           poller.chan[d].state = "freed" => poller'.chan[d].state = "freed"
  BY <1>2, <1>3 DEF OverIn, NoConnection
<1> QED
  BY <1>1, <1>4, DepartedStep DEF LeftIn

\* Every step keeps it.
LEMMA NextDeparted ==
  LoopInv /\ RInv /\ Departed /\ [RNext]_allVars => Departed'
<1> SUFFICES ASSUME LoopInv, RInv, Departed, [RNext]_allVars PROVE Departed'
  OBVIOUS
<1>1. ASSUME UNCHANGED rvars,
             pc' = "events" => \/ pc = "events" /\ active' \subseteq active
                               \/ active' = {}
      PROVE  Departed'
  BY <1>1, DepartedQuiet DEF rvars, LeftIn
<1>2. CASE /\ Publish \/ Begin \/ While \/ ThreadEnd \/ HandleWakeup \/ Swap
           /\ UNCHANGED rvars
  BY <1>1, <1>2
  DEF Publish, Begin, While, ThreadEnd, HandleWakeup, Swap, LoopGoto
<1>3. CASE LoopStep
  BY <1>2, <1>3, DepartedPoll, DepartedAccept, DepartedEvent, DepartedFunctor,
     DepartedFunctorsDone DEF LoopStep
<1>4. CASE OwnerStep
  BY <1>1, <1>4 DEF OwnerStep, StartLoop, QuitWakeup
<1>5. ASSUME NEW t \in Threads, WakeupStep(t) PROVE Departed'
  BY <1>1, <1>5 DEF WakeupStep, Wakeup
<1>6. CASE UNCHANGED allVars
  BY <1>1, <1>6 DEF allVars, vars
<1>7. CASE FreeStep
  <2>1. CASE (PollTimeout \/ Destroy) /\ UNCHANGED rvars
    BY <1>1, <2>1 DEF PollTimeout, PollReturns, Destroy
  <2>2. ASSUME NEW t \in Threads, PushCompleteTask(t), stale' = stale
        PROVE  Departed'
    BY <2>2, DepartedQuiet DEF PushCompleteTask, Push, LeftIn
  <2>3. ASSUME NEW c \in Conns, Peer(c), stale' = stale PROVE Departed'
    <3>1. peer \in [Conns -> PeerState]
      BY DEF RInv, Opened
    <3>2. \A d \in Conns : LeftIn(peer, d) => LeftIn(peer', d)
      BY <2>3, <3>1 DEF Peer, LeftIn
    <3> QED
      BY <2>3, <3>2, DepartedQuiet DEF Peer, IoEvent
  <2> QED
    BY <1>7, <2>1, <2>2, <2>3 DEF FreeStep
<1> QED
  BY <1>3, <1>4, <1>5, <1>6, <1>7 DEF RNext

\* At the start there is no connection.
LEMMA InitDeparted == RInit => Departed
  BY DEF RInit, Init, Departed, OverIn, NoConnection

\* For any number of connections and descriptors, no event is handled and no
\* functor called on a connection that is gone; and when completeTask sends on
\* one that its own erase has destructed, the peer left before its answer.
THEOREM NeverDangling == RSpec => []NoDangling
<1>1. ASSUME LoopInv, RInv, Departed PROVE NoDangling
  <2>1. ASSUME pc = "events", NEW c \in active \cap Conns PROVE Alive(c)
    BY <1>1, <2>1 DEF RInv, Watched, IsConnected, Alive
  <2>2. ASSUME NEW n \in Waiting PROVE Alive(functor[n].conn)
    <3>1. functor[n].conn \in Conns
      BY <1>1 DEF RInv, Bound, FunctorRec
    <3> QED
      BY <1>1, <3>1 DEF RInv, Bound, TasksOK
  <2>3. \A c \in stale : peer[c] \in {"closed", "reset"}
    BY <1>1 DEF Departed, OverIn, LeftIn
  <2> QED
    BY <1>1, <2>1, <2>2, <2>3, QueueFacts DEF NoDangling
<1>2. RSpec => []Departed
  BY ReactorInvariance, InitDeparted, NextDeparted, PTL DEF RSpec
<1> QED
  BY <1>1, <1>2, ReactorInvariance, PTL
=============================================================================
