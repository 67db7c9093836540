------------------------------ MODULE Reactor ------------------------------
(***************************************************************************)
(* An EventLoop with its Poller, the Channels in it, and the TcpServer that*)
(* adds and removes them: Acceptor, TcpConnections, and a user that holds  *)
(* on to a connection until another thread has it answered (OffloadClient's*)
(* tasks_, with completeTask).                                             *)
(*                                                                         *)
(* A Channel is known to the Poller by its file descriptor, to epoll by its*)
(* address, and to the loop, while events are handled, by its address.     *)
(* Nothing of this owns it: the TcpConnection does, which lives as long as *)
(* somebody holds a shared_ptr.  The kernel gives a descriptor to the next *)
(* connection as soon as it is closed.                                     *)
(*                                                                         *)
(* The steps are those of EventLoop, with what the callbacks do.  Bytes are*)
(* left out: there is something to read, or there is not.                  *)
(***************************************************************************)
EXTENDS EventLoop, FiniteSets, Functions

CONSTANTS Conns,    \* TcpConnections, at most one per peer
          Callers,  \* bound: those whose peer sends a request
          Acceptor, \* the Acceptor's channel
          Fds,      \* file descriptors for connections
          WriteCompleteSet, \* is writeCompleteCallback_ set (by RdmaServer it
                            \* is, by CommandServer it is not)
          None

ASSUME ReactorAssumption ==
  /\ Channels = Conns \cup {Acceptor} /\ Acceptor \notin Conns
  /\ WriteCompleteSet \in BOOLEAN /\ Fds # {} /\ None \notin Conns \cup Fds
  \* A request has completeTask and writeCompleteCallback_; a connection has
  \* connectDestroyed.
  /\ Callers \subseteq Conns
  /\ MaxFunctors >= Cardinality(Conns) + 2 * Cardinality(Callers)

VARIABLES
  poller,      \* [chan, channels, epoll, ok], see Init
  connections, \* TcpServer::connections_
  tasks,       \* per connection: "none", "held" by a task, "pushed" when its
               \* completeTask is queued, "done"
  bound,       \* functors not yet destroyed, whose shared_ptr still counts
  functor,     \* what the functors queued so far do, None once destroyed
  peer,        \* "none", "syn", "refused", "open", "closed" or "reset"
  data,        \* connections with bytes to read
  full,        \* connections whose socket takes no more bytes
  others,      \* descriptors that other files of the process hold
  stale,       \* connections used after they were destructed
  crashed      \* has undefined behaviour ended the process

rvars ==
  <<poller, connections, tasks, bound, functor, peer, data, full, others, stale,
    crashed>>

\* A TcpConnection with its Channel: state_, or "none" and "freed"; fd_,
\* events_, index_ (addedToLoop_ says the same as index_ # kNew), and revents_
\* until they are handled.
NoConnection ==
  [state |-> "none", fd |-> None, events |-> {}, index |-> "new",
   revents |-> {}]

\* Poller::channels_ by descriptor; the kernel's epoll set by descriptor; and
\* whether every assertion so far has held.
RInit ==
  /\ Init
  /\ poller = [chan |-> [c \in Conns |-> NoConnection],
               channels |-> [f \in Fds |-> None],
               epoll |-> [f \in Fds |-> None], ok |-> TRUE]
  /\ connections = {} /\ tasks = [c \in Conns |-> "none"] /\ bound = {}
  /\ functor = <<>> /\ peer = [c \in Conns |-> "none"] /\ data = {}
  /\ full = {} /\ others \in {{}, Fds \ {CHOOSE f \in Fds : TRUE}}
  /\ stale = {} /\ crashed = FALSE

-----------------------------------------------------------------------------
(* Poller and Channel.  p is the record in poller; an assertion that fails *)
(* makes p.ok false. *)

Check(p, a) == [p EXCEPT !.ok = @ /\ a]

Alive(c) == poller.chan[c].state \notin {"none", "freed"}

\* epoll_ctl (external): ADD and MOD set the events and the pointer.
EpollSet(p, c) ==
  [p EXCEPT !.epoll[p.chan[c].fd] = [ptr |-> c, events |-> p.chan[c].events]]

EpollDel(p, c) == [p EXCEPT !.epoll[p.chan[c].fd] = None]

\* kNew enters the channel in the map; a channel kDeleted is still in it.
AddChannel(p, c) ==
  LET f == p.chan[c].fd
      q == IF p.chan[c].index = "new"
             THEN [Check(p, p.channels[f] = None) EXCEPT !.channels[f] = c]
             ELSE Check(p, p.channels[f] = c)
  IN EpollSet([q EXCEPT !.chan[c].index = "added"], c)

\* A channel without events leaves epoll and stays in the map.
ModChannel(p, c) ==
  LET q == Check(p, p.channels[p.chan[c].fd] = c)
  IN IF p.chan[c].events = {}
       THEN [EpollDel(q, c) EXCEPT !.chan[c].index = "deleted"]
       ELSE EpollSet(q, c)

UpdateChannel(p, c) ==
  IF p.chan[c].index \in {"new", "deleted"} THEN AddChannel(p, c)
                                            ELSE ModChannel(p, c)

RemoveChannel(p, c) ==
  LET q == Check(p, /\ p.chan[c].events = {}
                     /\ p.channels[p.chan[c].fd] = c
                     /\ p.chan[c].index \in {"added", "deleted"})
      r == IF p.chan[c].index = "added" THEN EpollDel(q, c) ELSE q
  IN [r EXCEPT !.channels[p.chan[c].fd] = None, !.chan[c].index = "new"]

\* EventLoop::removeChannel asserts that no other channel whose event is still
\* to be handled is removed; Channel::remove that it watches nothing.
LoopRemoveChannel(p, c) ==
  RemoveChannel(Check(p, pc = "events" => c \notin active), c)
ChannelRemove(p, c) ==
  LoopRemoveChannel(Check(p, p.chan[c].events = {}), c)

\* The assertions of ~Channel.
ChannelOver(p, c) ==
  p.chan[c].index = "new" /\ \A f \in Fds : p.channels[f] # c

\* enableReading, enableWriting, disableWriting, disableAll.
SetEvents(p, c, ev) == UpdateChannel([p EXCEPT !.chan[c].events = ev], c)

Reading(p, c) == "IN" \in p.chan[c].events
Writing(p, c) == "OUT" \in p.chan[c].events

\* What the kernel would report for a descriptor in the epoll set (external):
\* a reset is reported whether it is asked for or not.
Revents(p, c) ==
  LET f == p.chan[c].fd IN
  IF f = None THEN {} ELSE IF p.epoll[f] = None THEN {}
  ELSE (p.epoll[f].events \cap
         ((IF c \in data \/ peer[c] \in {"closed", "reset"} THEN {"IN"} ELSE {})
            \cup (IF c \in full THEN {} ELSE {"OUT"})))
       \cup (IF peer[c] = "reset" THEN {"HUP"} ELSE {})

\* The channels epoll_wait would report now.
Reportable ==
  {c \in Conns : Revents(poller, c) # {}}
    \cup (IF \E c \in Conns : peer[c] = "syn" THEN {Acceptor} ELSE {})

\* fillActiveChannels notes the events in each channel; it asserts that the
\* pointer it got from epoll is the channel the map has for its descriptor.
FillActiveChannels ==
  poller' =
    [poller EXCEPT
       !.chan = [c \in Conns |-> [poller.chan[c] EXCEPT
                   !.revents = IF c \in io THEN Revents(poller, c) ELSE {}]],
       !.ok = @ /\ \A c \in io \ {Acceptor} :
                     LET f == poller.chan[c].fd IN
                     poller.epoll[f].ptr = c /\ poller.channels[f] = c]

-----------------------------------------------------------------------------
(* TcpServer and TcpConnection. *)

\* newConnection and connectEstablished: one loop, so runInLoop calls it.
NewConnection(c, f) ==
  /\ peer' = [peer EXCEPT ![c] = "open"]
  /\ connections' = connections \cup {c}
  /\ poller' = SetEvents([poller EXCEPT !.chan[c].state = "connected",
                                        !.chan[c].fd = f], c, {"IN"})

FreeFds == {f \in Fds \ others : \A c \in Conns : poller.chan[c].fd # f}

\* Acceptor::handleRead: without a descriptor the idle one is given up to
\* accept the connection and close it.
AcceptorHandleRead ==
  /\ HandleIo(Acceptor) /\ UNCHANGED <<quit, pending>>
  /\ \E c \in Conns :
       /\ peer[c] = "syn"
       /\ \/ \E f \in FreeFds : NewConnection(c, f)
          \/ /\ FreeFds = {} /\ peer' = [peer EXCEPT ![c] = "refused"]
             /\ UNCHANGED <<connections, poller>>
  /\ UNCHANGED <<tasks, bound, functor, data, full, others>>
  /\ io' = Reportable'

\* queueInLoop of a functor that holds the connection.
Queue(op, c) ==
  /\ pending' = Append(pending, nq + 1)
  /\ functor' = Append(functor, [op |-> op, conn |-> c])
  /\ bound' = bound \cup {nq + 1}

QueueNothing == UNCHANGED <<pending, functor, bound>>

QueueWriteComplete(c) ==
  IF WriteCompleteSet THEN Queue("writeComplete", c) ELSE QueueNothing

\* handleClose: the channel watches nothing any more.  The assertion is about
\* a second close.
HandleClose(p, c) ==
  SetEvents([Check(p, p.chan[c].state = "connected")
               EXCEPT !.chan[c].state = "disconnected"], c, {})

\* handleEvent calls handleClose for a hang-up with nothing to read, and
\* handleRead does for the end of the stream.
Closes(c) ==
  LET rev == poller.chan[c].revents IN
  \/ "HUP" \in rev /\ "IN" \notin rev
  \/ "IN" \in rev /\ c \notin data /\ peer[c] = "closed"

\* handleRead: the bytes go to the message callback, which may keep the
\* connection for a task or, as client_cli's, quit; a reset is only logged.
HandleRead(c) ==
  \/ /\ c \in data /\ data' = data \ {c}
     /\ tasks' = [tasks EXCEPT ![c] = IF @ = "none" THEN "held" ELSE @]
     /\ UNCHANGED peer
  \/ /\ c \notin data /\ UNCHANGED <<data, tasks, quit>>
     /\ peer' = [peer EXCEPT ![c] = IF @ = "reset" THEN "closed" ELSE @]

\* Mutant: handleWrite does not look at isWriting.
HandleWriteAnyway(p, c) == SetEvents(p, c, p.chan[c].events \ {"OUT"})

\* handleWrite, when all of the rest is written: it asks isWriting, because
\* handleRead may have closed the connection just before.
HandleWrite(p, c) ==
  IF Writing(p, c) THEN SetEvents(p, c, p.chan[c].events \ {"OUT"}) ELSE p

\* Mutant: the map does not let go of the connection.
RemoveConnectionKeeps(c) ==
  UNCHANGED connections /\ Queue("connectDestroyed", c)

\* closeCallback_, which is TcpServer::removeConnection: the map lets go of
\* the connection, and connectDestroyed is queued.
RemoveConnection(c) ==
  connections' = connections \ {c} /\ Queue("connectDestroyed", c)

\* Channel::handleEvent: the reading callback, then the writing one with the
\* events epoll reported before.  The tie keeps the connection alive.
HandleEvent(c) ==
  /\ HandleIo(c) /\ Alive(c) /\ UNCHANGED others
  /\ IF "IN" \in poller.chan[c].revents
       THEN HandleRead(c) ELSE UNCHANGED <<data, tasks, peer, quit>>
  /\ LET out == "OUT" \in poller.chan[c].revents
         handled == [poller EXCEPT !.chan[c].revents = {}]
         p == IF Closes(c) THEN HandleClose(handled, c) ELSE handled
     IN \* the writing callback is not called, writes a part, or fails
        \/ /\ out => Writing(p, c)
           /\ poller' = p
           /\ \/ full' = IF out THEN full \cup {c} ELSE full
              \/ out /\ peer[c] # "open" /\ UNCHANGED full
           /\ IF Closes(c) THEN RemoveConnection(c)
                           ELSE QueueNothing /\ UNCHANGED connections
        \* it writes the rest, or finds that there is nothing to do
        \/ /\ out /\ poller' = HandleWrite(p, c) /\ UNCHANGED full
           /\ IF Closes(c) THEN RemoveConnection(c)
              ELSE QueueWriteComplete(c) /\ UNCHANGED connections
  /\ io' = Reportable'

-----------------------------------------------------------------------------
(* Functors, and the end of a connection. *)

\* sendInLoop of a response: written at once, with writeCompleteCallback_
\* queued; written in part, with the channel now writing; refused because the
\* peer is gone; or dropped because the connection is.
SendInLoop(c) ==
  \/ /\ poller.chan[c].state = "connected" /\ QueueWriteComplete(c)
     /\ UNCHANGED <<poller, full>>
  \/ /\ poller.chan[c].state = "connected" /\ QueueNothing
     /\ poller' = SetEvents(poller, c, poller.chan[c].events \cup {"OUT"})
     /\ full' = full \cup {c}
  \/ /\ poller.chan[c].state # "connected" \/ peer[c] \in {"closed", "reset"}
     /\ QueueNothing /\ UNCHANGED <<poller, full>>

\* connectDestroyed: a connection that was closed by its peer watches nothing
\* any more; any other one is disconnected here.
ConnectDestroyed(p, c) ==
  ChannelRemove(IF p.chan[c].state = "connected"
                  THEN SetEvents([p EXCEPT !.chan[c].state = "disconnected"],
                                 c, {})
                  ELSE p, c)

\* Mutant: functors are bound to a bare pointer.
KeptByServer(c) == c \in connections

\* The shared_ptrs to a connection: connections_, functors, and tasks_.
Kept(c) == c \in connections \/ \E n \in bound : functor[n].conn = c

Held(c) == Kept(c) \/ tasks[c] \in {"held", "pushed"}

\* ~TcpConnection and ~Channel assert that the connection is over; ~Socket
\* closes the descriptor, which takes it out of epoll.
Destruct(p, S) ==
  [p EXCEPT
     !.ok = @ /\ \A c \in S : p.chan[c].state = "disconnected"
                              /\ ChannelOver(p, c),
     !.epoll = [f \in Fds |-> IF \E c \in S : p.chan[c].fd = f
                                THEN None ELSE p.epoll[f]],
     !.chan = [c \in Conns |-> IF c \in S
                 THEN [NoConnection EXCEPT !.state = "freed"]
                 ELSE p.chan[c]]]

\* completeTask, in the loop thread: tasks_.erase destroys the task and, if it
\* was the last to hold it, the connection; only then is the response sent, to
\* the connection that the erased task's memory names.  If that was destructed,
\* send() finds the kDisconnected its destructor has left there, and drops the
\* response; or the memory of one of the two has a new use by now, and the
\* process ends.
CompleteTask(c) ==
  /\ tasks' = [tasks EXCEPT ![c] = "done"]
  /\ stale' = IF Kept(c) THEN stale ELSE stale \cup {c}
  /\ \/ Kept(c) /\ SendInLoop(c) /\ UNCHANGED crashed
     \/ /\ poller' = IF Kept(c) THEN poller ELSE Destruct(poller, {c})
        /\ QueueNothing /\ UNCHANGED full
        /\ crashed' = TRUE \/ (~Kept(c) /\ UNCHANGED crashed)

\* doPendingFunctors runs one functor.
RunFunctor ==
  /\ CallFunctor
  /\ LET g == functor[Head(functors)] IN
     \/ g.op = "completeTask" /\ CompleteTask(g.conn)
     \/ /\ g.op = "connectDestroyed"
        /\ poller' = ConnectDestroyed(poller, g.conn)
        /\ QueueNothing /\ UNCHANGED <<tasks, full, stale, crashed>>
     \/ /\ g.op = "writeComplete" /\ QueueNothing
        /\ UNCHANGED <<poller, tasks, full, stale, crashed>>
  /\ UNCHANGED <<connections, peer, data, others>> /\ io' = Reportable'

\* doPendingFunctors returns and its vector is destroyed; connections nobody
\* holds are destructed with it.
FunctorsDone ==
  /\ CallsDone
  /\ bound' = bound \ Range(ran)
  /\ functor' = [n \in 1 .. nq |->
                  IF n \in Range(ran) THEN None ELSE functor[n]]
  /\ UNCHANGED <<connections, tasks, peer, data, full, others>>
  /\ poller' = Destruct(poller, {c \in Conns : Alive(c) /\ ~Held(c)'})

-----------------------------------------------------------------------------
(* The rest of the loop, other threads, and the peers. *)

PollChannels ==
  /\ Poll /\ FillActiveChannels
  /\ UNCHANGED <<connections, tasks, bound, functor, peer, data, full, others>>

\* The thread that has done a task's work hands completeTask to the loop.
PushCompleteTask(t) ==
  /\ Push(t)
  /\ \E c \in Conns :
       /\ tasks[c] = "held" /\ tasks' = [tasks EXCEPT ![c] = "pushed"]
       /\ functor' = Append(functor, [op |-> "completeTask", conn |-> c])
  /\ UNCHANGED <<poller, connections, bound, peer, data, full, others>>

\* The peers (external), while the loop runs: connect, send a request, close
\* or abort, and take bytes from a full socket.
Peer(c) ==
  /\ looping
  /\ \/ /\ peer[c] = "none" /\ peer' = [peer EXCEPT ![c] = "syn"]
        /\ UNCHANGED <<data, full>>
     \/ /\ c \in Callers /\ peer[c] = "open" /\ tasks[c] = "none"
        /\ data' = data \cup {c} /\ UNCHANGED <<peer, full>>
     \/ /\ peer[c] = "open"
        /\ \E s \in {"closed", "reset"} : peer' = [peer EXCEPT ![c] = s]
        /\ UNCHANGED <<data, full>>
     \/ Alive(c) /\ c \in full /\ full' = full \ {c} /\ UNCHANGED <<peer, data>>
  /\ UNCHANGED <<poller, connections, tasks, bound, functor, others>>
  /\ IoEvent /\ io' = Reportable'

\* The loop thread; nothing forces a poll timeout.
LoopStep ==
  /\ ~crashed
  /\ \/ RunFunctor
     \/ (Publish \/ Begin \/ While \/ ThreadEnd \/ HandleWakeup \/ Swap)
          /\ UNCHANGED rvars
     \/ (PollChannels \/ FunctorsDone) /\ UNCHANGED <<stale, crashed>>
     \/ AcceptorHandleRead /\ UNCHANGED <<stale, crashed>>
     \/ (\E c \in Conns : HandleEvent(c)) /\ UNCHANGED <<stale, crashed>>

WakeupStep(t) == ~crashed /\ Wakeup(t) /\ UNCHANGED rvars
OwnerStep == ~crashed /\ (StartLoop \/ QuitWakeup) /\ UNCHANGED rvars

\* What nothing forces.
FreeStep ==
  /\ ~crashed
  /\ \/ (PollTimeout \/ Destroy) /\ UNCHANGED rvars
     \/ (\E t \in Threads : PushCompleteTask(t)) /\ UNCHANGED <<stale, crashed>>
     \/ (\E c \in Conns : Peer(c)) /\ UNCHANGED <<stale, crashed>>

RNext == LoopStep \/ OwnerStep \/ FreeStep \/ \E t \in Threads : WakeupStep(t)

allVars == <<vars, rvars>>

RSpec == RInit /\ [][RNext]_allVars

\* Threads run; nothing forces a peer, a task's answer or the end.
RFairSpec ==
  /\ RSpec /\ WF_allVars(LoopStep) /\ WF_allVars(OwnerStep)
  /\ \A t \in Threads : WF_allVars(WakeupStep(t))

-----------------------------------------------------------------------------
(* Properties. *)

\* None of the assertions of Poller, Channel and TcpConnection ever fails: no
\* channel is entered twice, or under another's descriptor; none is removed
\* while it watches something; no connection is closed twice, destructed while
\* it is open, or while the Poller still knows its Channel.
AssertionsHold == poller.ok

\* The assertions hold, and Poller's map, epoll's set and the channels agree:
\* both hold only living connections, under the descriptor they own now, and
\* epoll watches what the channel asked for.
RegistrationOK ==
  /\ AssertionsHold
  /\ \A f \in Fds :
       /\ poller.channels[f] # None =>
            /\ Alive(poller.channels[f])
            /\ poller.chan[poller.channels[f]].fd = f
       /\ poller.epoll[f] # None =>
            /\ poller.epoll[f].ptr = poller.channels[f]
            /\ poller.epoll[f].events = poller.chan[poller.channels[f]].events
            /\ poller.epoll[f].events # {}

\* While events are handled, no connection in activeChannels_ is destructed
\* before its turn, and no functor is called for one that is: the loop never
\* uses a dangling Channel.  The one use of a destructed connection is made by
\* completeTask itself, which erases the task before it sends; and it only
\* meets a connection whose peer has left before its answer.
NoDangling ==
  /\ pc = "events" => \A c \in active \cap Conns : Alive(c)
  /\ \A i \in DOMAIN pending : Alive(functor[pending[i]].conn)
  /\ \A i \in DOMAIN functors : Alive(functor[functors[i]].conn)
  /\ \A c \in stale : peer[c] \in {"closed", "reset"}

\* Unless the process crashes, every functor is run in the end, without the
\* help of the poll timeout, and a quit that was not reset ends the loop.
FunctorsAllRun == [](~crashed) => AllRun
LoopQuitEnds == [](~crashed) => QuitEnds

\* A connection whose peer is gone is destructed, and its descriptor free for
\* the next one, as soon as no task waits for its answer: no shared_ptr is
\* left over.
Reclaimed ==
  \A c \in Conns :
    (Alive(c) /\ peer[c] \in {"closed", "reset"})
      ~> (~Alive(c) \/ tasks[c] = "held" \/ pc = "done" \/ crashed)
=============================================================================
