--------------------------- MODULE CommandSession ---------------------------
(***************************************************************************)
(* One pull, seen from its TCP connection: client_cli (CommandClient over  *)
(* a TcpClient) sends a framed CreateContainerRequest to the host client's *)
(* CommandServer (over a TcpServer) and waits for the framed response that *)
(* OffloadClientEpoll::completeTask sends when the image is there.         *)
(*                                                                         *)
(* The server has its base loop, where connections are made and removed    *)
(* and where OffloadClientEpoll lives, and, with command_server_thread_num *)
(* > 0, I/O loops of its EventLoopThreadPool; the connection belongs to    *)
(* one.  A loop runs its handlers and, in the order of the queue (module   *)
(* EventLoop), its functors.  A connection lives while a shared_ptr is     *)
(* held; the functors of send() only hold a bare `this`.                   *)
(*                                                                         *)
(* The network cuts the byte streams as it likes (module Buffer keeps the  *)
(* pieces); the CLI may be killed at any time.                             *)
(***************************************************************************)
EXTENDS Buffer, FiniteSets

CONSTANTS Loops,     \* loops the connection may belong to: "base", "io"
          HeaderLen, \* kFrameHeaderLen
          BodyLen,   \* [{"request", "response"} -> Nat], serialised sizes
          PipeCap    \* bytes a socket takes before the other end reads

Msgs == {"request", "response"}

ASSUME SessionAssumption ==
  /\ Loops # {} /\ Loops \subseteq {"base", "io"}
  /\ HeaderLen \in Nat \ {0} /\ PipeCap \in Nat \ {0}
  /\ BodyLen \in [Msgs -> Nat \ {0}]
  /\ \A m \in Msgs : \A i \in 1 .. HeaderLen + BodyLen[m] : <<m, i>> \in Byte

VARIABLES
  io,          \* the loop getNextLoop() gave the connection
  queue,       \* the loops' functors; what they do, see RunFunctor
  connections, \* is the connection in TcpServer::connections_
  task,        \* "none", "held" by pending_tasks_ or tasks_, "untarred" when
               \* completeTask is queued too, "done"
  sending,     \* what the base loop's completeTask has still to send
  checked,     \* has its send() found the connection connected
  srv,         \* the server's TcpConnection, see NewConn
  cli,         \* the CLI's
  c2s, s2c,    \* bytes on their way
  got,         \* what each side has parsed out of its input buffer
  exit,        \* the CLI: "no", "quit" after quit(), "done", "killed"
  ok,          \* has every assertion held
  crash        \* "no", or what the server's process ended on, see Send

vars == <<io, queue, connections, task, sending, checked, srv, cli, c2s, s2c,
          got, exit, ok, crash>>

\* The bytes of a message in its frame.
Frame(m) == [i \in 1 .. HeaderLen + BodyLen[m] |-> <<m, i>>]
Header(m) == SubSeq(Frame(m), 1, HeaderLen)
Body(m) == SubSeq(Frame(m), HeaderLen + 1, HeaderLen + BodyLen[m])

\* A TcpConnection: state_, is its channel in the loop, does it watch for
\* writing, its buffers.
NewConn ==
  [state |-> "connecting", added |-> FALSE, writing |-> FALSE,
   in |-> NewBuffer, out |-> NewBuffer]

Init ==
  /\ io \in Loops /\ queue = [l \in {"base", "io"} |-> <<>>]
  /\ connections = FALSE /\ task = "none" /\ sending = <<>>
  /\ checked = FALSE
  /\ srv = [NewConn EXCEPT !.state = "none"] /\ cli = NewConn
  /\ c2s = <<>> /\ s2c = <<>>
  /\ got = [m \in Msgs |-> <<>>] /\ exit = "no" /\ ok = TRUE
  /\ crash = "no"

-----------------------------------------------------------------------------
(* TcpConnection and MsgFrame, for either side. *)

CliGone == exit \in {"done", "killed"}
SmallerOf(a, b) == IF a <= b THEN a ELSE b
Room(pipe) == PipeCap - Len(pipe)

\* sendInLoop, when the socket takes n bytes at once, or fails because the
\* other end is gone: what the socket gets and the connection after it.
Direct(e) == ~e.writing /\ ReadableBytes(e.out) = 0

TakenAtOnce(e, s, room) ==
  IF e.state = "disconnected" \/ ~Direct(e) THEN 0 ELSE SmallerOf(Len(s), room)

\* Mutant: the rest stays in the buffer without anybody watching.
SendRestUnwatched(e, s, n, gone) ==
  IF e.state = "disconnected" \/ n = Len(s) \/ (gone /\ Direct(e)) THEN e
  ELSE [e EXCEPT !.out = AppendBytes(@, SubSeq(s, n + 1, Len(s)))]

SendRest(e, s, n, gone) ==
  IF e.state = "disconnected" \/ n = Len(s) \/ (gone /\ Direct(e)) THEN e
  ELSE [e EXCEPT !.out = AppendBytes(@, SubSeq(s, n + 1, Len(s))),
                 !.writing = TRUE]

\* handleWrite, when the socket takes n bytes.
HandleWrite(e, n) ==
  LET out == Retrieve(e.out, n)
  IN [e EXCEPT !.out = out, !.writing = ReadableBytes(out) # 0]

\* peekInt32: what the first bytes say, if they are a header.
PeekInt32(b) ==
  LET h == SubSeq(Content(b), 1, HeaderLen)
  IN IF \E m \in Msgs : h = Header(m)
       THEN BodyLen[CHOOSE m \in Msgs : h = Header(m)] ELSE 0

\* Mutant: a body may be cut.
FrameReadyEarly(b) == ReadableBytes(b) >= HeaderLen

\* receiveTcpPbMsg: is a whole frame there; the frame it takes out.
FrameReady(b) ==
  /\ ReadableBytes(b) >= HeaderLen
  /\ ReadableBytes(b) >= HeaderLen + PeekInt32(b)

FrameOf(b) ==
  SubSeq(Content(b), 1, SmallerOf(ReadableBytes(b), HeaderLen + PeekInt32(b)))
AfterFrame(b) == Retrieve(Retrieve(b, HeaderLen), PeekInt32(b))

\* retrieve asserts that there is as much as it takes.
FrameAssertion(b) ==
  FrameReady(b) => RetrieveAssertion(b, HeaderLen + PeekInt32(b))

\* ParseFromArray, of a message of type m.
Parses(b, m) == SubSeq(FrameOf(b), HeaderLen + 1, Len(FrameOf(b))) = Body(m)

-----------------------------------------------------------------------------
(* The server's loops. *)

\* Functors that hold the connection.
Holding == {"connectEstablished", "offload", "removeConnection",
            "connectDestroyed"}

Held(conns, t, q) ==
  \/ conns \/ t \in {"held", "untarred"}
  \/ \E l \in DOMAIN q : \E i \in DOMAIN q[l] : q[l][i] \in Holding

\* Does the connection exist.
Alive == srv.state \notin {"none", "freed"}

\* A thread may let go of the last shared_ptr: ~TcpConnection and ~Channel.
Release(s) ==
  IF Held(connections, task, queue)' \/ s.state = "freed"
    THEN srv' = s /\ UNCHANGED ok
    ELSE /\ srv' = [s EXCEPT !.state = "freed", !.in = NewBuffer,
                             !.out = NewBuffer, !.writing = FALSE]
         /\ ok' = (ok /\ s.state = "disconnected" /\ ~s.added)

\* The base loop is busy while completeTask sends.
Free(l) == crash = "no" /\ (l = "base" => sending = <<>>)

Queue(q, l, f) == [q EXCEPT ![l] = Append(@, f)]

\* Acceptor and newConnection; runInLoop of connectEstablished.
Accept ==
  /\ Free("base") /\ srv.state = "none" /\ cli.state # "connecting"
  /\ connections' = TRUE
  /\ IF io = "base"
       THEN /\ srv' = [NewConn EXCEPT !.state = "connected", !.added = TRUE]
            /\ UNCHANGED queue
       ELSE srv' = NewConn /\ queue' = Queue(queue, io, "connectEstablished")
  /\ UNCHANGED <<io, task, sending, checked, cli, c2s, s2c, got, exit, ok,
                 crash>>

\* Bytes from the network into an input buffer: readFd takes n of them.
ReadSome(e, pipe, n) == [e EXCEPT !.in = ReadFd(@, SubSeq(pipe, 1, n))]

\* CommandServer::OnMessage, pullImage and offload, whose functor goes to the
\* base loop, or runs at once there.
OnMessage(e) ==
  IF ~FrameReady(e.in)
    THEN srv' = e /\ UNCHANGED <<task, queue, got, ok>>
    ELSE /\ ok' = (ok /\ FrameAssertion(e.in))
         /\ srv' = [e EXCEPT !.in = AfterFrame(@)]
         /\ got' = [got EXCEPT !["request"] = @ \o FrameOf(e.in)]
         /\ IF ~Parses(e.in, "request") THEN UNCHANGED <<task, queue>>
            ELSE IF io = "base" THEN task' = "held" /\ UNCHANGED queue
            ELSE queue' = Queue(queue, "base", "offload") /\ UNCHANGED task

\* handleRead, with n > 0 bytes.
HandleRead ==
  /\ Free(io) /\ srv.added /\ srv.state = "connected"
  /\ \E n \in 1 .. Len(c2s) :
       /\ n <= WritableBytes(srv.in) + Extra
       /\ c2s' = SubSeq(c2s, n + 1, Len(c2s))
       /\ OnMessage(ReadSome(srv, c2s, n))
  /\ UNCHANGED <<io, connections, sending, checked, cli, s2c, exit, crash>>

\* Mutant: the I/O loop takes the connection out of the map itself.
CloseCallbackHere ==
  connections' = FALSE /\ queue' = Queue(queue, io, "connectDestroyed")

\* TcpServer::removeConnection goes through the base loop.
CloseCallback ==
  IF io = "base"
    THEN connections' = FALSE /\ queue' = Queue(queue, io, "connectDestroyed")
    ELSE queue' = Queue(queue, "base", "removeConnection")
         /\ UNCHANGED connections

\* handleRead, at the end of the stream, and handleClose; the channel stays
\* in the loop and watches nothing.
HandleClose ==
  /\ Free(io) /\ srv.added /\ srv.state = "connected"
  /\ c2s = <<>> /\ (CliGone \/ cli.state = "disconnecting")
  /\ srv' = [srv EXCEPT !.state = "disconnected", !.writing = FALSE]
  /\ CloseCallback
  /\ UNCHANGED <<io, task, sending, checked, cli, c2s, s2c, got, exit, ok,
                 crash>>

\* handleWrite; it fails when the CLI is gone.
SrvHandleWrite ==
  /\ Free(io) /\ srv.writing /\ Room(s2c) > 0 /\ ~CliGone
  /\ LET n == SmallerOf(ReadableBytes(srv.out), Room(s2c)) IN
       /\ srv' = HandleWrite(srv, n)
       /\ s2c' = s2c \o SubSeq(Content(srv.out), 1, n)
       /\ ok' = (ok /\ RetrieveAssertion(srv.out, n))
  /\ UNCHANGED <<io, queue, connections, task, sending, checked, cli, c2s, got,
                 exit, crash>>

Piece(p) == IF p = "header" THEN Header("response") ELSE Body("response")

\* sendInLoop of a piece of the response.
SrvSendInLoop(p) ==
  LET s == Piece(p)
      n == IF CliGone THEN 0 ELSE TakenAtOnce(srv, s, Room(s2c))
  IN /\ srv' = SendRest(srv, s, n, CliGone)
     /\ s2c' = s2c \o SubSeq(s, 1, n)
     /\ ok' = (ok /\ Alive /\ AppendAssertion(srv.out, Len(s) - n))

\* A loop runs its next functor, then drops it and what it holds.
RunFunctor(l) ==
  /\ Free(l) /\ queue[l] # <<>>
  /\ LET f == Head(queue[l])
         q == [queue EXCEPT ![l] = Tail(@)]
     IN \/ /\ f = "connectEstablished" /\ queue' = q
           /\ srv' = [srv EXCEPT !.state = "connected", !.added = TRUE]
           /\ ok' = (ok /\ srv.state = "connecting")
           /\ UNCHANGED <<connections, task, sending, s2c>>
        \/ /\ f = "offload" /\ queue' = q /\ task' = "held"
           /\ UNCHANGED <<connections, sending, srv, s2c, ok>>
        \/ /\ f = "completeTask" /\ queue' = q /\ task' = "done"
           /\ sending' = <<"header", "body">>
           /\ UNCHANGED <<connections, s2c>> /\ Release(srv)
        \/ /\ f \in {"header", "body"} /\ queue' = q /\ SrvSendInLoop(f)
           /\ UNCHANGED <<connections, task, sending>>
        \/ /\ f = "removeConnection" /\ connections' = FALSE
           /\ queue' = Queue(q, io, "connectDestroyed")
           /\ ok' = (ok /\ connections)
           /\ UNCHANGED <<task, sending, srv, s2c>>
        \/ /\ f = "connectDestroyed" /\ queue' = q
           /\ UNCHANGED <<connections, task, sending, s2c>>
           /\ Release([srv EXCEPT !.added = FALSE])
  /\ UNCHANGED <<io, checked, cli, c2s, got, exit, crash>>

\* completeTask's next send(), after tasks_ has let go of the connection: the
\* connection comes out of the erased task, and state_ is that of a connection
\* that may be destructed, where ~TcpConnection leaves kDisconnected.  In the
\* connection's own loop it goes on to sendInLoop ...
Send ==
  /\ crash = "no" /\ sending # <<>> /\ ~checked
  /\ \/ /\ srv.state # "connected" /\ sending' = Tail(sending)
        /\ UNCHANGED <<checked, srv, s2c, ok>>
     \/ /\ srv.state = "connected" /\ io = "base"
        /\ sending' = Tail(sending) /\ SrvSendInLoop(Head(sending))
        /\ UNCHANGED checked
     \/ /\ srv.state = "connected" /\ io # "base" /\ checked' = TRUE
        /\ UNCHANGED <<sending, srv, s2c, ok>>
  /\ UNCHANGED <<io, queue, connections, task, cli, c2s, got, exit, crash>>

\* ... or has the connection's loop do it, with a bare `this`.
SendQueues ==
  /\ crash = "no" /\ checked /\ checked' = FALSE
  /\ queue' = Queue(queue, io, Head(sending)) /\ sending' = Tail(sending)
  /\ UNCHANGED <<io, connections, task, srv, cli, c2s, s2c, got, exit, ok,
                 crash>>

\* Or the memory of the erased task, or of a destructed connection, has another
\* use by then: send() goes to what is no connection, and the process ends.
SendCrashes ==
  /\ crash = "no" /\ sending # <<>> /\ ~checked
  /\ crash' = "task" \/ (~Alive /\ crash' = "connection")
  /\ UNCHANGED <<io, queue, connections, task, sending, checked, srv, cli, c2s,
                 s2c, got, exit, ok>>

\* The image is there (external; OffloadClient): completeTask is queued.
Untarred ==
  /\ task = "held" /\ task' = "untarred"
  /\ queue' = Queue(queue, "base", "completeTask")
  /\ UNCHANGED <<io, connections, sending, checked, srv, cli, c2s, s2c, got,
                 exit, ok, crash>>

-----------------------------------------------------------------------------
(* The CLI: one thread. *)

\* TcpClient::newConnection and OnConnection: both parts of the request are
\* sent at once, as far as the socket takes them.
OnConnection ==
  /\ cli.state = "connecting" /\ exit = "no"
  /\ LET h  == Header("request")
         b  == Body("request")
         up == [cli EXCEPT !.state = "connected", !.added = TRUE]
         n1 == TakenAtOnce(up, h, PipeCap)
         e1 == SendRest(up, h, n1, FALSE)
         n2 == TakenAtOnce(e1, b, PipeCap - n1)
     IN /\ cli' = SendRest(e1, b, n2, FALSE)
        /\ c2s' = SubSeq(h, 1, n1) \o SubSeq(b, 1, n2)
        /\ ok' = (ok /\ AppendAssertion(e1.out, Len(b) - n2))
  /\ UNCHANGED <<io, queue, connections, task, sending, checked, srv, s2c, got,
                 exit, crash>>

CliHandleWrite ==
  /\ exit = "no" /\ cli.writing /\ Room(c2s) > 0
  /\ LET n == SmallerOf(ReadableBytes(cli.out), Room(c2s)) IN
       /\ cli' = HandleWrite(cli, n)
       /\ c2s' = c2s \o SubSeq(Content(cli.out), 1, n)
       /\ ok' = (ok /\ RetrieveAssertion(cli.out, n))
  /\ UNCHANGED <<io, queue, connections, task, sending, checked, srv, s2c, got,
                 exit, crash>>

\* handleRead and CommandClient::OnMessage: the response ends the CLI, with a
\* shutdown of the connection first.
CliHandleRead ==
  /\ exit = "no" /\ cli.state = "connected"
  /\ \E n \in 1 .. Len(s2c) :
       /\ n <= WritableBytes(cli.in) + Extra
       /\ s2c' = SubSeq(s2c, n + 1, Len(s2c))
       /\ LET e == ReadSome(cli, s2c, n) IN
          IF ~FrameReady(e.in)
            THEN cli' = e /\ UNCHANGED <<got, exit, ok>>
            ELSE /\ ok' = (ok /\ FrameAssertion(e.in))
                 /\ got' = [got EXCEPT !["response"] = @ \o FrameOf(e.in)]
                 /\ IF Parses(e.in, "response")
                      THEN /\ exit' = "quit"
                           /\ cli' = [e EXCEPT !.in = AfterFrame(@),
                                               !.state = "disconnecting"]
                      ELSE /\ cli' = [e EXCEPT !.in = AfterFrame(@)]
                           /\ UNCHANGED exit
  /\ UNCHANGED <<io, queue, connections, task, sending, checked, srv, c2s,
                 crash>>

\* The process ends, and the kernel closes the socket: main returns after
\* quit(), or somebody kills it, and bytes that were not sent yet are lost.
CliEnds(how) ==
  /\ exit' = how /\ cli' = [NewConn EXCEPT !.state = "disconnected"]
  /\ s2c' = <<>>
  /\ UNCHANGED <<io, queue, connections, task, sending, checked, srv, got, ok,
                 crash>>

CliExit == exit = "quit" /\ CliEnds("done") /\ UNCHANGED c2s

CliKilled ==
  /\ exit = "no" /\ cli.state # "connecting" /\ CliEnds("killed")
  /\ \E n \in 0 .. Len(c2s) : c2s' = SubSeq(c2s, 1, n)

-----------------------------------------------------------------------------
IoStep == HandleRead \/ HandleClose \/ SrvHandleWrite
BaseStep == Accept \/ Send \/ SendQueues \/ SendCrashes
CliStep == OnConnection \/ CliHandleWrite \/ CliHandleRead \/ CliExit

Next ==
  \/ IoStep \/ BaseStep \/ CliStep \/ Untarred \/ CliKilled
  \/ \E l \in {"base", "io"} : RunFunctor(l)

\* The loops run, and every pull is untarred in the end (AllAnswered of
\* OffloadClient); nobody has to kill the CLI.
Fairness ==
  /\ WF_vars(IoStep) /\ WF_vars(BaseStep) /\ WF_vars(CliStep)
  /\ WF_vars(Untarred) /\ \A l \in {"base", "io"} : WF_vars(RunFunctor(l))

Spec == Init /\ [][Next]_vars

FairSpec == Spec /\ Fairness

-----------------------------------------------------------------------------
(* Properties. *)

IsPrefixOf(s, t) == Len(s) <= Len(t) /\ s = SubSeq(t, 1, Len(s))

\* What the loop still has to send.
Queued ==
  IF \E i \in DOMAIN queue[io] : queue[io][i] = "header"
    THEN Frame("response")
    ELSE IF \E i \in DOMAIN queue[io] : queue[io][i] = "body"
           THEN Body("response") ELSE <<>>

\* No byte is lost, doubled or out of order, whatever is cut where and
\* whichever thread sends: what a side has parsed, what is in its input
\* buffer, on its way, in the other's output buffer and, for the response,
\* still to be sent is the beginning of the frame.
StreamIntact ==
  /\ IsPrefixOf(got["request"] \o Content(srv.in) \o c2s \o Content(cli.out),
                Frame("request"))
  /\ IsPrefixOf(got["response"] \o Content(cli.in) \o s2c, Frame("response"))
  /\ srv.state = "connected" /\ ~CliGone =>
       IsPrefixOf(got["response"] \o Content(cli.in) \o s2c
                    \o Content(srv.out) \o Queued, Frame("response"))

\* The assertions of Buffer, of connectEstablished and removeConnectionInLoop,
\* and of the server's ~TcpConnection and ~Channel hold.
SessionAssertions == ok

\* A message is taken out of the buffer once, and whole; so no assertion of
\* the session fails, the server takes up a pull once, and the CLI only ends
\* with a whole response.
WholeFrames ==
  /\ SessionAssertions
  /\ \A m \in Msgs : got[m] \in {<<>>, Frame(m)}
  /\ task # "none" => got["request"] = Frame("request")
  /\ exit \in {"quit", "done"} => got["response"] = Frame("response")

\* The functors send() queues hold no shared_ptr ("this, // FIXME"), yet none
\* of them runs after the connection is destructed: it is taken out of the
\* server by the loop that queued them, after them.  And completeTask, which
\* lets go of the connection before it sends, only sends to a destructed one
\* when the CLI has gone without its answer.
RawThisSafe ==
  /\ \/ checked
     \/ \E i \in DOMAIN queue[io] : queue[io][i] \in {"header", "body"}
     => Alive
  /\ sending # <<>> => Alive \/ CliGone

\* A CLI that is connected gets its response and ends, unless it is killed, or
\* the server ends on the erased task: never on a destructed connection.
CliAnswered == (cli.state = "connected") ~> (CliGone \/ crash = "task")
=============================================================================
